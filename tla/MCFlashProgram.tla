--------------------------- MODULE MCFlashProgram ---------------------------
(* Small flashes and the updates asked of them, for TLC. *)
EXTENDS FlashProgram, FiniteSets

\* Every image for each of these image ranges, given as <<offset, size>>.
RequestsAt(ranges) ==
    UNION {[offset : {g[1]}, size : {g[2]}, rewrite : BOOLEAN,
            image : [g[1] .. g[1] + g[2] - 1 -> Value]] : g \in ranges}

\* Three sectors of two one-cell pages: an unaligned range, a whole sector,
\* one that ends beyond the device, and three sectors with a striped image.
Striped(lo, n) == [a \in lo .. lo + n - 1 |-> IF a % 2 = 0 THEN Erased ELSE Bits]
SmallRanges ==
    RequestsAt({<<1, 3>>, <<2, 2>>, <<5, 2>>})
        \cup [offset : {1}, size : {4}, rewrite : BOOLEAN, image : {Striped(1, 4)}]
\* Two sectors of two cells: ranges that leave a cell of one or both alone.
HelpRanges == RequestsAt({<<1, 2>>, <<1, 3>>, <<0, 1>>})
\* The bit names of a one-bit cell.
OneBit == {"b"}
=============================================================================
