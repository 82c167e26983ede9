------------------------------ MODULE NorFlash ------------------------------
(***************************************************************************)
(* The address arithmetic and the cell semantics of a serial NOR flash,    *)
(* shared by every module that touches it.  A cell is the set of bits that *)
(* are programmed to 0, so {} is the erased byte 0xff, programming can     *)
(* only add bits (a NOR program is a bitwise AND) and only an erase of the *)
(* whole sector takes them away.                                           *)
(***************************************************************************)
EXTENDS Integers

CONSTANTS
    NSectors,    \* erase sectors of the device
    EraseSize,   \* profile.erase_size, in cells
    PageSize,    \* profile.page_size, in cells
    Bits         \* the bits of one cell

ASSUME GeometryAssumption ==
    /\ NSectors  \in Nat \ {0}
    /\ EraseSize \in Nat \ {0}
    /\ PageSize  \in Nat \ {0}
    /\ EraseSize % PageSize = 0

Value == SUBSET Bits
Erased == {}
Capacity == NSectors * EraseSize
Addr == 0 .. Capacity - 1
Memory == [Addr -> Value]

SectorOf(a) == a \div EraseSize
SectorCells(s) == {a \in Addr : SectorOf(a) = s}
Within(from, to) == {a \in Addr : from <= a /\ a < to}

\* Programming data, a function of the cells it programs, over m; interrupted,
\* it has added some of the bits of data and not others.
Programmed(m, data) ==
    [a \in Addr |-> IF a \in DOMAIN data THEN m[a] \cup data[a] ELSE m[a]]
PartlyProgrammed(m, data) ==
    {Programmed(m, part) : part \in
        {d \in [DOMAIN data -> Value] : \A a \in DOMAIN data : d[a] \subseteq data[a]}}

\* An erase of sector s over m; interrupted, it leaves the sector reading as
\* anything, since an erase first levels the cells and then clears them.
WithSector(m, s, cells) ==
    [a \in Addr |-> IF SectorOf(a) = s THEN cells[a] ELSE m[a]]
ErasedAt(m, s) == [a \in Addr |-> IF SectorOf(a) = s THEN Erased ELSE m[a]]
PartlyErased(m, s) == {WithSector(m, s, cells) : cells \in [SectorCells(s) -> Value]}

NvcrBits == {"boot", "other"}   \* micron_safe_mask, and the rest
=============================================================================
