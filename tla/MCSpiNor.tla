------------------------------ MODULE MCSpiNor ------------------------------
(* Flashes of two sectors of three cells, and the calls made on them. *)
EXTENDS SpiNor

OneBit == {"b"}
Ask(name, address, cells) == [op |-> name, at |-> address, data |-> cells]
\* A program that starts inside a page, crosses into the next one and is longer
\* than a transfer; one of no data; a read over three transfers; an erase that
\* is refused.
SomeCalls ==
    {Ask("erase", 3, Nothing), Ask("erase", 1, Nothing), Ask("repair", 0, Nothing),
     Ask("program", 5, Nothing),
     Ask("program", 2, [a \in 2 .. 4 |-> IF a = 4 THEN {} ELSE {"b"}]),
     Ask("read", 1, [a \in 1 .. 5 |-> Erased])}
=============================================================================
