--------------------------- MODULE MCBoardMemory ---------------------------
(* Beats of two bytes.  Packets of one to three beats, one that is too long  *)
(* for the register; reads of odd lengths, in chunks smaller and larger than *)
(* a beat, across the ranges of two writes and past them.                   *)
EXTENDS BoardMemory

Put(at, beats) == [address |-> at, data |-> beats]
Get(at, bytes, chunk) == [address |-> at, bytes |-> bytes, chunk |-> chunk]
Packets == {Put(0, <<"a", "b", "c">>), Put(2, <<"b">>), Put(1, <<"c", "a">>), Put(0, <<"a", "a", "b", "b">>)}
Ranges == {Get(0, 6, 3), Get(2, 5, 0), Get(4, 2, 8), Get(0, 7, 2), Get(0, 0, 1)}
=============================================================================
