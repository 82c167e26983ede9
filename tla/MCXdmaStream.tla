---------------------------- MODULE MCXdmaStream ----------------------------
(* Two threads: one makes every call, the other writes. *)
EXTENDS XdmaStream
CONSTANTS t1, t2
Calls == [t \in Threads |-> IF t = t1 THEN Ops ELSE {"write"}]
=============================================================================
