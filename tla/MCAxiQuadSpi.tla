---------------------------- MODULE MCAxiQuadSpi ----------------------------
(* A one-byte and a three-byte command. *)
EXTENDS AxiQuadSpi
TwoRequests == {<<"06">>, <<"05", "a", "b">>}
=============================================================================
