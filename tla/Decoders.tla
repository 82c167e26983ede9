------------------------------ MODULE Decoders ------------------------------
(***************************************************************************)
(* The two formats fpgactl decodes and does not control, one per command:  *)
(* a .bit file (BitImage), or the configuration space of an endpoint and   *)
(* then its Device Control register (PciCapability).                       *)
(***************************************************************************)
EXTENDS BitImage, PciCapability

\* The state of a reader of an empty file, and of a space without a list.
FileDone ==
    /\ file = <<>> /\ damage = "cut" /\ stage = "done" /\ at = 0 /\ field = 1
    /\ read = [header |-> <<>>, fields |-> <<>>, payload |-> <<>>]
    /\ valid = FALSE /\ image = Unset
ConfigDone ==
    /\ size = 0 /\ listed = FALSE /\ start = 0 /\ link = [s \in Slots |-> 0] /\ express = {}
    /\ control = [mrrs |-> {}, others |-> "old"] /\ decoded = control
    /\ wpc = "unlisted" /\ pointer = 0 /\ visited = {} /\ requested = {} /\ outside = FALSE

DecodersInit == (ImageInit /\ ConfigDone) \/ (PciInit /\ FileDone)
DecodersNext ==
    \/ ImageStep /\ UNCHANGED pvars
    \/ PciNext /\ UNCHANGED ivars
DecodersSpec ==
    /\ DecodersInit /\ [][DecodersNext]_<<ivars, pvars>>
    /\ WF_pvars(Command)
=============================================================================
