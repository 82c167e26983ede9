------------------------------ MODULE Recovery ------------------------------
(***************************************************************************)
(* The fpgactl commands that take an FPGA off the PCIe bus and bring it    *)
(* back (fpgactl/src/pcie.cpp, and the parts of jtag.cpp and qspi.cpp that *)
(* reconfigure the device), one action per access to the kernel.  A        *)
(* command is the list of the steps it still has to do.                    *)
(***************************************************************************)
EXTENDS Integers, Sequences, FiniteSets

CONSTANTS
    Cards,      \* the bus addresses of the cards that match the IDs
    Cabled,     \* the card on the JTAG cable
    Commands,   \* the commands that are run
    Selections, \* the values of --bdf, None if it is not given
    MaxFaults,  \* bound: things that go wrong in a behaviour
    None

AllCommands ==
    {"reload", "probe", "only", "post", "remove", "mrrs", "direct", "flash", "program", "boot"}
ASSUME CardsAssumption == IsFiniteSet(Cards) /\ Cabled \in Cards /\ None \notin Cards
ASSUME CommandsAssumption == Commands \subseteq AllCommands
ASSUME SelectionsAssumption == Selections \subseteq Cards \cup {None}

VARIABLES
    alive,   \* the cards that are configured and answer on the bus
    seen,    \* the kernel: endpoints under /sys/bus/pci/devices,
    stale,   \*   those whose card was reconfigured since they were found,
    loaded,  \*   the XDMA module,
    bound,   \*   the endpoints it drives,
    node,    \*   the endpoint of /dev/xdmaN_*, if these exist
    hint,    \* the saved BDF, which outlives the process
    cmd,     \* the process: its command,
    sel,     \*   options.bdf,
    target,  \*   the endpoint it works on,
    todo,    \*   what it still has to do,
    result,  \*   "running", "done" or "failed"
    faults   \* what may still go wrong

kernel == <<seen, stale, loaded, bound, node>>
process == <<cmd, sel, target>>
vars == <<alive, kernel, hint, process, todo, result, faults>>

-----------------------------------------------------------------------------
(* The kernel, the driver and the cards. *)

\* The driver takes every endpoint that answers as it was enumerated; the
\* first one gets the index.
Probe(s, st) ==
    /\ bound' = IF loaded' THEN bound \cup ((s \cap alive) \ st) ELSE {}
    /\ node' \in IF bound' = {} THEN {None} ELSE IF node \in bound' THEN {node} ELSE bound'

\* A rescan finds what answers; udev may load the module for what is new.
Rescan ==
    /\ seen' = seen \cup alive
    /\ loaded' \in IF seen' = seen THEN {loaded} ELSE {loaded, TRUE}
    /\ UNCHANGED stale
    /\ Probe(seen', stale)
Unload ==
    /\ loaded' = FALSE /\ bound' = {} /\ node' = None
    /\ UNCHANGED <<seen, stale>>
LoadModule ==
    /\ loaded' = TRUE
    /\ UNCHANGED <<seen, stale>>
    /\ Probe(seen, stale)
RemoveEndpoint(e) ==
    /\ seen' = seen \ {e} /\ stale' = stale \ {e} /\ bound' = bound \ {e}
    /\ node' \in IF node # e THEN {node} ELSE {None}
    /\ UNCHANGED loaded
\* A card loses its configuration, and may come back with another.
Reconfigured(c) ==
    /\ alive' \in {alive \ {c}, alive \cup {c}}
    /\ stale' = stale \cup ({c} \cap seen)
    /\ UNCHANGED <<seen, loaded, bound, node>>

\* A card boots from its flash.
Boot ==
    /\ \E c \in Cards \ alive : alive' = alive \cup {c}
    /\ UNCHANGED <<kernel, hint, process, todo, result, faults>>
\* Between two commands another tool, or a JTAG programming without --reload,
\* reconfigures a card.
Outside ==
    /\ result # "running" /\ faults > 0
    /\ \E c \in Cards : Reconfigured(c)
    /\ faults' = faults - 1
    /\ UNCHANGED <<hint, process, todo, result>>

-----------------------------------------------------------------------------
(* Finding the endpoint, and what each command does then. *)

\* findCurrentBdf without --bdf: the class link, the driver's only endpoint,
\* the only one that matches.
Candidates == IF node # None THEN {node} ELSE IF bound # {} THEN bound ELSE seen
Ambiguous == sel = None /\ Cardinality(Candidates) > 1
FindCurrentBdf ==
    IF sel # None THEN sel
    ELSE IF Candidates = {} THEN None ELSE CHOOSE e \in Candidates : TRUE

\* Mutants: in place, without taking the endpoint off; without a rescan.
KnownInPlace(remove) == <<"rescan", "load", "bind", "nodes">>
KnownNoRescan(remove) == <<"unload", remove, "load", "bind", "nodes">>
Finish == <<"load", "bind", "nodes">>
Known(remove) == <<"unload", remove, "rescan">> \o Finish
Discover == <<"unload", "discover">> \o Finish
\* Mutant: the endpoint is remembered and left where it is.
RememberOnly == <<"remember">>
ForReconfiguration == <<"remember", "unload", "remove">>

Plan(c, t) ==
    CASE c = "only"   -> <<"unload", "load", "visible", "bind", "nodes">>
      [] c = "remove" -> ForReconfiguration
      [] c = "mrrs"   -> <<"remember", "mrrs">>
      [] c = "post"   -> IF t = None THEN Discover ELSE Known("removeIfThere")
      [] c = "probe"  -> IF t \in seen THEN <<"rescan">> \o Finish ELSE Discover
      [] c = "reload" -> IF t \in seen THEN Known("remove") ELSE Discover
      [] c = "direct" -> (IF t \in seen THEN ForReconfiguration ELSE <<>>)
                            \o <<"sram">> \o Discover \o <<"remember">>
      [] c = "flash"  -> (IF t \in seen THEN ForReconfiguration ELSE <<>>)
                            \o <<"detect", "program">> \o Discover \o <<"remember">>
      [] c \in {"program", "boot"} ->
                         (IF t = None \/ node = None THEN Discover ELSE <<>>)
                            \o <<"device", "remember", "iprog">> \o Known("removeIfThere")

Refuses(c, t) ==
    \/ Ambiguous
    \/ c = "remove" /\ t \notin seen
    \/ c = "mrrs" /\ (t = None \/ (sel # None /\ sel \notin seen))

Init ==
    /\ alive \in SUBSET Cards
    /\ seen = alive /\ stale = {}
    /\ loaded = FALSE /\ bound = {} /\ node = None
    /\ hint = None
    /\ cmd \in Commands /\ sel = None /\ target = None
    /\ todo = <<>> /\ result = "done"
    /\ faults = MaxFaults

Run(c, b) ==
    /\ result # "running"
    /\ cmd' = c /\ sel' = b /\ target' = None
    /\ todo' = IF c = "program" THEN <<"update", "find">> ELSE <<"find">>
    /\ result' = "running"
    /\ UNCHANGED <<alive, kernel, hint, faults>>

At(step) == result = "running" /\ Head(todo) = step
Continue(rest) == todo' = rest /\ result' = IF rest = <<>> THEN "done" ELSE "running"
Fail == todo' = <<>> /\ result' = "failed"

\* The saved BDF stands in for an endpoint that is nowhere to be found.
Find ==
    /\ At("find")
    /\ target' = IF FindCurrentBdf = None /\ cmd # "mrrs" THEN hint ELSE FindCurrentBdf
    /\ IF Refuses(cmd, target') THEN Fail ELSE Continue(Plan(cmd, target'))
    /\ UNCHANGED <<alive, kernel, hint, cmd, sel, faults>>

-----------------------------------------------------------------------------
(* The steps.  Any of them may throw, and the process may be killed. *)

Breaks ==
    /\ result = "running" /\ faults > 0
    /\ Fail
    /\ faults' = faults - 1
    /\ UNCHANGED <<alive, kernel, hint, process>>

\* Saving the BDF only warns when it fails.
RememberBdf ==
    /\ At("remember")
    /\ \/ hint' = target /\ UNCHANGED faults
       \/ faults > 0 /\ hint' = hint /\ faults' = faults - 1
    /\ Continue(Tail(todo))
    /\ UNCHANGED <<alive, kernel, process>>
UnloadModule ==
    /\ At("unload")
    /\ Unload
    /\ Continue(Tail(todo))
    /\ UNCHANGED <<alive, hint, process, faults>>
RemoveTarget ==
    /\ At("remove") \/ At("removeIfThere")
    /\ \/ target \in seen /\ RemoveEndpoint(target) /\ Continue(Tail(todo))
       \/ target \notin seen /\ UNCHANGED kernel
          /\ IF At("remove") THEN Fail ELSE Continue(Tail(todo))
    /\ UNCHANGED <<alive, hint, process, faults>>
\* reenumerateKnown: rescan until this endpoint is there.
RescanKnown ==
    /\ At("rescan")
    /\ IF target \in seen THEN Continue(Tail(todo)) /\ UNCHANGED kernel
                          ELSE Rescan /\ UNCHANGED <<todo, result>>
    /\ UNCHANGED <<alive, hint, process, faults>>
\* recoverAfterReconfiguration: rescan and look for the preferred endpoint or,
\* unless it was selected, for any.
DiscoverEndpoint ==
    /\ At("discover")
    /\ Rescan
    /\ UNCHANGED <<alive, hint, cmd, sel, faults>>
    /\ LET found == IF target \in seen' THEN target
                    ELSE IF sel # None THEN None ELSE FindCurrentBdf'
       IN  IF target \notin seen' /\ Ambiguous' THEN Fail /\ UNCHANGED target
           ELSE IF found # None THEN target' = found /\ Continue(Tail(todo))
           ELSE UNCHANGED <<target, todo, result>>
\* Mutant: only the selected endpoint is bound.
LoadForTarget ==
    /\ At("load")
    /\ loaded' = TRUE
    /\ bound' = bound \cup (({target} \cap seen \cap alive) \ stale)
    /\ node' \in IF bound' = {} THEN {None} ELSE bound'
    /\ Continue(Tail(todo))
    /\ UNCHANGED <<alive, seen, stale, hint, process, faults>>
Load ==
    /\ At("load")
    /\ LoadModule
    /\ Continue(Tail(todo))
    /\ UNCHANGED <<alive, hint, process, faults>>
\* driver_only stops here if no endpoint is visible.
Visible ==
    /\ At("visible")
    /\ Continue(IF target \in seen THEN Tail(todo) ELSE <<>>)
    /\ UNCHANGED <<alive, kernel, hint, process, faults>>
Bind ==
    /\ At("bind")
    /\ target \in bound
    /\ Continue(Tail(todo))
    /\ UNCHANGED <<alive, kernel, hint, process, faults>>
Nodes ==
    /\ At("nodes")
    /\ node # None
    /\ \/ hint' = target /\ UNCHANGED faults
       \/ faults > 0 /\ hint' = hint /\ faults' = faults - 1
    /\ Continue(Tail(todo))
    /\ UNCHANGED <<alive, kernel, process>>

\* A wait reaches its deadline: what it waits for is not there (a deadline
\* that is too short for a healthy system is not modelled).
Timeout ==
    /\ \/ At("rescan")   /\ target \notin seen \cup alive
       \/ At("discover") /\ target \notin seen \cup alive /\ (sel = None => alive \cup seen = {})
       \/ At("bind")     /\ target \notin bound
       \/ At("nodes")    /\ node = None
    /\ Fail
    /\ UNCHANGED <<alive, kernel, hint, process, faults>>

\* openFPGALoader: the probe for the flash and the flash writer replace the
\* image; afterwards the card boots.  A failure is reported, or only printed.
Sram ==
    /\ At("sram") \/ At("detect") \/ At("program")
    /\ Reconfigured(Cabled)
    /\ \/ Continue(Tail(todo)) /\ UNCHANGED faults
       \/ faults > 0 /\ Fail /\ faults' = faults - 1
    /\ UNCHANGED <<hint, process>>
\* reloadFromFlash: the device node must exist, whoever it belongs to.
Device ==
    /\ At("device")
    /\ IF node = None THEN Fail ELSE Continue(Tail(todo))
    /\ UNCHANGED <<alive, kernel, hint, process, faults>>
\* runQspi before its --reload: the flash behind the device node is updated
\* (FlashProgram), which throws when it fails.
Update ==
    /\ At("update")
    /\ IF node = None THEN Fail ELSE Continue(Tail(todo))
    /\ UNCHANGED <<alive, kernel, hint, process, faults>>
\* setMrrs: the read-modify-write is read back; the configuration space of a
\* card that does not answer reads as ones, a capability list in a circle.
ConfigReadable(e) == e \in seen \cap alive
SetMrrs ==
    /\ At("mrrs")
    /\ IF ConfigReadable(target) THEN Continue(Tail(todo)) ELSE Fail
    /\ UNCHANGED <<alive, kernel, hint, process, faults>>
\* The configuration port takes the command, or ignores it.
Iprog ==
    /\ At("iprog")
    /\ \/ Reconfigured(node)
       \/ UNCHANGED <<alive, kernel>>
    /\ Continue(Tail(todo))
    /\ UNCHANGED <<hint, process, faults>>

Step ==
    \/ Find \/ RememberBdf \/ UnloadModule \/ RemoveTarget \/ RescanKnown \/ DiscoverEndpoint
    \/ Load \/ Visible \/ Bind \/ Nodes \/ Timeout \/ Sram
    \/ Device \/ Update \/ SetMrrs \/ Iprog
Next == Step \/ Breaks \/ Boot \/ Outside
        \/ \E c \in Commands, b \in Selections : Run(c, b)

\* Every wait of the process ends, and the operator goes on running commands.
Spec == Init /\ [][Next]_vars /\ WF_vars(Step)

-----------------------------------------------------------------------------
\* A command that announces an endpoint as ready has it enumerated since its
\* card was last configured and driven by the module, in whatever state the
\* commands before stopped or failed.  (probe does not remove it, and may
\* announce a binding from before.)
ReadyIsUsable ==
    [][Nodes /\ cmd # "probe" => target \in bound' \ stale']_vars

\* pcie.h: the live endpoint is removed, and the driver unloaded, before the
\* whole device is programmed over JTAG.  (Of a selected card that is not the
\* one on the cable, nothing is promised.)
NeverUnderDriver ==
    [][Sram /\ sel \in {None, Cabled} => Cabled \notin bound /\ target \notin seen]_vars

\* The driver serves every card again after a command for one of them.
NobodyLeftBehind ==
    [][Nodes => (seen \cap alive) \ stale \subseteq bound]_vars

\* Whatever happened before, one more reload of a selected card that answers
\* succeeds when nothing else goes wrong.
Recovered == result = "done" /\ target \in bound \ stale
RecoverySucceeds ==
    (At("find") /\ cmd \in {"reload", "post"} /\ faults = 0 /\ sel \in alive) ~> Recovered

=============================================================================
