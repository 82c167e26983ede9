----------------------------- MODULE AxiQuadSpi -----------------------------
(***************************************************************************)
(* AxiQuadSpi (dev/src/ip_drivers/qspi.cpp), one step per register access, *)
(* over the AXI Quad SPI core it drives.  What a function still has to do  *)
(* is a script of register accesses; the core shifts bytes, raises its     *)
(* toggle-on-write interrupt bits and resets its FIFOs between any two of  *)
(* them, may stall or refuse the command, and any access may fail.         *)
(***************************************************************************)
EXTENDS Integers, Sequences, SequencesExt

CONSTANTS
    Bytes,       \* what a byte on the wires can be
    Requests,    \* the byte sequences transferred
    MaxFaults    \* register accesses that fail, in all

ASSUME BytesAssumption == {"9f", "00"} \subseteq Bytes
ASSUME RequestsAssumption == Requests \subseteq Seq(Bytes) \ {<<>>}
ASSUME FaultsAssumption == MaxFaults \in Nat

VARIABLES
    running,   \* the core: not inhibited
    selected,  \*   slave 0 is selected
    tx, rx,    \*   its FIFOs
    resetting, \*   a FIFO-reset bit still reads as set
    ints,      \*   its interrupt status, a set of "txempty", "cmderr"
    window,    \* the flash: bytes seen since it was last selected
    phase,     \* the driver: constructing, "idle", in a transfer, or "absent"
    todo,      \*   the register accesses left
    seen,      \*   interrupts read last
    request, result, exit,
    meant,     \* history: the request the flash was selected for
    faults     \* register accesses that have failed

core == <<running, selected, tx, rx, resetting, ints, window, meant>>
driver == <<phase, todo, seen, request, result, exit>>
vars == <<core, driver, faults>>

-----------------------------------------------------------------------------
(* The functions as scripts. *)

ResetFifos == <<"fiforeset", "fifowait", "idle">>
\* Mutant: read, but not acknowledged.
ClearNothing == <<"readints">>
ClearInterrupts == <<"readints", "ackints">>
Prepare == ResetFifos \o <<"none">> \o ClearInterrupts

Transfer == Prepare \o <<"fill", "readcontrol", "flash", "run", "poll">>
OnTxEmpty == <<"idle", "drain", "none">> \o ClearInterrupts
OnRejected == <<"idle", "none", "ackints">>
OnDeadline == <<"idle", "none">>

\* primeStartupClock: its preparation, its try block, and the rest with reset.
\* Mutant: with the flash selected.
PrimeSelected == <<"fill", "readcontrol", "flash", "run", "readcontrol", "idle", "discard">>
PrimeClock == <<"fill", "readcontrol", "run", "readcontrol", "idle", "discard">>
Reset == <<"softreset">> \o Prepare
Settle == <<"idle", "none">>
Phases == [prepare |-> Prepare, prime |-> PrimeClock, settle |-> Settle \o Reset,
           restore |-> Settle, transfer |-> Transfer, destroy |-> Settle]
After == [prepare |-> "prime", prime |-> "settle", settle |-> "idle",
           restore |-> "absent", transfer |-> "idle", destroy |-> "absent"]

Enter(p) == phase' = p /\ todo' = IF p \in DOMAIN Phases THEN Phases[p] ELSE <<>>
\* The function throws; the try block of primeStartupClock restores first.
Throw(how) ==
    /\ Enter(CASE phase = "prime"    -> "restore"
               [] phase = "transfer" -> "idle"
               [] OTHER              -> "absent")
    /\ exit' = how

Init ==
    /\ running = FALSE /\ selected = FALSE /\ resetting = FALSE
    /\ tx = <<>> /\ rx = <<>> /\ ints \in {{}, {"txempty"}}
    /\ window = <<>> /\ meant = <<>>
    /\ phase = "absent" /\ todo = <<>> /\ seen = {} /\ exit = "none"
    /\ request \in Requests /\ result = <<>>
    /\ faults = 0

Construct ==
    /\ phase = "absent" /\ Enter("prepare")
    /\ UNCHANGED <<core, seen, request, result, exit, faults>>
BeginTransfer(r) ==
    /\ phase = "idle" /\ todo = <<>> /\ Enter("transfer")
    /\ request' = r /\ result' = <<>> /\ exit' = "none"
    /\ UNCHANGED <<core, seen, faults>>
Destroy ==
    /\ phase = "idle" /\ Enter("destroy")
    /\ UNCHANGED <<core, seen, request, result, exit, faults>>
Kill ==
    /\ phase # "absent" /\ Enter("absent")
    /\ UNCHANGED <<core, seen, request, result, exit, faults>>

-----------------------------------------------------------------------------
(* Register accesses. *)

At(access) == todo # <<>> /\ Head(todo) = access
Go == /\ IF Len(todo) = 1 THEN Enter(After[phase]) ELSE todo' = Tail(todo) /\ phase' = phase
      /\ exit' = IF Len(todo) = 1 /\ phase = "transfer" /\ exit = "none" THEN "ok" ELSE exit

Fiforeset ==
    /\ At("fiforeset")
    /\ running' = FALSE /\ tx' = <<>> /\ rx' = <<>> /\ resetting' = TRUE
    /\ Go
    /\ UNCHANGED <<selected, ints, window, meant, seen, request, result, faults>>
FifoWait ==
    /\ At("fifowait")
    /\ \/ ~resetting /\ Go
       \/ resetting /\ Throw("late")
    /\ UNCHANGED <<core, seen, request, result, faults>>
Idle ==
    /\ At("idle")
    /\ running' = FALSE
    /\ Go
    /\ UNCHANGED <<selected, tx, rx, resetting, ints, window, meant, seen, request, result, faults>>
Run ==
    /\ At("run")
    /\ running' = TRUE
    /\ Go
    /\ UNCHANGED <<selected, tx, rx, resetting, ints, window, meant, seen, request, result, faults>>
SelectNone ==
    /\ At("none")
    /\ selected' = FALSE
    /\ Go
    /\ UNCHANGED <<running, tx, rx, resetting, ints, window, meant, seen, request, result, faults>>
SelectFlash ==
    /\ At("flash")
    /\ selected' = TRUE
    /\ IF selected THEN UNCHANGED <<window, meant>> ELSE window' = <<>> /\ meant' = request
    /\ Go
    /\ UNCHANGED <<running, tx, rx, resetting, ints, seen, request, result, faults>>
ReadInts ==
    /\ At("readints")
    /\ seen' = ints
    /\ Go
    /\ UNCHANGED <<core, request, result, faults>>
\* Writing a bit toggles it.
Toggle(bits) == ints' = (ints \ bits) \cup (bits \ ints)
AckInts ==
    /\ At("ackints")
    /\ Toggle(seen)
    /\ Go
    /\ UNCHANGED <<running, selected, tx, rx, resetting, window, meant, seen, request, result, faults>>
\* One byte per step: the request, or the three bytes that clock STARTUP.
Filling == IF phase = "prime" THEN <<"9f", "00", "00">> ELSE request
Fill ==
    /\ At("fill")
    /\ tx' = Append(tx, Filling[Len(tx) + 1])
    /\ IF Len(tx) + 1 = Len(Filling) THEN Go ELSE UNCHANGED <<phase, todo, exit>>
    /\ UNCHANGED <<running, selected, rx, resetting, ints, window, meant, seen, request, result, faults>>
ReadControl ==
    /\ At("readcontrol")
    /\ Go
    /\ UNCHANGED <<core, seen, request, result, faults>>
\* Mutant: no deadline.
PollForever ==
    /\ At("poll")
    /\ seen' = ints
    /\ \/ "cmderr" \in ints /\ todo' = OnRejected /\ exit' = "rejected"
       \/ "cmderr" \notin ints /\ "txempty" \in ints /\ todo' = OnTxEmpty /\ exit' = exit
    /\ UNCHANGED <<core, phase, request, result, faults>>
Poll ==
    /\ At("poll")
    /\ seen' = ints
    /\ \/ "cmderr" \in ints /\ todo' = OnRejected /\ exit' = "rejected"
       \/ "cmderr" \notin ints /\ "txempty" \in ints /\ todo' = OnTxEmpty /\ exit' = exit
       \/ ints = {} /\ todo' = OnDeadline /\ exit' = "late"
    /\ UNCHANGED <<core, phase, request, result, faults>>
\* One byte per step; an empty receive FIFO reads as garbage.
PopRx == IF rx = <<>> THEN <<0, rx>> ELSE <<Head(rx), Tail(rx)>>
AllReplies == Len(result) + 1 = Len(request)
Drain ==
    /\ At("drain")
    /\ result' = Append(result, PopRx[1])
    /\ rx' = PopRx[2]
    /\ IF AllReplies THEN Go ELSE UNCHANGED <<phase, todo, exit>>
    /\ UNCHANGED <<running, selected, tx, resetting, ints, window, meant, seen, request, faults>>
\* Priming throws away at most two received bytes.
Discard ==
    /\ At("discard")
    /\ rx' = SubSeq(rx, 3, Len(rx))
    /\ Go
    /\ UNCHANGED <<running, selected, tx, resetting, ints, window, meant, seen, request, result, faults>>
SoftReset ==
    /\ At("softreset")
    /\ running' = FALSE /\ selected' = FALSE /\ resetting' = FALSE
    /\ tx' = <<>> /\ rx' = <<>> /\ ints' = {}
    /\ Go
    /\ UNCHANGED <<window, meant, seen, request, result, faults>>
\* The transport throws; ~AxiQuadSpi swallows it and gives up.
AccessFails ==
    /\ todo # <<>> /\ faults < MaxFaults
    /\ faults' = faults + 1
    /\ Throw("iofail")
    /\ UNCHANGED <<core, seen, request, result>>

-----------------------------------------------------------------------------
(* The core. *)

Shift ==
    /\ running /\ tx # <<>> /\ "cmderr" \notin ints
    /\ tx' = Tail(tx)
    /\ window' = IF selected THEN Append(window, Head(tx)) ELSE window
    /\ rx' = Append(rx, IF selected THEN Len(window) + 1 ELSE 0)
    /\ ints' = IF Len(tx) = 1 THEN ints \cup {"txempty"} ELSE ints
    /\ UNCHANGED <<running, selected, resetting, meant, driver, faults>>
\* It looks at the first byte of a command before shifting it out.
Refuse ==
    /\ running /\ selected /\ tx # <<>> /\ rx = <<>>
    /\ ints' = ints \cup {"cmderr"}
    /\ UNCHANGED <<running, selected, tx, rx, resetting, window, meant, driver, faults>>
FifosReset ==
    /\ resetting
    /\ resetting' = FALSE
    /\ UNCHANGED <<running, selected, tx, rx, ints, window, meant, driver, faults>>

Access == \/ Fiforeset \/ FifoWait \/ Idle \/ Run \/ SelectNone \/ SelectFlash
          \/ ReadInts \/ AckInts \/ Fill \/ ReadControl \/ Poll \/ Drain \/ Discard
          \/ SoftReset
Core == Shift \/ Refuse \/ FifosReset
Next == Access \/ AccessFails \/ Core \/ Kill \/ Construct \/ Destroy
        \/ \E r \in Requests : BeginTransfer(r)

\* Every access returns or throws; the core owes nothing.
Spec == Init /\ [][Next]_vars /\ WF_vars(Access)

-----------------------------------------------------------------------------
\* What the flash sees between two selections is a prefix of one request:
\* never a byte left over from an earlier transfer, a priming byte, or a
\* second command, even after failures, kills and restarts.
OneCommandPerSelection == IsPrefix(window, meant)

\* A transfer that returns has sent the whole request and holds the reply to
\* each of its bytes: it never takes an interrupt of an earlier transfer for
\* its own.
TransferIsWhole ==
    exit = "ok" => result = [i \in 1 .. Len(request) |-> i]
                   /\ (phase = "idle" => window = request)

\* Every function ends.
FunctionsEnd == todo # <<>> ~> todo = <<>>
=============================================================================
