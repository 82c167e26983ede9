------------------------------- MODULE HwIcap -------------------------------
(***************************************************************************)
(* AxiHwIcap (dev/src/ip_drivers/hwicap.cpp), one action per register      *)
(* access: validate and triggerIprog, run by one process after another on  *)
(* a core that the process before may have left anywhere.                  *)
(***************************************************************************)
EXTENDS Integers, Sequences

CONSTANTS
    Addresses, \* the flash addresses asked for
    Vacancy,   \* expected_fifo_vacancy_
    Depths     \* the vacancies an empty core may report

MaxFlashAddress == 16776960   \* 0x00ffff00
ASSUME AddressesAssumption == Addresses \subseteq Nat
\* The constructor.
ASSUME VacancyAssumption == Vacancy \in Nat /\ Vacancy >= 8
ASSUME DepthsAssumption == Depths \subseteq Nat \ {0}

\* The words of the packet that matter, and the boot address among them.
Dummy == -1   Sync == -2   Noop == -3   Wbstar == -4   Command == -5   IprogWord == -6
Packet(a) == <<Dummy, Sync, Noop, Wbstar, a \div 256, Command, IprogWord, Noop>>

VARIABLES
    present,  \* whether the BAR answers; otherwise every read is all ones
    ready,    \* the core: DONE and EOS,
    active,   \*   whether it is writing its FIFO to the port,
    depth,    \*   the words its FIFO takes,
    fifo,     \*   the FIFO,
    port,     \* the configuration port: the last word, and the boot address
    wbstar,
    todo,     \* the process: the register accesses still to do
    addr      \* the address it was asked for

core == <<present, ready, active, depth, fifo, port, wbstar>>
vars == <<core, todo, addr>>

Free == depth - Len(fifo)

-----------------------------------------------------------------------------
(* The core and the configuration port (external). *)

\* One word goes to the port; an IPROG makes the whole device disappear.
Drain ==
    /\ present /\ active
    /\ IF fifo = <<>> THEN active' = FALSE /\ UNCHANGED <<present, fifo, port, wbstar>>
       ELSE /\ fifo' = Tail(fifo)
            /\ port' = Head(fifo)
            /\ wbstar' = IF port = Wbstar THEN Head(fifo) ELSE wbstar
            /\ present' = ~(port = Command /\ Head(fifo) = IprogWord)
            /\ active' = active
    /\ UNCHANGED <<ready, depth, todo, addr>>
\* The device is configured again, and the host finds it.
Boot ==
    /\ ~present
    /\ present' = TRUE
    /\ ready' \in BOOLEAN
    /\ active' = FALSE /\ fifo' = <<>> /\ port' = Dummy
    /\ UNCHANGED <<depth, wbstar, todo, addr>>

-----------------------------------------------------------------------------
Validate == <<"ready", "control", "vacancy">>
\* Mutant: the core is not reset, only waited for.
ResetWaits == <<"idle", "ready">>
Reset == <<"reset", "release", "idle", "ready", "empty">>
Trigger == Reset \o <<"room">> \o [i \in 1 .. 8 |-> "word"] \o <<"write">>

Init ==
    /\ present = TRUE /\ ready \in BOOLEAN /\ active = FALSE
    /\ depth \in Depths
    /\ fifo = <<>> /\ port = Dummy /\ wbstar = 0
    /\ todo = <<>> /\ addr \in Addresses

\* Mutant: no upper bound.
AlignedOnly(a) == a % 256 = 0
BootAddress(a) == a <= MaxFlashAddress /\ a % 256 = 0
\* reloadFromFlash: validate, then triggerIprog, which checks its address
\* before it touches the core.
Start(a) ==
    /\ todo = <<>>
    /\ addr' = a
    /\ todo' = Validate \o (IF BootAddress(a) THEN Trigger ELSE <<>>)
    /\ UNCHANGED core

At(step) == todo # <<>> /\ Head(todo) = step
Go == todo' = Tail(todo)
Stop == todo' = <<>>

\* An access throws, or the process is killed.
Break ==
    /\ todo # <<>> /\ Stop
    /\ UNCHANGED <<core, addr>>

\* The checks.  All ones has the ready bits set, reserved and active bits too,
\* and is no vacancy.
Check ==
    /\ \/ At("ready")   /\ IF ready \/ ~present THEN Go ELSE Stop
       \/ At("control") /\ IF present THEN Go ELSE Stop
       \/ At("vacancy") /\ IF present /\ Free <= Vacancy THEN Go ELSE Stop
       \/ At("empty")   /\ IF present /\ Free = Vacancy THEN Go ELSE Stop
       \/ At("room")    /\ IF ~present \/ Free >= 8 THEN Go ELSE Stop
    /\ UNCHANGED <<core, addr>>
\* waitIdle ends when the core is idle, or at its deadline.
WaitIdle ==
    /\ At("idle")
    /\ \/ present /\ ~active /\ Go
       \/ (~present \/ active) /\ Stop
    /\ UNCHANGED <<core, addr>>
\* The two writes of reset(): the first one empties the FIFO and stops the core.
ResetCore ==
    /\ At("reset")
    /\ fifo' = IF present THEN <<>> ELSE fifo
    /\ active' = (active /\ ~present)
    /\ Go
    /\ UNCHANGED <<present, ready, depth, port, wbstar, addr>>
Release ==
    /\ At("release")
    /\ Go
    /\ UNCHANGED <<core, addr>>
\* The packet, word by word; a full FIFO drops what does not fit.
Word ==
    /\ At("word")
    /\ fifo' = IF present /\ Free > 0 THEN Append(fifo, Packet(addr)[10 - Len(todo)]) ELSE fifo
    /\ Go
    /\ UNCHANGED <<present, ready, active, depth, port, wbstar, addr>>
StartWrite ==
    /\ At("write")
    /\ active' = (active \/ present)
    /\ Go
    /\ UNCHANGED <<present, ready, depth, fifo, port, wbstar, addr>>

Step == Check \/ WaitIdle \/ ResetCore \/ Release \/ Word \/ StartWrite
Next == Step \/ Break \/ Drain \/ Boot \/ \E a \in Addresses : Start(a)

Spec == Init /\ [][Next]_vars

-----------------------------------------------------------------------------
\* The command is atomic: a write to the port starts with the whole packet of
\* the address asked for in the FIFO, and nothing that another process left.
PacketIsWhole == [][StartWrite /\ present => fifo = Packet(addr)]_vars

\* The device never boots from an address nobody asked for, nor from one that
\* its 24-bit configuration mode cannot reach.
BootsWhereAsked ==
    [][present /\ ~present' =>
        \E a \in Addresses : a <= MaxFlashAddress /\ a % 256 = 0 /\ wbstar' = a \div 256]_vars
=============================================================================
