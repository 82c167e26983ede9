----------------------------- MODULE XdmaProofs -----------------------------
(***************************************************************************)
(* Theorems about the XDMA library: the calls on a stream (XdmaStream),    *)
(* for any number of threads and any calls they make, and packets of any   *)
(* size, and the objects that own the device files (DeviceFiles), for any  *)
(* number of objects and descriptors.                                      *)
(***************************************************************************)
EXTENDS XdmaStream, DeviceFiles, SequenceTheorems, TLAPS

-----------------------------------------------------------------------------
(* ------------------------------ XdmaStream ----------------------------- *)

TypeOK ==
    /\ installed \in BOOLEAN /\ killed \in BOOLEAN
    /\ callerMask \in [Threads -> BOOLEAN]
    /\ masked \in [Threads -> BOOLEAN]
    /\ pending \in [Threads -> BOOLEAN]
    /\ fired \in [Threads -> BOOLEAN]
    /\ timer \in [Threads -> {"none", "set", "due"}]
    /\ late \in [Threads -> BOOLEAN]
    /\ pc \in [Threads -> Steps]
    /\ op \in [Threads -> Ops]
    /\ finite \in [Threads -> BOOLEAN]
    /\ result \in [Threads -> Results]
    /\ outcome \in [Threads -> Outcomes]
    /\ packet \in [Threads -> Nat]
    /\ taken \in [Threads -> Nat]
    /\ fragment \in [Threads -> Nat]
    /\ buf \in [Threads -> Seq(Int)]

\* Where the guard's timer exists.
Armed == {"unmask", "block", "disarm"}
InCall == {"check", "enter", "sys", "sysdone", "poll", "polldone"}
\* Where SIGUSR2 is blocked by the guard, and where a notification may wait.
Guarding == {"drain", "install", "arm", "undo", "unmask", "disarm", "clear"}
Waiting == {"unmask", "disarm", "clear"}
\* Where the caller's mask is known to let SIGUSR2 through.
Admitted == {"install", "arm", "undo", "unmask", "block", "disarm", "clear"}
\* Where the call is still to be decided.
Undecided == {"mask", "drain", "install", "arm", "undo", "unmask"} \cup InCall

TimerInv(t) ==
    /\ pc[t] \in Armed => timer[t] # "none"
    /\ pc[t] \in InCall => (timer[t] # "none" <=> finite[t])
    /\ pc[t] \notin Armed \cup InCall => timer[t] = "none"
    /\ timer[t] # "none" \/ pc[t] = "arm" => installed
    /\ timer[t] = "due" => late[t]
MaskInv(t) ==
    /\ pc[t] \in Guarding => masked[t]
    /\ pc[t] \notin Guarding => masked[t] = callerMask[t]
    /\ pc[t] \in Guarding \cup Armed => finite[t]
    /\ pc[t] \in Admitted => ~callerMask[t]
    /\ pc[t] \in InCall /\ finite[t] => ~callerMask[t]
    /\ pending[t] => pc[t] \in Waiting /\ late[t]
FiredInv(t) ==
    /\ fired[t] => pc[t] \in InCall \cup {"block", "disarm", "clear"}
    /\ fired[t] => finite[t] /\ late[t]
    /\ op[t] = "exact" => finite[t]
    /\ pc[t] = "loop" => op[t] = "exact"
    /\ pc[t] \in Undecided => outcome[t] = "none"
    /\ outcome[t] \in {"timeout", "unsubmitted"} => finite[t] /\ late[t]

SigInv ==
    /\ TypeOK
    /\ ~killed
    /\ \A t \in Threads : TimerInv(t) /\ MaskInv(t) /\ FiredInv(t)

\* A write: what the device has taken where, and what the outcome says of it.
PacketInv(t) ==
    op[t] = "write" =>
        /\ pc[t] \notin {"poll", "polldone"}
        /\ pc[t] \in Undecided \ {"sys", "sysdone"} => packet[t] = 0
        /\ pc[t] = "sysdone" => result[t] # "data" /\ (result[t] = "whole" => packet[t] = Size)
        /\ outcome[t] = "ok" => packet[t] = Size
        /\ outcome[t] = "unsubmitted" => packet[t] = 0
\* A read: a fragment is in hand only between the system call and the code
\* after it, and is lost only together with the call.
Prefix(n) == [i \in 1 .. n |-> i]
InHand(t) == pc[t] = "sysdone" /\ result[t] = "data"
StreamInv(t) ==
    /\ buf[t] = Prefix(Len(buf[t])) /\ Len(buf[t]) <= Size
    /\ pc[t] = "loop" => outcome[t] \in {"none", "ok", "zero"}
    /\ InHand(t) => fragment[t] \in 1 .. Size - Len(buf[t])
    /\ outcome[t] \in {"none", "ok", "zero"} =>
           taken[t] = Len(buf[t]) + IF InHand(t) THEN fragment[t] ELSE 0
    /\ pc[t] = "idle" /\ op[t] = "exact" /\ outcome[t] = "ok" => Len(buf[t]) = Size

DataInv == SigInv /\ \A t \in Threads : PacketInv(t) /\ StreamInv(t)

-----------------------------------------------------------------------------
\* A fragment of the stream is a sequence.
LEMMA FragmentIsSeq ==
    ASSUME NEW f \in Nat, NEW k \in Int
    PROVE  /\ [i \in 1 .. f |-> k + i] \in Seq(Int)
           /\ Len([i \in 1 .. f |-> k + i]) = f
  <1> DEFINE w == [i \in 1 .. f |-> k + i]
  <1>1. w \in [1 .. f -> Int]
    OBVIOUS
  <1> HIDE DEF w
  <1>2. w \in Seq(Int) /\ Len(w) = f
    BY <1>1
  <1> QED
    BY <1>2 DEF w

\* A fragment that starts where the delivered bytes end continues them.
LEMMA FragmentContinues ==
    ASSUME NEW b \in Seq(Int), b = Prefix(Len(b)), NEW f \in Nat
    PROVE  /\ b \o [i \in 1 .. f |-> Len(b) + i] = Prefix(Len(b) + f)
           /\ Len(b \o [i \in 1 .. f |-> Len(b) + i]) = Len(b) + f
  <1> DEFINE w == [i \in 1 .. f |-> Len(b) + i]
             c == b \o w
  <1>1. Len(b) \in Nat /\ \A i \in 1 .. Len(b) : b[i] = i
    BY DEF Prefix
  <1>2. w \in Seq(Int) /\ Len(w) = f /\ \A i \in 1 .. f : w[i] = Len(b) + i
    BY <1>1, FragmentIsSeq
  <1> HIDE DEF w
  <1>3. c \in Seq(Int) /\ Len(c) = Len(b) + f
    BY <1>2, ConcatProperties
  <1>4. \A i \in 1 .. Len(b) + f : c[i] = i
    BY <1>1, <1>2, ConcatProperties
  <1> HIDE DEF c
  <1>5. c = [i \in 1 .. Len(b) + f |-> c[i]]
    BY <1>3
  <1>6. c = Prefix(Len(b) + f)
    BY <1>4, <1>5 DEF Prefix
  <1> QED
    BY <1>3, <1>6 DEF c, w

\* Every step keeps the types.
LEMMA TypeStep == TypeOK /\ [Next]_vars => TypeOK'
  <1> SUFFICES ASSUME TypeOK, [Next]_vars PROVE TypeOK'
    OBVIOUS
  <1> USE SizeAssumption DEF TypeOK, signals, data, Set, Goto, Steps, Ops, Results, Outcomes
  <1>1. ASSUME NEW s \in Threads, App(s) PROVE TypeOK'
    <2>1. CASE AppMask(s)
      BY <2>1 DEF AppMask
    <2>2. ASSUME NEW o \in Makes[s], NEW bounded \in BOOLEAN, Call(s, o, bounded)
          PROVE TypeOK'
      <3>1. o \in Ops
        BY ThreadsAssumption
      <3> QED
        BY <2>2, <3>1 DEF Call
    <2> QED
      BY <1>1, <2>1, <2>2 DEF App
  <1>2. ASSUME NEW s \in Threads, Program(s) PROVE TypeOK'
    <2>1. CASE ExactLoop(s) \/ Leave(s)
      BY <2>1, Zenon DEF ExactLoop, Leave, Complete
    <2>2. CASE Mask(s)
      BY <2>2 DEF Mask, Guarded
    <2>8. CASE Drain(s) \/ Install(s) \/ Arm(s)
      BY <2>8 DEF Drain, Install, Arm
    <2>3. CASE Unmask(s)
      <3>1. CASE pending[s] /\ ~callerMask[s]
        BY <2>3, <3>1 DEF Unmask, Restore
      <3>2. CASE ~(pending[s] /\ ~callerMask[s])
        BY <2>3, <3>2 DEF Unmask, Restore
      <3> QED
        BY <3>1, <3>2
    <2>9. CASE Undo(s)
      BY <2>9 DEF Undo
    <2>4. CASE Block(s) \/ Disarm(s)
      BY <2>4 DEF Block, Disarm
    <2>10. CASE Clear(s)
      BY <2>10 DEF Clear
    <2>5. CASE Check(s) \/ Enter(s) \/ AfterPoll(s)
      BY <2>5 DEF Check, Enter, AfterPoll, Finish
    <2>6. CASE AfterWrite(s)
      BY <2>6 DEF AfterWrite, WriteOutcome, Finish
    <2>7. CASE AfterRead(s)
      <3>1. buf[s] \o [i \in 1 .. fragment[s] |-> taken[s] - fragment[s] + i] \in Seq(Int)
        <4> DEFINE f == fragment[s]
                   k == taken[s] - fragment[s]
        <4>1. f \in Nat /\ k \in Int /\ buf[s] \in Seq(Int)
          OBVIOUS
        <4> HIDE DEF f, k
        <4>2. [i \in 1 .. f |-> k + i] \in Seq(Int)
          BY <4>1, FragmentIsSeq
        <4>3. buf[s] \o [i \in 1 .. f |-> k + i] \in Seq(Int)
          BY <4>1, <4>2, ConcatProperties
        <4> QED
          BY <4>3 DEF f, k
      <3>2. buf' \in [Threads -> Seq(Int)]
        BY <2>7, <3>1 DEF AfterRead
      <3>3. pc' \in [Threads -> Steps] /\ outcome' \in [Threads -> Outcomes]
        <4>1. CASE result[s] = "again"
          BY <2>7, <4>1 DEF AfterRead
        <4>2. CASE result[s] # "again"
          BY <2>7, <4>2, Zenon DEF AfterRead, Finish
        <4> QED
          BY <4>1, <4>2
      <3> QED
        BY <2>7, <3>2, <3>3 DEF AfterRead
    <2> QED
      BY <1>2, <2>1, <2>2, <2>3, <2>4, <2>5, <2>6, <2>7, <2>8, <2>9, <2>10 DEF Program
  <1>3. ASSUME NEW s \in Threads, Device(s) PROVE TypeOK'
    <2>1. CASE DeviceTakes(s)
      BY <2>1 DEF DeviceTakes
    <2>2. ASSUME NEW r \in Results, Return(s, r),
                 packet' = packet /\ buf' = buf,
                 taken' \in [Threads -> Nat], fragment' \in [Threads -> Nat]
          PROVE TypeOK'
      BY <2>2 DEF Return
    <2>3. CASE WriteReturns(s)
      BY <2>2, <2>3 DEF WriteReturns
    <2>4. CASE SysFails(s)
      BY <2>2, <2>4 DEF SysFails
    <2>5. CASE PollReturns(s)
      BY <2>2, <2>5 DEF PollReturns
    <2>6. CASE ReadReturns(s)
      <3>1. ASSUME NEW n \in 1 .. Size - Len(buf[s]), Return(s, "data"),
                   taken' = Set(taken, s, taken[s] + n), fragment' = Set(fragment, s, n)
            PROVE TypeOK'
        <4>1. n \in Nat
          OBVIOUS
        <4>2. taken' \in [Threads -> Nat] /\ fragment' \in [Threads -> Nat]
          BY <3>1, <4>1
        <4> QED
          BY <2>2, <2>6, <3>1, <4>2 DEF ReadReturns
      <3> QED
        BY <2>2, <2>6, <3>1 DEF ReadReturns
    <2> QED
      BY <1>3, <2>1, <2>3, <2>4, <2>5, <2>6 DEF Device
  <1>4. ASSUME NEW s \in Threads, Tick(s) \/ Notify(s) PROVE TypeOK'
    <2>1. CASE Tick(s)
      BY <2>1 DEF Tick
    <2>2. CASE Notify(s)
      <3>1. CASE masked[s]
        BY <2>2, <3>1 DEF Notify
      <3>2. CASE ~masked[s] /\ pc[s] \in {"sys", "poll"}
        <4>1. pc' = [pc EXCEPT ![s] = "sysdone"] \/ pc' = [pc EXCEPT ![s] = "polldone"]
          BY <2>2, <3>2, Zenon DEF Notify
        <4>2. pc' \in [Threads -> Steps]
          BY <4>1
        <4>3. /\ fired' = [fired EXCEPT ![s] = installed] /\ killed' = (killed \/ ~installed)
              /\ result' = [result EXCEPT ![s] = "eintr"] /\ pending' = pending
              /\ UNCHANGED <<installed, callerMask, masked, timer, late, op, finite, outcome,
                             packet, taken, buf, fragment>>
          BY <2>2, <3>2, Zenon DEF Notify
        <4> HIDE DEF Steps
        <4> QED
          BY <4>2, <4>3
      <3>3. CASE ~masked[s] /\ pc[s] \notin {"sys", "poll"}
        BY <2>2, <3>3 DEF Notify
      <3> QED
        BY <3>1, <3>2, <3>3
    <2> QED
      BY <1>4, <2>1, <2>2
  <1>5. CASE UNCHANGED vars
    BY <1>5 DEF vars
  <1> QED
    BY <1>1, <1>2, <1>3, <1>4, <1>5 DEF Next

-----------------------------------------------------------------------------
SigOf(t) == TimerInv(t) /\ MaskInv(t) /\ FiredInv(t)

\* Every step of every thread keeps the signal part of the invariant.
LEMMA SigStep == SigInv /\ [Next]_vars => SigInv'
  <1> SUFFICES ASSUME SigInv, [Next]_vars PROVE ~killed' /\ \A t \in Threads : SigOf(t)'
    BY TypeStep DEF SigInv, SigOf
  <1>0. TypeOK /\ ~killed /\ (\A t \in Threads : SigOf(t)) /\ TypeOK'
    BY TypeStep DEF SigInv, SigOf
  <1> USE SizeAssumption DEF TypeOK, signals, data, Set, Goto, Steps, Ops, Results, Outcomes,
          SigOf, TimerInv, MaskInv, FiredInv, Armed, InCall, Guarding, Waiting, Admitted, Undecided
  <1>1. ASSUME NEW s \in Threads, App(s) PROVE ~killed' /\ \A t \in Threads : SigOf(t)'
    <2>1. CASE AppMask(s)
      BY <1>0, <2>1 DEF AppMask
    <2>2. ASSUME NEW o \in Makes[s], NEW bounded \in BOOLEAN, Call(s, o, bounded)
          PROVE ~killed' /\ \A t \in Threads : SigOf(t)'
      BY <1>0, <2>2, ThreadsAssumption DEF Call
    <2> QED
      BY <1>1, <2>1, <2>2 DEF App
  <1>2. ASSUME NEW s \in Threads, Program(s) PROVE ~killed' /\ \A t \in Threads : SigOf(t)'
    <2>1. CASE ExactLoop(s)
      BY <1>0, <2>1 DEF ExactLoop
    <2>2. CASE Leave(s)
      BY <1>0, <2>2 DEF Leave
    <2>3. CASE Mask(s)
      BY <1>0, <2>3 DEF Mask, Guarded
    <2>4. CASE Drain(s)
      BY <1>0, <2>4 DEF Drain
    <2>5. CASE Install(s)
      BY <1>0, <2>5 DEF Install
    <2>6. CASE Arm(s)
      BY <1>0, <2>6 DEF Arm
    <2>7. CASE Unmask(s)
      <3>1. ~killed'
        BY <1>0, <2>7 DEF Unmask, Restore
      <3>2. ASSUME NEW t \in Threads \ {s} PROVE SigOf(t)'
        BY <1>0, <2>7, <3>2 DEF Unmask, Restore
      <3>3. ~pending[s]' /\ masked'[s] = callerMask'[s] /\ (fired'[s] => fired[s] \/ pending[s])
        BY <1>0, <2>7 DEF Unmask, Restore
      <3>4. SigOf(s)'
        BY <1>0, <2>7, <3>3 DEF Unmask
      <3> QED
        BY <3>1, <3>2, <3>4
    <2>8. CASE Undo(s)
      BY <1>0, <2>8 DEF Undo
    <2>9. CASE Block(s)
      BY <1>0, <2>9 DEF Block
    <2>10. CASE Disarm(s)
      BY <1>0, <2>10 DEF Disarm
    <2>11. CASE Clear(s)
      BY <1>0, <2>11 DEF Clear
    <2>12. CASE Check(s)
      BY <1>0, <2>12 DEF Check, Finish
    <2>13. CASE AfterWrite(s)
      BY <1>0, <2>13 DEF AfterWrite, WriteOutcome, Finish
    <2>14. CASE AfterRead(s)
      BY <1>0, <2>14 DEF AfterRead, Finish
    <2>15. CASE AfterPoll(s)
      <3>1. CASE result[s] = "ready" /\ ~fired[s]
        BY <1>0, <2>15, <3>1 DEF AfterPoll
      <3>2. CASE ~(result[s] = "ready" /\ ~fired[s])
        BY <1>0, <2>15, <3>2 DEF AfterPoll, Finish
      <3> QED
        BY <3>1, <3>2
    <2>16. CASE Enter(s)
      BY <1>0, <2>16 DEF Enter
    <2> QED
      BY <1>2, <2>1, <2>2, <2>3, <2>4, <2>5, <2>6, <2>7, <2>8, <2>9, <2>10, <2>11, <2>12, <2>13, <2>14, <2>15, <2>16 DEF Program
  <1>3. ASSUME NEW s \in Threads, Device(s) PROVE ~killed' /\ \A t \in Threads : SigOf(t)'
    <2>1. CASE DeviceTakes(s)
      BY <1>0, <2>1 DEF DeviceTakes, Return
    <2>2. CASE WriteReturns(s)
      BY <1>0, <2>2 DEF WriteReturns, Return
    <2>3. CASE ReadReturns(s)
      BY <1>0, <2>3 DEF ReadReturns, Return
    <2>4. CASE SysFails(s)
      BY <1>0, <2>4 DEF SysFails, Return
    <2>5. CASE PollReturns(s)
      BY <1>0, <2>5 DEF PollReturns, Return
    <2> QED
      BY <1>3, <2>1, <2>2, <2>3, <2>4, <2>5 DEF Device
  <1>4. ASSUME NEW s \in Threads, Tick(s) PROVE ~killed' /\ \A t \in Threads : SigOf(t)'
    BY <1>0, <1>4 DEF Tick
  <1>5. ASSUME NEW s \in Threads, Notify(s) PROVE ~killed' /\ \A t \in Threads : SigOf(t)'
    BY <1>0, <1>5 DEF Notify, Notifies
  <1>6. CASE UNCHANGED vars
    BY <1>0, <1>6 DEF vars
  <1> QED
    BY <1>1, <1>2, <1>3, <1>4, <1>5, <1>6 DEF Next

-----------------------------------------------------------------------------
DataOf(t) == PacketInv(t) /\ StreamInv(t)

\* A step of one thread leaves the packet and the stream of the others alone.
LEMMA DataUntouched ==
    ASSUME NEW t \in Threads, DataOf(t),
           pc'[t] = pc[t], op'[t] = op[t], result'[t] = result[t], outcome'[t] = outcome[t],
           packet'[t] = packet[t], taken'[t] = taken[t], buf'[t] = buf[t], fragment'[t] = fragment[t]
    PROVE  DataOf(t)'
  BY DEF DataOf, PacketInv, StreamInv, InHand

\* What a step of thread s says of the others.
Local(s) ==
    \A t \in Threads \ {s} :
        /\ pc'[t] = pc[t] /\ op'[t] = op[t] /\ result'[t] = result[t] /\ outcome'[t] = outcome[t]
        /\ packet'[t] = packet[t] /\ taken'[t] = taken[t]
        /\ buf'[t] = buf[t] /\ fragment'[t] = fragment[t]

\* Every step of every thread keeps the data part of the invariant.
LEMMA DataStep == DataInv /\ SigInv' /\ [Next]_vars => DataInv'
  <1> SUFFICES ASSUME DataInv, SigInv', [Next]_vars PROVE \A t \in Threads : DataOf(t)'
    BY DEF DataInv, DataOf
  <1>0. TypeOK /\ TypeOK' /\ (\A t \in Threads : DataOf(t) /\ FiredInv(t))
    BY DEF DataInv, DataOf, SigInv
  <1>9. ASSUME NEW s \in Threads, Local(s), DataOf(s)' PROVE \A t \in Threads : DataOf(t)'
    BY <1>0, <1>9, DataUntouched DEF Local
  <1>8. ASSUME NEW s \in Threads PROVE Len(buf[s]) \in Nat /\ Len(buf'[s]) \in Nat
    BY <1>0 DEF TypeOK
  <1> USE SizeAssumption DEF TypeOK, signals, data, Set, Goto, Steps, Ops, Results, Outcomes,
          DataOf, PacketInv, StreamInv, InHand, FiredInv, InCall, Undecided
  <1>1. ASSUME NEW s \in Threads, App(s) PROVE \A t \in Threads : DataOf(t)'
    <2>1. CASE AppMask(s)
      <3>1. Local(s)
        BY <1>0, <2>1 DEF AppMask, Local
      <3>2. DataOf(s)'
        BY <1>0, <1>8, <2>1 DEF AppMask
      <3> QED
        BY <1>9, <3>1, <3>2
    <2>2. ASSUME NEW o \in Makes[s], NEW bounded \in BOOLEAN, Call(s, o, bounded)
          PROVE \A t \in Threads : DataOf(t)'
      <3>0. o \in Ops
        BY ThreadsAssumption
      <3>1. Local(s)
        BY <1>0, <2>2 DEF Call, Local
      <3>2. buf'[s] = <<>> /\ buf'[s] = Prefix(0) /\ Len(buf'[s]) = 0 /\ taken'[s] = 0
        BY <1>0, <2>2 DEF Call, Prefix
      <3>3. DataOf(s)'
        BY <1>0, <2>2, <3>0, <3>2 DEF Call
      <3> QED
        BY <1>9, <3>1, <3>3
    <2> QED
      BY <1>1, <2>1, <2>2 DEF App
  <1>2. ASSUME NEW s \in Threads, Program(s) PROVE \A t \in Threads : DataOf(t)'
    <2>1. CASE ExactLoop(s)
      <3>1. Local(s)
        BY <1>0, <2>1 DEF ExactLoop, Local, Complete
      <3>2. DataOf(s)'
        <4>1. pc[s] = "loop" /\ op[s] = "exact" /\ buf'[s] = buf[s] /\ taken'[s] = taken[s]
              /\ op'[s] = op[s] /\ pc'[s] \in {"idle", "mask"}
          BY <1>0, <2>1 DEF ExactLoop
        <4>2. outcome'[s] \in {"ok", "timeout", "none"} /\ (outcome'[s] = "ok" => Complete(s))
          BY <1>0, <2>1 DEF ExactLoop
        <4>3. Complete(s) => Len(buf[s]) = Size
          BY <1>0, <1>8 DEF Complete
        <4> QED
          BY <1>0, <1>8, <4>1, <4>2, <4>3
      <3> QED
        BY <1>9, <3>1, <3>2
    <2>2. CASE Leave(s)
      <3>1. Local(s)
        BY <1>0, <2>2 DEF Leave, Local
      <3>2. DataOf(s)'
        BY <1>0, <1>8, <2>2 DEF Leave
      <3> QED
        BY <1>9, <3>1, <3>2
    <2>3. CASE Mask(s)
      <3>1. Local(s)
        BY <1>0, <2>3 DEF Mask, Local, Guarded
      <3>2. DataOf(s)'
        BY <1>0, <1>8, <2>3 DEF Mask, Guarded
      <3> QED
        BY <1>9, <3>1, <3>2
    <2>4. CASE Drain(s)
      <3>1. Local(s)
        BY <1>0, <2>4 DEF Drain, Local
      <3>2. DataOf(s)'
        BY <1>0, <1>8, <2>4 DEF Drain
      <3> QED
        BY <1>9, <3>1, <3>2
    <2>5. CASE Install(s)
      <3>1. Local(s)
        BY <1>0, <2>5 DEF Install, Local
      <3>2. DataOf(s)'
        BY <1>0, <1>8, <2>5 DEF Install
      <3> QED
        BY <1>9, <3>1, <3>2
    <2>6. CASE Arm(s)
      <3>1. Local(s)
        BY <1>0, <2>6 DEF Arm, Local
      <3>2. DataOf(s)'
        <4>1. pc[s] = "arm" /\ pc'[s] \in {"unmask", "undo"}
          BY <1>0, <2>6 DEF Arm
        <4> QED
          BY <1>0, <1>8, <2>6, <4>1, Zenon DEF Arm
      <3> QED
        BY <1>9, <3>1, <3>2
    <2>7. CASE Unmask(s)
      <3>1. Local(s)
        BY <1>0, <2>7 DEF Unmask, Local, Restore
      <3>2. DataOf(s)'
        BY <1>0, <1>8, <2>7 DEF Unmask, Restore
      <3> QED
        BY <1>9, <3>1, <3>2
    <2>8. CASE Undo(s)
      <3>1. Local(s)
        BY <1>0, <2>8 DEF Undo, Local
      <3>2. DataOf(s)'
        BY <1>0, <1>8, <2>8 DEF Undo
      <3> QED
        BY <1>9, <3>1, <3>2
    <2>9. CASE Block(s)
      <3>1. Local(s)
        BY <1>0, <2>9 DEF Block, Local
      <3>2. DataOf(s)'
        BY <1>0, <1>8, <2>9 DEF Block
      <3> QED
        BY <1>9, <3>1, <3>2
    <2>10. CASE Disarm(s)
      <3>1. Local(s)
        BY <1>0, <2>10 DEF Disarm, Local
      <3>2. DataOf(s)'
        BY <1>0, <1>8, <2>10 DEF Disarm
      <3> QED
        BY <1>9, <3>1, <3>2
    <2>11. CASE Clear(s)
      <3>1. Local(s)
        BY <1>0, <2>11 DEF Clear, Local
      <3>2. DataOf(s)'
        BY <1>0, <1>8, <2>11 DEF Clear
      <3> QED
        BY <1>9, <3>1, <3>2
    <2>12. CASE Check(s)
      <3>1. Local(s)
        BY <1>0, <2>12 DEF Check, Local, Finish
      <3>2. DataOf(s)'
        BY <1>0, <1>8, <2>12 DEF Check, Finish
      <3> QED
        BY <1>9, <3>1, <3>2
    <2>13. CASE AfterWrite(s)
      <3>1. Local(s)
        BY <1>0, <2>13 DEF AfterWrite, Local, WriteOutcome, Finish
      <3>2. DataOf(s)'
        BY <1>0, <1>8, <2>13 DEF AfterWrite, WriteOutcome, Finish
      <3> QED
        BY <1>9, <3>1, <3>2
    <2>14. CASE AfterRead(s)
      <3>1. Local(s)
        BY <1>0, <2>14 DEF AfterRead, Local, Finish
      <3>2. DataOf(s)'
        <4>1. /\ pc[s] = "sysdone" /\ op[s] # "write" /\ outcome[s] = "none"
              /\ op'[s] = op[s] /\ taken'[s] = taken[s]
              /\ pc'[s] \in {"poll", "leave", "block"}
          BY <1>0, <2>14 DEF AfterRead, Finish
        <4>2. outcome'[s] # "unsubmitted"
              /\ (InHand(s) /\ outcome'[s] \in {"none", "ok", "zero"} => ~fired[s])
          BY <1>0, <2>14 DEF AfterRead, Finish
        <4>3. CASE InHand(s) /\ ~fired[s]
          <5> DEFINE f == fragment[s]
                     l == Len(buf[s])
          <5>1. f \in Nat /\ l \in Nat /\ f \in 1 .. Size - l /\ taken[s] - f = l
            BY <1>0, <1>8, <4>1, <4>3
          <5>2. buf'[s] = buf[s] \o [i \in 1 .. f |-> l + i]
            <6> DEFINE w == [i \in 1 .. f |-> taken[s] - f + i]
            <6>0. buf' = [buf EXCEPT ![s] = buf[s] \o w]
              BY <2>14, <4>3 DEF AfterRead
            <6>1. buf'[s] = buf[s] \o w
              <7> HIDE DEF w
              <7> QED
                BY <1>0, <6>0
            <6> QED
              BY <5>1, <6>1
          <5>3. buf[s] \in Seq(Int) /\ buf[s] = Prefix(Len(buf[s]))
            BY <1>0
          <5>4. buf'[s] = Prefix(l + f) /\ Len(buf'[s]) = l + f
            BY <5>1, <5>2, <5>3, FragmentContinues
          <5> QED
            BY <1>0, <4>1, <4>2, <5>1, <5>4
        <4>4. CASE ~(InHand(s) /\ ~fired[s])
          <5>1. buf'[s] = buf[s]
            BY <1>0, <2>14, <4>1, <4>4 DEF AfterRead
          <5> QED
            BY <1>0, <1>8, <4>1, <4>2, <4>4, <5>1
        <4> QED
          BY <4>3, <4>4
      <3> QED
        BY <1>9, <3>1, <3>2
    <2>15. CASE AfterPoll(s)
      <3>1. Local(s)
        BY <1>0, <2>15 DEF AfterPoll, Local, Finish
      <3>2. DataOf(s)'
        BY <1>0, <1>8, <2>15 DEF AfterPoll, Finish
      <3> QED
        BY <1>9, <3>1, <3>2
    <2>16. CASE Enter(s)
      <3>1. Local(s)
        BY <1>0, <2>16 DEF Enter, Local
      <3>2. DataOf(s)'
        BY <1>0, <1>8, <2>16 DEF Enter
      <3> QED
        BY <1>9, <3>1, <3>2
    <2> QED
      BY <1>2, <2>1, <2>2, <2>3, <2>4, <2>5, <2>6, <2>7, <2>8, <2>9, <2>10, <2>11, <2>12, <2>13, <2>14, <2>15, <2>16 DEF Program
  <1>3. ASSUME NEW s \in Threads, Device(s) PROVE \A t \in Threads : DataOf(t)'
    <2>1. CASE DeviceTakes(s)
      <3>1. Local(s)
        BY <1>0, <2>1 DEF DeviceTakes, Local, Return
      <3>2. DataOf(s)'
        BY <1>0, <1>8, <2>1 DEF DeviceTakes, Return
      <3> QED
        BY <1>9, <3>1, <3>2
    <2>2. CASE WriteReturns(s)
      <3>1. Local(s)
        BY <1>0, <2>2 DEF WriteReturns, Local, Return
      <3>2. DataOf(s)'
        BY <1>0, <1>8, <2>2 DEF WriteReturns, Return
      <3> QED
        BY <1>9, <3>1, <3>2
    <2>3. CASE ReadReturns(s)
      <3>1. Local(s)
        BY <1>0, <2>3 DEF ReadReturns, Local, Return
      <3>2. DataOf(s)'
        BY <1>0, <1>8, <2>3 DEF ReadReturns, Return
      <3> QED
        BY <1>9, <3>1, <3>2
    <2>4. CASE SysFails(s)
      <3>1. Local(s)
        BY <1>0, <2>4 DEF SysFails, Local, Return
      <3>2. DataOf(s)'
        BY <1>0, <1>8, <2>4 DEF SysFails, Return
      <3> QED
        BY <1>9, <3>1, <3>2
    <2>5. CASE PollReturns(s)
      <3>1. Local(s)
        BY <1>0, <2>5 DEF PollReturns, Local, Return
      <3>2. DataOf(s)'
        BY <1>0, <1>8, <2>5 DEF PollReturns, Return
      <3> QED
        BY <1>9, <3>1, <3>2
    <2> QED
      BY <1>3, <2>1, <2>2, <2>3, <2>4, <2>5 DEF Device
  <1>4. ASSUME NEW s \in Threads, Tick(s) \/ Notify(s) PROVE \A t \in Threads : DataOf(t)'
    <2>1. Local(s)
      <3>1. CASE Tick(s)
        BY <1>0, <3>1 DEF Tick, Local
      <3>2. CASE Notify(s)
        <4>1. CASE masked[s]
          BY <1>0, <3>2, <4>1 DEF Notify, Local
        <4>2. CASE ~masked[s] /\ pc[s] \in {"sys", "poll"}
          BY <1>0, <3>2, <4>2 DEF Notify, Local
        <4>3. CASE ~masked[s] /\ pc[s] \notin {"sys", "poll"}
          BY <1>0, <3>2, <4>3 DEF Notify, Local
        <4> QED
          BY <4>1, <4>2, <4>3
      <3> QED
        BY <1>4, <3>1, <3>2
    <2>2. DataOf(s)'
      BY <1>0, <1>8, <1>4 DEF Tick, Notify
    <2> QED
      BY <1>9, <2>1, <2>2
  <1>5. CASE UNCHANGED vars
    BY <1>0, <1>5, DataUntouched DEF vars
  <1> QED
    BY <1>1, <1>2, <1>3, <1>4, <1>5 DEF Next

-----------------------------------------------------------------------------
\* Before the first call nothing is armed, blocked, pending or delivered.
LEMMA InitInv == Init => DataInv
  <1> SUFFICES ASSUME Init PROVE DataInv
    OBVIOUS
  <1>0. TypeOK
    <2>1. <<>> \in Seq(Int)
      OBVIOUS
    <2> QED
      BY <2>1 DEF Init, TypeOK, Ops, Steps, Results, Outcomes
  <1>1. SigInv
    BY <1>0 DEF Init, SigInv, TimerInv, MaskInv, FiredInv,
           Armed, InCall, Guarding, Waiting, Admitted, Undecided
  <1>2. <<>> = Prefix(0) /\ Len(<<>>) = 0
    BY DEF Prefix
  <1>3. ASSUME NEW t \in Threads PROVE PacketInv(t) /\ StreamInv(t)
    BY <1>2, SizeAssumption DEF Init, PacketInv, StreamInv, InHand, Undecided, InCall
  <1> QED
    BY <1>1, <1>3 DEF DataInv

\* The inductive invariant: it ties where a thread is to its timer, its mask,
\* what may be pending, and what the device and the caller have of the data.
THEOREM CallInvariant == Spec => []DataInv
  <1>1. DataInv /\ [Next]_vars => DataInv'
    BY SigStep, DataStep DEF DataInv
  <1> QED
    BY InitInv, <1>1, PTL DEF Spec

\* No notification reaches a process whose handler is not in place.
THEOREM NotificationsAreHandled == Spec => []NeverKilled
  <1>1. DataInv => NeverKilled
    BY DEF DataInv, SigInv, NeverKilled
  <1> QED
    BY CallInvariant, <1>1, PTL

\* A call leaves no trace in its thread: mask, timer, signal or flag.
THEOREM CallsLeaveNoTrace == Spec => []CleanBetweenCalls
  <1>1. DataInv => CleanBetweenCalls
    BY DEF DataInv, SigInv, TimerInv, MaskInv, FiredInv, CleanBetweenCalls,
           Armed, InCall, Guarding, Waiting
  <1> QED
    BY CallInvariant, <1>1, PTL

\* No call times out on another's notification.
THEOREM TimeoutsAreEarned == Spec => []TimeoutIsOwnDeadline
  <1>1. DataInv => TimeoutIsOwnDeadline
    BY DEF DataInv, SigInv, FiredInv, TimeoutIsOwnDeadline
  <1> QED
    BY CallInvariant, <1>1, PTL

\* What a write's result says of the packet is true of the device.
THEOREM WritesAreJudged == Spec => []WriteVerdict
  <1>1. DataInv => WriteVerdict
    BY DEF DataInv, PacketInv, WriteVerdict
  <1> QED
    BY CallInvariant, <1>1, PTL

\* No byte of the stream is missing inside what a caller was given.
THEOREM ReadsAreGapless == Spec => []ReadIsGapless
  <1>1. DataInv => ReadIsGapless
    <2> SUFFICES ASSUME DataInv, NEW t \in Threads
                 PROVE  /\ buf[t] = Prefix(Len(buf[t]))
                        /\ pc[t] = "idle" /\ outcome[t] = "ok" /\ op[t] = "exact" =>
                               Len(buf[t]) = Size /\ taken[t] = Size
      BY DEF ReadIsGapless, Prefix
    <2>1. buf[t] \in Seq(Int)
      BY DEF DataInv, SigInv, TypeOK
    <2> QED
      BY <2>1, SizeAssumption DEF DataInv, StreamInv, InHand
  <1> QED
    BY CallInvariant, <1>1, PTL

-----------------------------------------------------------------------------
(* ----------------------------- DeviceFiles ----------------------------- *)

Values == Fds \cup {Closed}
IsOpen(o, c) == fd[o][c] # Closed
AllShut(o) == \A c \in Parts(o) : fd[o][c] = Closed

Typing ==
    /\ FilesTypeOK
    /\ fd \in [Objects -> [{"h2c", "c2h"} -> Values] \cup [{"user"} -> Values]]

\* An open member is a file of ours, and no two members are the same file.
OwnsInv ==
    \A o \in Objects : \A c \in Parts(o) : IsOpen(o, c) =>
        /\ table[fd[o][c]] = "ours"
        /\ \A p \in Objects : \A d \in Parts(p) : fd[p][d] = fd[o][c] => p = o /\ d = c
\* Every file of ours is a member of some object.
HeldInv ==
    \A f \in Fds : table[f] = "ours" => \E o \in Objects : \E c \in Parts(o) : fd[o][c] = f
\* What does not live holds nothing, but the object under construction.
Building(o) == o = self /\ (stage \in {"open", "made"} \/ (stage = "close" /\ after = "throw"))
LiveInv == \A o \in Objects \ live : Building(o) \/ AllShut(o)
\* Where a call is, and what it still holds there.
CallInv ==
    /\ stage = "open" => /\ wanted # {} /\ self \notin live
                      /\ \A c \in Parts(self) :
                             IsOpen(self, c) => c = "h2c" /\ wanted = {"c2h"}
    /\ stage \in {"open", "made"} => after = "throw" /\ self \notin live
    /\ stage = "close" => (self \in live <=> after # "throw")
    /\ stage \in {"closed", "exchange"} => AllShut(self)
    /\ stage = "exchange" => after = "move"
    /\ after = "move" /\ stage # "idle" =>
           source \in live /\ source # self /\ AreAlike(self, source)

FilesInv == Typing /\ OwnsInv /\ HeldInv /\ LiveInv /\ CallInv

-----------------------------------------------------------------------------
\* What the types say of one member.
LEMMA Member ==
    ASSUME Typing, NEW o \in Objects, NEW c \in Parts(o)
    PROVE  fd[o][c] \in Values /\ (IsOpen(o, c) => fd[o][c] \in Fds)
  BY DEF Typing, FilesTypeOK, Values, IsOpen

\* What the types say of the members of an object.
LEMMA Shapes ==
    ASSUME NEW o \in Objects
    PROVE  Parts(o) \in {{"h2c", "c2h"}, {"user"}} /\ None(o) \in [Parts(o) -> Values]
           /\ \A c \in Parts(o) : None(o)[c] = Closed
  BY DEF Parts, None, Values, Objects

\* A constructor, or what a constructor starts from, is a step that changes no
\* member: the object that does not live yet holds nothing.
SameMembers == \A o \in Objects : \A c \in Parts(o) : fd'[o][c] = fd[o][c]
SameOurs == \A f \in Fds : table'[f] = "ours" <=> table[f] = "ours"

\* Ownership depends on the members and on which files are ours.
LEMMA OwnershipKept ==
    ASSUME Typing, OwnsInv, HeldInv, SameMembers, SameOurs
    PROVE  OwnsInv' /\ HeldInv'
  <1>1. ASSUME NEW o \in Objects, NEW c \in Parts(o), fd'[o][c] # Closed
        PROVE  table'[fd'[o][c]] = "ours"
    <2>1. IsOpen(o, c) /\ fd[o][c] \in Fds /\ fd'[o][c] = fd[o][c]
      BY <1>1, Member DEF SameMembers, IsOpen
    <2> QED
      BY <2>1 DEF OwnsInv, SameOurs
  <1>2. ASSUME NEW o \in Objects, NEW c \in Parts(o), fd'[o][c] # Closed,
               NEW p \in Objects, NEW d \in Parts(p), fd'[p][d] = fd'[o][c]
        PROVE  p = o /\ d = c
    <2>1. IsOpen(o, c) /\ fd[p][d] = fd[o][c]
      BY <1>2 DEF SameMembers, IsOpen
    <2> QED
      BY <2>1 DEF OwnsInv
  <1>3. OwnsInv'
    BY <1>1, <1>2 DEF OwnsInv, IsOpen
  <1>4. HeldInv'
    BY DEF HeldInv, SameMembers, SameOurs
  <1> QED
    BY <1>3, <1>4

\* A member function for each object.
Typed(g) ==
    /\ g \in [Objects -> [{"h2c", "c2h"} -> Values] \cup [{"user"} -> Values]]
    /\ \A o \in Objects : g[o] \in [Parts(o) -> Values]

\* Replacing one object's members keeps the others.
LEMMA Replace ==
    ASSUME NEW g, Typed(g), NEW o \in Objects, NEW v \in [Parts(o) -> Values]
    PROVE  /\ Typed([g EXCEPT ![o] = v])
           /\ [g EXCEPT ![o] = v][o] = v
           /\ \A p \in Objects \ {o} : [g EXCEPT ![o] = v][p] = g[p]
  BY Shapes DEF Typed

\* Every step of every call keeps the types.
LEMMA TypingStep == FilesInv /\ [FilesNext]_fvars => Typing'
  <1> SUFFICES ASSUME FilesInv, [FilesNext]_fvars PROVE Typing'
    OBVIOUS
  <1>1. Typed(fd) /\ FilesTypeOK /\ Closed \in Values
    BY DEF FilesInv, Typing, FilesTypeOK, Typed, Values
  <1>2. ASSUME Typed(fd'),
               table' \in [Fds -> {"free", "ours", "other"}],
               live' \subseteq Objects, self' \in Objects, source' \in Objects,
               stage' \in {"idle", "open", "made", "close", "closed", "exchange"},
               wanted' \subseteq Parts(self'), after' \in {"keep", "throw", "destroy", "move"}
        PROVE  Typing'
    BY <1>2 DEF Typing, Typed, FilesTypeOK, Values
  <1>3. ASSUME NEW o \in Objects, NEW from \in Objects, NEW todo, NEW then, NEW files,
               Begin(o, from, todo, then, files), Typed(fd'), files \subseteq Parts(o),
               todo \in {"open", "made", "close", "exchange"},
               then \in {"keep", "throw", "destroy", "move"}
        PROVE  Typing'
    BY <1>1, <1>2, <1>3 DEF Begin, FilesTypeOK
  <1>4. ASSUME NEW o \in Objects, fd' = [fd EXCEPT ![o] = None(o)] PROVE Typed(fd')
    BY <1>1, <1>4, Shapes, Replace
  <1>5. ASSUME NEW o \in Objects, NEW c \in Parts(o), NEW v \in Values,
               fd' = [fd EXCEPT ![o][c] = v] PROVE Typed(fd')
    <2>1. [fd[o] EXCEPT ![c] = v] \in [Parts(o) -> Values]
      BY <1>1 DEF Typed
    <2>2. fd' = [fd EXCEPT ![o] = [fd[o] EXCEPT ![c] = v]]
      BY <1>5
    <2> QED
      BY <1>1, <2>1, <2>2, Replace
  <1>6. CASE Calls
    <2>1. ASSUME NEW o \in Objects, NEW files \in SUBSET Parts(o), Construct(o, files)
          PROVE Typing'
      BY <1>3, <1>4, <2>1 DEF Construct
    <2>2. ASSUME NEW o \in Objects, CloseStreams(o) \/ Destroy(o) PROVE Typing'
      BY <1>1, <1>3, <2>2 DEF CloseStreams, Destroy
    <2>3. ASSUME NEW o \in Objects, NEW from \in Objects, MoveConstruct(o, from) PROVE Typing'
      <3>1. Typed(fd')
        BY <1>4, <2>3 DEF MoveConstruct
      <3>2. Begin(o, from, "exchange", "move", {})
        BY <2>3 DEF MoveConstruct
      <3> QED
        BY <1>3, <3>1, <3>2
    <2>4. ASSUME NEW o \in Objects, NEW from \in Objects, MoveAssign(o, from) PROVE Typing'
      BY <1>1, <1>3, <2>4 DEF MoveAssign
    <2> QED
      BY <1>6, <2>1, <2>2, <2>3, <2>4 DEF Calls
  <1>7. CASE Open
    <2>1. PICK f \in Fds : /\ table' = [table EXCEPT ![f] = "ours"]
                           /\ fd' = [fd EXCEPT ![self][NextFile] = f]
      BY <1>7 DEF Open
    <2>2. NextFile \in wanted /\ NextFile \in Parts(self)
      BY <1>1, <1>7 DEF FilesInv, CallInv, Open, NextFile, FilesTypeOK
    <2>3. Typed(fd')
      BY <1>1, <1>5, <2>1, <2>2 DEF FilesTypeOK, Values
    <2> QED
      BY <1>1, <1>2, <1>7, <2>1, <2>3 DEF Open, FilesTypeOK
  <1>8. CASE Close
    <2>1. PICK c \in ToClose : /\ table' = [table EXCEPT ![fd[self][c]] = "free"]
                               /\ fd' = [fd EXCEPT ![self][c] = Closed]
      BY <1>8 DEF Close
    <2>2. Typed(fd')
      BY <1>1, <1>5, <2>1 DEF FilesTypeOK, ToClose
    <2> QED
      BY <1>1, <1>2, <1>8, <2>1, <2>2 DEF Close, FilesTypeOK, call
  <1>9. CASE Exchange
    <2>1. source \in Objects /\ self \in Objects /\ source # self /\ Parts(self) = Parts(source)
      BY <1>1, <1>9 DEF FilesInv, CallInv, Exchange, AreAlike, FilesTypeOK
    <2> DEFINE g == [fd EXCEPT ![self] = fd[source]]
    <2>2. Typed(g)
      BY <1>1, <2>1, Replace DEF Typed
    <2>3. fd' = [g EXCEPT ![source] = None(source)]
      BY <1>1, <1>9, <2>1 DEF Exchange, Typed
    <2> HIDE DEF g
    <2>4. Typed(fd')
      BY <2>1, <2>2, <2>3, Shapes, Replace
    <2> QED
      BY <1>1, <1>2, <1>9, <2>4 DEF Exchange, FilesTypeOK, EndCall
  <1>10. CASE Made \/ OpenFails \/ AllClosed \/ Closing
    BY <1>1, <1>2, <1>10 DEF Made, OpenFails, AllClosed, Closing, EndCall, FilesTypeOK
  <1>11. CASE Others
    BY <1>1, <1>2, <1>11 DEF Others, OtherOpens, OtherCloses, call, FilesTypeOK
  <1>12. CASE UNCHANGED fvars
    BY <1>1, <1>2, <1>12 DEF fvars, call, FilesTypeOK
  <1> QED
    BY <1>6, <1>7, <1>8, <1>9, <1>10, <1>11, <1>12 DEF FilesNext, Step

-----------------------------------------------------------------------------
\* Every step keeps each file of ours with one owner.
LEMMA OwnershipStep == FilesInv /\ Typing' /\ [FilesNext]_fvars => OwnsInv' /\ HeldInv'
  <1> SUFFICES ASSUME FilesInv, Typing', [FilesNext]_fvars PROVE OwnsInv' /\ HeldInv'
    OBVIOUS
  <1>0. Typing /\ OwnsInv /\ HeldInv /\ LiveInv /\ CallInv /\ FilesTypeOK
    BY DEF FilesInv, Typing
  <1>1. ASSUME NEW o \in Objects, fd' = [fd EXCEPT ![o] = None(o)], AllShut(o)
        PROVE  SameMembers
    BY <1>0, <1>1, Shapes DEF SameMembers, AllShut, FilesTypeOK
  <1>2. ASSUME fd' = fd PROVE SameMembers
    BY <1>2 DEF SameMembers
  <1>3. ASSUME table' = table PROVE SameOurs
    BY <1>3 DEF SameOurs
  <1>4. ASSUME NEW o \in Objects \ live, stage = "idle" PROVE AllShut(o)
    BY <1>0, <1>4 DEF LiveInv, Building
  <1>5. CASE Calls
    <2>1. SameMembers
      BY <1>1, <1>2, <1>4, <1>5 DEF Calls, Construct, CloseStreams, Destroy, MoveConstruct,
                                    MoveAssign, Begin
    <2>2. SameOurs
      BY <1>3, <1>5 DEF Calls, Construct, CloseStreams, Destroy, MoveConstruct, MoveAssign, Begin
    <2> QED
      BY <1>0, <2>1, <2>2, OwnershipKept
  <1>6. CASE Made \/ OpenFails \/ AllClosed \/ Closing \/ UNCHANGED fvars
    <2>1. fd' = fd /\ table' = table
      BY <1>6 DEF Made, OpenFails, AllClosed, Closing, fvars
    <2> QED
      BY <1>0, <1>2, <1>3, <2>1, OwnershipKept
  <1>7. CASE Others
    <2>1. fd' = fd
      BY <1>7 DEF Others, OtherOpens, OtherCloses
    <2>2. SameOurs
      BY <1>0, <1>7 DEF Others, OtherOpens, OtherCloses, Lowest, SameOurs, FilesTypeOK
    <2> QED
      BY <1>0, <1>2, <2>1, <2>2, OwnershipKept
  <1>8. CASE Open
    <2>1. PICK f \in Fds : /\ table[f] = "free"
                           /\ table' = [table EXCEPT ![f] = "ours"]
                           /\ fd' = [fd EXCEPT ![self][NextFile] = f]
      BY <1>8 DEF Open, Lowest
    <2> DEFINE n == NextFile
    <2>2. n \in Parts(self) /\ self \in Objects /\ f # Closed
      BY <1>0, <1>8, FdsAssumption DEF CallInv, Open, NextFile, FilesTypeOK, Closed
    <2> HIDE DEF n
    <2>3. fd'[self][n] = f
          /\ \A o \in Objects : \A c \in Parts(o) : <<o, c>> # <<self, n>> => fd'[o][c] = fd[o][c]
      BY <1>0, <2>1, <2>2 DEF FilesTypeOK, n
    <2>4. \A o \in Objects : \A c \in Parts(o) : IsOpen(o, c) => fd[o][c] \in Fds /\ fd[o][c] # f
      BY <1>0, <2>1, Member DEF OwnsInv
    <2>5. fd[self][n] = Closed
      BY <1>0, <1>8, <2>2 DEF CallInv, Open, NextFile, IsOpen, n
    <2>6. table'[f] = "ours" /\ \A g \in Fds \ {f} : table'[g] = table[g]
      BY <1>0, <2>1 DEF FilesTypeOK
    <2>7. OwnsInv'
      <3>1. ASSUME NEW o \in Objects, NEW c \in Parts(o), fd'[o][c] # Closed
            PROVE  /\ table'[fd'[o][c]] = "ours"
                   /\ \A p \in Objects : \A d \in Parts(p) : fd'[p][d] = fd'[o][c] => p = o /\ d = c
        <4>1. CASE <<o, c>> = <<self, n>>
          BY <2>2, <2>3, <2>4, <2>6, <4>1 DEF IsOpen
        <4>2. CASE <<o, c>> # <<self, n>>
          <5>1. fd'[o][c] = fd[o][c] /\ IsOpen(o, c) /\ fd[o][c] \in Fds /\ fd[o][c] # f
            BY <2>3, <2>4, <3>1, <4>2 DEF IsOpen
          <5> QED
            BY <1>0, <2>3, <2>6, <5>1 DEF OwnsInv
        <4> QED
          BY <4>1, <4>2
      <3> QED
        BY <3>1 DEF OwnsInv, IsOpen
    <2>8. HeldInv'
      <3>1. ASSUME NEW g \in Fds, table'[g] = "ours"
            PROVE  \E o \in Objects : \E c \in Parts(o) : fd'[o][c] = g
        <4>1. CASE g = f
          BY <2>2, <2>3, <4>1
        <4>2. CASE g # f
          <5>1. PICK o \in Objects : \E c \in Parts(o) : fd[o][c] = g
            BY <1>0, <2>6, <3>1, <4>2 DEF HeldInv
          <5>2. PICK c \in Parts(o) : fd[o][c] = g
            BY <5>1
          <5>3. g # Closed
            BY FdsAssumption DEF Closed
          <5> QED
            BY <2>3, <2>5, <5>2, <5>3
        <4> QED
          BY <4>1, <4>2
      <3> QED
        BY <3>1 DEF HeldInv
    <2> QED
      BY <2>7, <2>8
  <1>9. CASE Close
    <2>1. PICK n \in ToClose : /\ table' = [table EXCEPT ![fd[self][n]] = "free"]
                               /\ fd' = [fd EXCEPT ![self][n] = Closed]
      BY <1>9 DEF Close
    <2>2. n \in Parts(self) /\ self \in Objects /\ IsOpen(self, n) /\ fd[self][n] \in Fds
      BY <1>0, <2>1, Member DEF ToClose, IsOpen, FilesTypeOK
    <2>3. fd'[self][n] = Closed
          /\ \A o \in Objects : \A c \in Parts(o) : <<o, c>> # <<self, n>> => fd'[o][c] = fd[o][c]
      BY <1>0, <2>1, <2>2 DEF FilesTypeOK
    <2>4. table'[fd[self][n]] = "free" /\ \A g \in Fds \ {fd[self][n]} : table'[g] = table[g]
      BY <1>0, <2>1, <2>2 DEF FilesTypeOK
    <2>5. OwnsInv'
      <3>1. ASSUME NEW o \in Objects, NEW c \in Parts(o), fd'[o][c] # Closed
            PROVE  /\ table'[fd'[o][c]] = "ours"
                   /\ \A p \in Objects : \A d \in Parts(p) : fd'[p][d] = fd'[o][c] => p = o /\ d = c
        <4>1. <<o, c>> # <<self, n>> /\ fd'[o][c] = fd[o][c] /\ IsOpen(o, c)
          BY <2>3, <3>1 DEF IsOpen
        <4>2. fd[o][c] \in Fds /\ fd[o][c] # fd[self][n]
          BY <1>0, <2>2, <4>1, Member DEF OwnsInv
        <4> QED
          BY <1>0, <2>3, <2>4, <3>1, <4>1, <4>2 DEF OwnsInv
      <3> QED
        BY <3>1 DEF OwnsInv, IsOpen
    <2>6. HeldInv'
      <3>1. ASSUME NEW g \in Fds, table'[g] = "ours"
            PROVE  \E o \in Objects : \E c \in Parts(o) : fd'[o][c] = g
        <4>1. g # fd[self][n] /\ table[g] = "ours"
          BY <2>4, <3>1
        <4>2. PICK o \in Objects : \E c \in Parts(o) : fd[o][c] = g
          BY <1>0, <4>1 DEF HeldInv
        <4>3. PICK c \in Parts(o) : fd[o][c] = g
          BY <4>2
        <4> QED
          BY <2>3, <4>1, <4>3
      <3> QED
        BY <3>1 DEF HeldInv
    <2> QED
      BY <2>5, <2>6
  <1>10. CASE Exchange
    <2>1. source \in Objects /\ self \in Objects /\ source # self /\ Parts(self) = Parts(source)
          /\ AllShut(self)
      BY <1>0, <1>10 DEF CallInv, Exchange, AreAlike, FilesTypeOK
    <2>2. /\ \A c \in Parts(self) : fd'[self][c] = fd[source][c]
          /\ \A c \in Parts(source) : fd'[source][c] = Closed
          /\ \A o \in Objects \ {self, source} : fd'[o] = fd[o]
      BY <1>0, <1>10, <2>1, Shapes DEF Exchange, FilesTypeOK
    <2> DEFINE Was(o) == IF o = self THEN source ELSE o
    <2>3. ASSUME NEW o \in Objects, NEW c \in Parts(o), fd'[o][c] # Closed
          PROVE  Was(o) \in Objects /\ c \in Parts(Was(o)) /\ o # source
                 /\ fd'[o][c] = fd[Was(o)][c]
      BY <2>1, <2>2, <2>3
    <2>4. OwnsInv'
      <3>1. ASSUME NEW o \in Objects, NEW c \in Parts(o), fd'[o][c] # Closed
            PROVE  table'[fd'[o][c]] = "ours"
        <4>1. Was(o) \in Objects /\ c \in Parts(Was(o)) /\ fd'[o][c] = fd[Was(o)][c]
          BY <2>3, <3>1
        <4>2. table' = table
          BY <1>10 DEF Exchange
        <4> HIDE DEF Was
        <4> QED
          BY <1>0, <3>1, <4>1, <4>2 DEF OwnsInv, IsOpen
      <3>2. ASSUME NEW o \in Objects, NEW c \in Parts(o), fd'[o][c] # Closed,
                   NEW p \in Objects, NEW d \in Parts(p), fd'[p][d] = fd'[o][c]
            PROVE  p = o /\ d = c
        <4>1. Was(o) \in Objects /\ c \in Parts(Was(o)) /\ o # source /\ fd'[o][c] = fd[Was(o)][c]
          BY <2>3, <3>2
        <4>2. Was(p) \in Objects /\ d \in Parts(Was(p)) /\ p # source /\ fd'[p][d] = fd[Was(p)][d]
          BY <2>3, <3>2
        <4>3. Was(p) = Was(o) /\ d = c
          BY <1>0, <3>2, <4>1, <4>2 DEF OwnsInv, IsOpen
        <4> QED
          BY <4>1, <4>2, <4>3
      <3> QED
        BY <3>1, <3>2 DEF OwnsInv, IsOpen
    <2>5. HeldInv'
      <3>1. ASSUME NEW g \in Fds, table'[g] = "ours"
            PROVE  \E o \in Objects : \E c \in Parts(o) : fd'[o][c] = g
        <4>1. PICK o \in Objects : \E c \in Parts(o) : fd[o][c] = g
          BY <1>0, <1>10, <3>1 DEF HeldInv, Exchange
        <4>2. PICK c \in Parts(o) : fd[o][c] = g
          BY <4>1
        <4>3. g # Closed
          BY FdsAssumption DEF Closed
        <4>4. o # self
          BY <2>1, <4>2, <4>3 DEF AllShut
        <4> QED
          BY <2>1, <2>2, <4>2, <4>4
      <3> QED
        BY <3>1 DEF HeldInv
    <2> QED
      BY <2>4, <2>5
  <1> QED
    BY <1>5, <1>6, <1>7, <1>8, <1>9, <1>10 DEF FilesNext, Step

-----------------------------------------------------------------------------
\* Every step leaves the object it works on, and the dead ones, as it should.
LEMMA CallStep == FilesInv /\ Typing' /\ [FilesNext]_fvars => LiveInv' /\ CallInv'
  <1> SUFFICES ASSUME FilesInv, Typing', [FilesNext]_fvars PROVE LiveInv' /\ CallInv'
    OBVIOUS
  <1>0. Typing /\ LiveInv /\ CallInv /\ FilesTypeOK
    BY DEF FilesInv, Typing
  <1>4. ASSUME NEW o \in Objects \ live, stage = "idle" PROVE AllShut(o)
    BY <1>0, <1>4 DEF LiveInv, Building
  <1>1. ASSUME NEW o \in Objects \ live, stage = "idle", fd' = [fd EXCEPT ![o] = None(o)]
        PROVE  SameMembers /\ AllShut(o)'
    BY <1>0, <1>1, <1>4, Shapes DEF SameMembers, AllShut, FilesTypeOK
  <1>2. ASSUME fd' = fd PROVE SameMembers
    BY <1>2 DEF SameMembers
  <1>3. ASSUME stage = "idle", SameMembers, live' = live PROVE LiveInv'
    BY <1>3, <1>4 DEF LiveInv, SameMembers, AllShut
  <1>5. CASE Calls
    <2>1. ASSUME NEW o \in Objects, NEW files \in SUBSET Parts(o), Construct(o, files)
          PROVE LiveInv' /\ CallInv'
      <3>1. SameMembers /\ AllShut(o)' /\ stage = "idle" /\ live' = live /\ o \notin live
        BY <1>1, <2>1 DEF Construct, Begin
      <3> QED
        BY <1>3, <2>1, <3>1 DEF Construct, Begin, CallInv, AllShut, IsOpen
    <2>2. ASSUME NEW o \in Objects, CloseStreams(o) \/ Destroy(o) PROVE LiveInv' /\ CallInv'
      BY <1>2, <1>3, <2>2 DEF CloseStreams, Destroy, Begin, CallInv
    <2>3. ASSUME NEW o \in Objects, NEW from \in Objects, MoveConstruct(o, from)
          PROVE LiveInv' /\ CallInv'
      <3>1. SameMembers /\ AllShut(o)' /\ stage = "idle" /\ live' = live /\ o \notin live
        BY <1>1, <2>3 DEF MoveConstruct, Begin
      <3> QED
        BY <1>3, <2>3, <3>1 DEF MoveConstruct, Begin, CallInv, AllShut
    <2>4. ASSUME NEW o \in Objects, NEW from \in Objects, MoveAssign(o, from)
          PROVE LiveInv' /\ CallInv'
      BY <1>2, <1>3, <2>4 DEF MoveAssign, Begin, CallInv
    <2> QED
      BY <1>5, <2>1, <2>2, <2>3, <2>4 DEF Calls
  <1>6. CASE Made
    BY <1>0, <1>6 DEF Made, EndCall, LiveInv, CallInv, Building, AllShut
  <1>7. CASE OpenFails
    <2>1. CASE NextFile = "c2h"
      BY <1>0, <1>7, <2>1 DEF OpenFails, LiveInv, CallInv, Building, AllShut
    <2>2. CASE NextFile # "c2h"
      <3>1. AllShut(self)
        <4>1. wanted # {"c2h"}
          BY <2>2 DEF NextFile
        <4> QED
          BY <1>0, <1>7, <4>1 DEF OpenFails, CallInv, AllShut, IsOpen
      <3> QED
        BY <1>0, <1>7, <2>2, <3>1 DEF OpenFails, EndCall, LiveInv, CallInv, Building, AllShut
    <2> QED
      BY <2>1, <2>2
  <1>8. CASE AllClosed
    <2>1. AllShut(self)
      BY <1>8 DEF AllClosed, ToClose, AllShut
    <2> QED
      BY <1>0, <1>8, <2>1 DEF AllClosed, LiveInv, CallInv, Building, AllShut
  <1>9. CASE Closing
    <2>1. AllShut(self)
      BY <1>0, <1>9 DEF Closing, CallInv
    <2> QED
      BY <1>0, <1>9, <2>1 DEF Closing, EndCall, LiveInv, CallInv, Building, AllShut
  <1>10. CASE Open
    <2>1. PICK f \in Fds : fd' = [fd EXCEPT ![self][NextFile] = f]
      BY <1>10 DEF Open
    <2> DEFINE n == NextFile
    <2>2. n \in Parts(self) /\ self \in Objects /\ n \in wanted
          /\ (wanted \ {n} # {} => n = "h2c" /\ wanted \ {n} = {"c2h"})
      <3>1. wanted # {} /\ wanted \subseteq Parts(self) /\ self \in Objects
        BY <1>0, <1>10 DEF CallInv, Open, FilesTypeOK
      <3>2. CASE Parts(self) = {"user"}
        BY <3>1, <3>2 DEF NextFile
      <3>3. CASE Parts(self) = {"h2c", "c2h"}
        BY <3>1, <3>3 DEF NextFile
      <3> QED
        BY <3>1, <3>2, <3>3, Shapes
    <2>3. \A o \in Objects : \A c \in Parts(o) : <<o, c>> # <<self, n>> => fd'[o][c] = fd[o][c]
      BY <1>0, <2>1, <2>2 DEF FilesTypeOK
    <2>4. /\ wanted' = wanted \ {n} /\ stage' = (IF wanted' = {} THEN "made" ELSE "open")
          /\ self' = self /\ live' = live /\ after' = after /\ stage = "open"
      BY <1>10 DEF Open
    <2> HIDE DEF n
    <2>5. LiveInv'
      <3>1. Building(self)'
        BY <2>4 DEF Building
      <3>2. ASSUME NEW o \in Objects \ live, o # self PROVE AllShut(o)'
        BY <1>0, <2>3, <3>2 DEF LiveInv, Building, AllShut
      <3> QED
        BY <2>4, <3>1, <3>2 DEF LiveInv
    <2>6. CallInv'
      <3>1. after = "throw" /\ self \notin live
        BY <1>0, <2>4 DEF CallInv
      <3>2. ASSUME wanted' # {}, NEW c \in Parts(self), fd'[self][c] # Closed
            PROVE  c = "h2c" /\ wanted' = {"c2h"}
        <4>1. n = "h2c" /\ wanted' = {"c2h"} /\ wanted # {"c2h"}
          BY <2>2, <2>4, <3>2
        <4>2. CASE c # n
          BY <1>0, <2>2, <2>3, <2>4, <3>2, <4>1, <4>2 DEF CallInv, IsOpen
        <4> QED
          BY <4>1, <4>2
      <3> QED
        BY <2>4, <3>1, <3>2 DEF CallInv, IsOpen
    <2> QED
      BY <2>5, <2>6
  <1>11. CASE Close
    <2>1. PICK n \in ToClose : fd' = [fd EXCEPT ![self][n] = Closed]
      BY <1>11 DEF Close
    <2>2. n \in Parts(self) /\ self \in Objects
      BY <1>0, <2>1 DEF ToClose, FilesTypeOK
    <2>3. \A o \in Objects : \A c \in Parts(o) : fd'[o][c] \in {fd[o][c], Closed}
      BY <1>0, <2>1, <2>2 DEF FilesTypeOK
    <2>4. live' = live /\ stage' = stage /\ self' = self /\ wanted' = wanted /\ source' = source
          /\ after' = after /\ stage = "close"
      BY <1>11 DEF Close, call
    <2>5. LiveInv'
      BY <1>0, <2>3, <2>4 DEF LiveInv, Building, AllShut
    <2>6. CallInv'
      BY <1>0, <2>4 DEF CallInv
    <2> QED
      BY <2>5, <2>6
  <1>12. CASE Exchange
    <2>1. source \in Objects /\ self \in Objects /\ source # self
      BY <1>0, <1>12 DEF CallInv, Exchange, FilesTypeOK
    <2>2. \A o \in Objects \ {self, source} : fd'[o] = fd[o]
      BY <1>0, <1>12, <2>1 DEF Exchange, FilesTypeOK
    <2>3. source \in live /\ live' = live \cup {self} /\ stage' = "idle" /\ stage = "exchange"
      BY <1>0, <1>12 DEF CallInv, Exchange, EndCall
    <2>4. LiveInv'
      BY <1>0, <2>2, <2>3 DEF LiveInv, Building, AllShut
    <2>5. CallInv'
      BY <2>3 DEF CallInv
    <2> QED
      BY <2>4, <2>5
  <1>13. CASE Others \/ UNCHANGED fvars
    <2>1. fd' = fd /\ live' = live /\ call' = call
      BY <1>13 DEF Others, OtherOpens, OtherCloses, fvars, call
    <2> QED
      BY <1>0, <2>1 DEF call, LiveInv, CallInv, Building, AllShut, IsOpen
  <1> QED
    BY <1>5, <1>6, <1>7, <1>8, <1>9, <1>10, <1>11, <1>12, <1>13 DEF FilesNext, Step

-----------------------------------------------------------------------------
\* Before the first call nothing is open.
LEMMA InitFiles == FilesInit => FilesInv
  <1> SUFFICES ASSUME FilesInit PROVE FilesInv
    OBVIOUS
  <1>1. fd = [o \in Objects |-> None(o)] /\ \A o \in Objects : AllShut(o)
    BY Shapes DEF FilesInit, AllShut
  <1>2. Typing
    BY <1>1, Shapes DEF FilesInit, Typing, FilesTypeOK, Values
  <1>3. \A f \in Fds : table[f] # "ours"
    BY DEF FilesInit
  <1> QED
    BY <1>1, <1>2, <1>3 DEF FilesInit, FilesInv, OwnsInv, HeldInv, LiveInv, CallInv, AllShut, IsOpen

\* The inductive invariant of the objects and their calls.
THEOREM FilesInvariant == FilesSpec => []FilesInv
  <1>1. FilesInv /\ [FilesNext]_fvars => FilesInv'
    BY TypingStep, OwnershipStep, CallStep DEF FilesInv
  <1> QED
    BY InitFiles, <1>1, PTL DEF FilesSpec

\* Every file of ours has one owner that will close it.
THEOREM OwnershipIsUnique == FilesSpec => []OneOwner
  <1>1. FilesInv => OneOwner
    <2> SUFFICES ASSUME FilesInv PROVE OneOwner
      OBVIOUS
    <2>1. ASSUME NEW o \in Objects, NEW c \in Parts(o), fd[o][c] # Closed
          PROVE  /\ table[fd[o][c]] = "ours"
                 /\ \A p \in Objects : \A d \in Parts(p) :
                        fd[p][d] = fd[o][c] => <<p, d>> = <<o, c>>
      BY <2>1 DEF FilesInv, OwnsInv, IsOpen
    <2>2. ASSUME stage = "idle", NEW f \in Fds, table[f] = "ours"
          PROVE  \E o \in live : \E c \in Parts(o) : fd[o][c] = f
      <3>1. PICK o \in Objects : \E c \in Parts(o) : fd[o][c] = f
        BY <2>2 DEF FilesInv, HeldInv
      <3>2. f # Closed
        BY FdsAssumption DEF Closed
      <3>3. o \in live
        BY <2>2, <3>1, <3>2 DEF FilesInv, LiveInv, Building, AllShut
      <3> QED
        BY <3>1, <3>3
    <2> QED
      BY <2>1, <2>2 DEF OneOwner
  <1> QED
    BY FilesInvariant, <1>1, PTL

\* No call closes a file that is not ours.
THEOREM OthersAreSafe == FilesSpec => OthersKeepTheirs
  <1>1. FilesInv /\ [FilesNext]_fvars =>
          [\A f \in Fds : table[f] = "other" /\ table'[f] # "other" => OtherCloses(f)]_fvars
    <2> SUFFICES ASSUME FilesInv, FilesNext, NEW f \in Fds, table[f] = "other", table'[f] # "other"
                 PROVE  OtherCloses(f)
      OBVIOUS
    <2>0. table \in [Fds -> {"free", "ours", "other"}]
      BY DEF FilesInv, Typing, FilesTypeOK
    <2>1. table' # table
      OBVIOUS
    <2>2. CASE Open
      BY <2>0, <2>2 DEF Open, Lowest
    <2>3. CASE Close
      <3>1. PICK n \in ToClose : table' = [table EXCEPT ![fd[self][n]] = "free"]
        BY <2>3 DEF Close
      <3>2. self \in Objects /\ n \in Parts(self) /\ IsOpen(self, n)
        BY DEF FilesInv, Typing, FilesTypeOK, ToClose, IsOpen
      <3>3. table[fd[self][n]] = "ours"
        BY <3>2 DEF FilesInv, OwnsInv
      <3> QED
        BY <2>0, <3>1, <3>3
    <2>4. CASE Others
      BY <2>0, <2>4 DEF Others, OtherOpens, OtherCloses, Lowest
    <2> QED
      BY <2>1, <2>2, <2>3, <2>4
         DEF FilesNext, Step, Calls, Construct, CloseStreams, Destroy, MoveConstruct, MoveAssign, Begin,
             Made, OpenFails, AllClosed, Closing, Exchange
  <1> QED
    BY FilesInvariant, <1>1, PTL DEF FilesSpec, OthersKeepTheirs
=============================================================================
