----------------------------- MODULE XdmaStream -----------------------------
(***************************************************************************)
(* XDMAStream's deadline-bounded calls (dev/src/xdma.cpp) over the signal  *)
(* machinery of DriverDeadlineInterrupt.  A blocking driver call is bounded*)
(* by a POSIX timer that sends SIGUSR2 to the calling thread, first at the *)
(* deadline and then every millisecond until it is deleted; the handler    *)
(* sets the thread-local fired_ and interrupts the system call.            *)
(*                                                                         *)
(* One action per step of a thread between two points where a signal can   *)
(* land: signals, the clock, the device and the other threads interleave   *)
(* with all of them.  Each thread has a stream of its own; the handler and *)
(* the once_flag that installs it are the process's.                       *)
(***************************************************************************)
EXTENDS Integers, Sequences

CONSTANTS
    Threads,
    Makes,     \* [Threads -> SUBSET Ops] the calls a thread makes
    Size       \* bytes of a packet or of an exact read

Ops == {"write", "read", "exact"}

ASSUME ThreadsAssumption == Threads # {} /\ Makes \in [Threads -> SUBSET Ops]
ASSUME SizeAssumption == Size \in Nat \ {0}

VARIABLES
    installed,   \* install_once has run: SIGUSR2 has a handler
    killed,      \* SIGUSR2 arrived without one: the process is dead
    callerMask,  \* [Threads -> BOOLEAN] the caller has SIGUSR2 blocked
    masked,      \* [Threads -> BOOLEAN] SIGUSR2 is blocked now
    pending,     \* [Threads -> BOOLEAN] a blocked SIGUSR2 waits
    fired,       \* [Threads -> BOOLEAN] thread_local fired_
    timer,       \* [Threads -> ...] the timer: "none", "set", or "due" once it has expired
    late,        \* [Threads -> BOOLEAN] the call's deadline has passed
    pc, op,      \* [Threads -> ...] where the thread is, in which call
    finite,      \* [Threads -> BOOLEAN] timeout_ms >= 0
    result,      \* what the last system call returned
    outcome,     \* how the call is going to end, or has ended
    packet,      \* H2C bytes of this call the device has taken
    taken, buf,  \* C2H bytes of this call taken from the stream, and delivered
    fragment     \* C2H bytes the last read returned

signals == <<installed, killed, callerMask, masked, pending, fired, timer>>
data == <<packet, taken, buf, fragment>>
vars == <<signals, late, pc, op, finite, result, outcome, data>>

Outcomes == {"none", "ok", "zero", "timeout", "unsubmitted", "error"}
Results == {"none", "whole", "short", "data", "zero", "again", "ready",
             "expired", "flagged", "eintr", "error"}
Steps == {"idle", "mask", "drain", "install", "arm", "unmask", "undo", "check",
             "enter", "sys", "sysdone", "poll", "polldone", "block", "disarm", "clear",
             "leave", "loop"}

Set(f, t, v) == [f EXCEPT ![t] = v]
Goto(t, step) == pc' = Set(pc, t, step)
\* The guard's destructor: with no timer it does nothing.
\* Mutant: it does nothing with one either.
FinishLeaks(t, o) == outcome' = Set(outcome, t, o) /\ Goto(t, "leave")
Finish(t, o) ==
    /\ outcome' = Set(outcome, t, o)
    /\ Goto(t, IF timer[t] = "none" THEN "leave" ELSE "block")

Init ==
    /\ installed = FALSE /\ killed = FALSE
    /\ callerMask = [t \in Threads |-> FALSE]
    /\ masked  = [t \in Threads |-> FALSE]
    /\ pending = [t \in Threads |-> FALSE]
    /\ fired   = [t \in Threads |-> FALSE]
    /\ timer   = [t \in Threads |-> "none"]
    /\ late    = [t \in Threads |-> FALSE]
    /\ pc      = [t \in Threads |-> "idle"]
    /\ op      = [t \in Threads |-> "write"]
    /\ finite  = [t \in Threads |-> TRUE]
    /\ result  = [t \in Threads |-> "none"]
    /\ outcome = [t \in Threads |-> "none"]
    /\ packet  = [t \in Threads |-> 0]
    /\ taken   = [t \in Threads |-> 0]
    /\ buf     = [t \in Threads |-> <<>>]
    /\ fragment = [t \in Threads |-> 0]

-----------------------------------------------------------------------------
(* The caller. *)

\* writeH2C, readC2H, or readExact with a finite timeout (it refuses others).
Call(t, o, bounded) ==
    /\ pc[t] = "idle"
    /\ o = "exact" => bounded
    /\ op' = Set(op, t, o)
    /\ finite' = Set(finite, t, bounded)
    /\ late' = Set(late, t, FALSE)
    /\ result' = Set(result, t, "none")
    /\ outcome' = Set(outcome, t, "none")
    /\ packet' = Set(packet, t, 0)
    /\ taken' = Set(taken, t, 0)
    /\ buf' = Set(buf, t, <<>>)
    /\ fragment' = Set(fragment, t, 0)
    /\ Goto(t, IF o = "exact" THEN "loop" ELSE "mask")
    /\ UNCHANGED signals
AppMask(t) ==
    /\ pc[t] = "idle"
    /\ callerMask' = Set(callerMask, t, ~callerMask[t])
    /\ masked' = Set(masked, t, ~callerMask[t])
    /\ UNCHANGED <<installed, killed, pending, fired, timer,
                   late, pc, op, finite, result, outcome, data>>

\* Mutant: any fragment completes the read.
CompleteEarly(t) == buf[t] # <<>>
Complete(t) == Len(buf[t]) >= Size
\* readExact's loop: another fragment, the end, or the deadline.
ExactLoop(t) ==
    /\ pc[t] = "loop"
    /\ outcome' = Set(outcome, t, IF Complete(t) THEN "ok"
                                  ELSE IF late[t] THEN "timeout" ELSE "none")
    /\ Goto(t, IF Complete(t) \/ late[t] THEN "idle" ELSE "mask")
    /\ UNCHANGED <<signals, late, op, finite, result, data>>
\* The system call's function returns or throws; only readExact goes on.
Leave(t) ==
    /\ pc[t] = "leave"
    /\ Goto(t, IF op[t] = "exact" /\ outcome[t] \in {"ok", "zero"} THEN "loop" ELSE "idle")
    /\ UNCHANGED <<signals, late, op, finite, result, outcome, data>>

-----------------------------------------------------------------------------
(* DriverDeadlineInterrupt: constructor. *)

\* Without a deadline the guard does nothing.
Guarded(t) == finite[t]
Mask(t) ==
    /\ pc[t] = "mask"
    /\ fired' = Set(fired, t, FALSE)
    /\ masked' = Set(masked, t, masked[t] \/ Guarded(t))
    /\ Goto(t, IF Guarded(t) THEN "drain" ELSE "check")
    /\ UNCHANGED <<installed, killed, callerMask, pending, timer,
                   late, op, finite, result, outcome, data>>
\* A caller that already blocks SIGUSR2 is refused, its mask restored.
Drain(t) ==
    /\ pc[t] = "drain"
    /\ IF callerMask[t]
       THEN /\ outcome' = Set(outcome, t, "error")
            /\ Goto(t, "leave")
            /\ pending' = pending
       ELSE /\ outcome' = outcome
            /\ Goto(t, "install")
            /\ pending' = Set(pending, t, FALSE)
    /\ UNCHANGED <<installed, killed, callerMask, masked, fired, timer,
                   late, op, finite, result, data>>
\* Mutant: a failure of sigaction is not noticed.
InstallUnchecked(t) ==
    /\ pc[t] = "install"
    /\ installed' \in {installed, TRUE}
    /\ Goto(t, "arm")
    /\ UNCHANGED <<killed, callerMask, masked, pending, fired, timer,
                   late, op, finite, result, outcome, data>>
\* call_once with sigaction; if sigaction fails the next call tries again.
Install(t) ==
    /\ pc[t] = "install"
    /\ \/ installed' = TRUE /\ Goto(t, "arm")
       \/ ~installed /\ installed' = installed /\ Goto(t, "undo")
    /\ UNCHANGED <<killed, callerMask, masked, pending, fired, timer,
                   late, op, finite, result, outcome, data>>
\* timer_create and timer_settime, either of which can fail.
Arm(t) ==
    /\ pc[t] = "arm"
    /\ \/ timer' = Set(timer, t, IF late[t] THEN "due" ELSE "set") /\ Goto(t, "unmask")
       \/ timer' = timer /\ Goto(t, "undo")
    /\ UNCHANGED <<installed, killed, callerMask, masked, pending, fired,
                   late, op, finite, result, outcome, data>>
\* Restoring the caller's mask delivers what became pending since.
Restore(t) ==
    /\ masked' = Set(masked, t, callerMask[t])
    /\ IF pending[t] /\ ~callerMask[t]
       THEN /\ pending' = Set(pending, t, FALSE)
            /\ fired' = Set(fired, t, installed)
            /\ killed' = (killed \/ ~installed)
       ELSE UNCHANGED <<pending, fired, killed>>
Unmask(t) ==
    /\ pc[t] = "unmask"
    /\ Restore(t)
    /\ Goto(t, "check")
    /\ UNCHANGED <<installed, callerMask, timer, late, op, finite, result, outcome, data>>
\* The catch clause: disarm, drain, restore, rethrow.
Undo(t) ==
    /\ pc[t] = "undo"
    /\ timer' = Set(timer, t, "none")
    /\ pending' = Set(pending, t, FALSE)
    /\ masked' = Set(masked, t, callerMask[t])
    /\ outcome' = Set(outcome, t, "error")
    /\ Goto(t, "leave")
    /\ UNCHANGED <<installed, killed, callerMask, fired, late, op, finite, result, data>>

(* Destructor, when there is a timer. *)
Block(t) ==
    /\ pc[t] = "block"
    /\ masked' = Set(masked, t, TRUE)
    /\ Goto(t, "disarm")
    /\ UNCHANGED <<installed, killed, callerMask, pending, fired, timer,
                   late, op, finite, result, outcome, data>>
Disarm(t) ==
    /\ pc[t] = "disarm"
    /\ timer' = Set(timer, t, "none")
    /\ Goto(t, "clear")
    /\ UNCHANGED <<installed, killed, callerMask, masked, pending, fired,
                   late, op, finite, result, outcome, data>>
\* Mutant: a notification that waits is left to arrive.
ClearWithoutDrain(t) ==
    /\ pc[t] = "clear"
    /\ pending' = Set(pending, t, FALSE)
    /\ fired' = Set(fired, t, pending[t])
    /\ masked' = Set(masked, t, callerMask[t])
    /\ Goto(t, "leave")
    /\ UNCHANGED <<installed, killed, callerMask, timer,
                   late, op, finite, result, outcome, data>>
\* drain, fired_ = 0, and the caller's mask back.
Clear(t) ==
    /\ pc[t] = "clear"
    /\ pending' = Set(pending, t, FALSE)
    /\ fired' = Set(fired, t, FALSE)
    /\ masked' = Set(masked, t, callerMask[t])
    /\ Goto(t, "leave")
    /\ UNCHANGED <<installed, killed, callerMask, timer,
                   late, op, finite, result, outcome, data>>

-----------------------------------------------------------------------------
(* writeH2C and readC2H between the two. *)

Check(t) ==
    /\ pc[t] = "check"
    /\ IF fired[t]
       THEN Finish(t, IF op[t] = "write" THEN "unsubmitted" ELSE "timeout")
       ELSE Goto(t, "enter") /\ outcome' = outcome
    /\ UNCHANGED <<signals, late, op, finite, result, data>>
\* Into write or read: a notification between the check and this step sets
\* fired_ and interrupts nothing, it is lost to the system call.
Enter(t) ==
    /\ pc[t] = "enter"
    /\ Goto(t, "sys")
    /\ UNCHANGED <<signals, late, op, finite, result, outcome, data>>
\* fired_ is asked after the system call has returned, whatever it returned.
\* Mutant: a short write counts as a write.
WriteOutcomeShort(t) ==
    CASE result[t] \in {"eintr", "whole", "short"} /\ fired[t]  -> "timeout"
      [] result[t] \in {"whole", "short"} /\ ~fired[t]          -> "ok"
      [] OTHER                                                 -> "error"
WriteOutcome(t) ==
    CASE result[t] \in {"eintr", "whole", "short"} /\ fired[t] -> "timeout"
      [] result[t] = "whole" /\ ~fired[t]                     -> "ok"
      [] OTHER                                                -> "error"
AfterWrite(t) ==
    /\ pc[t] = "sysdone" /\ op[t] = "write"
    /\ Finish(t, WriteOutcome(t))
    /\ UNCHANGED <<signals, late, op, finite, result, data>>
\* A fragment that arrives together with the deadline is thrown away.
AfterRead(t) ==
    /\ pc[t] = "sysdone" /\ op[t] # "write"
    /\ IF result[t] = "again"
       THEN Goto(t, "poll") /\ outcome' = outcome
       ELSE Finish(t, CASE result[t] \in {"data", "zero", "eintr"} /\ fired[t] -> "timeout"
                        [] result[t] = "data" /\ ~fired[t]                    -> "ok"
                        [] result[t] = "zero" /\ ~fired[t]                    -> "zero"
                        [] OTHER                                              -> "error")
    /\ buf' = IF result[t] = "data" /\ ~fired[t]
              THEN Set(buf, t, buf[t] \o
                               [i \in 1 .. fragment[t] |-> taken[t] - fragment[t] + i])
              ELSE buf
    /\ UNCHANGED <<signals, late, op, finite, result, packet, taken, fragment>>
\* An expired poll and a flagged descriptor are looked at after fired_ only.
AfterPoll(t) ==
    /\ pc[t] = "polldone"
    /\ IF result[t] = "ready" /\ ~fired[t]
       THEN Goto(t, "check") /\ outcome' = outcome
       ELSE Finish(t, CASE result[t] # "error" /\ fired[t]     -> "timeout"
                        [] result[t] = "expired" /\ ~fired[t]  -> "zero"
                        [] OTHER                               -> "error")
    /\ UNCHANGED <<signals, late, op, finite, result, data>>

-----------------------------------------------------------------------------
(* The kernel and the device. *)

Return(t, r) ==
    /\ result' = Set(result, t, r)
    /\ Goto(t, IF pc[t] = "sys" THEN "sysdone" ELSE "polldone")
    /\ UNCHANGED <<signals, late, op, finite, outcome>>

DeviceTakes(t) ==
    /\ pc[t] = "sys" /\ op[t] = "write" /\ packet[t] < Size
    /\ packet' = Set(packet, t, packet[t] + 1)
    /\ UNCHANGED <<signals, late, pc, op, finite, result, outcome, taken, buf, fragment>>
WriteReturns(t) ==
    /\ pc[t] = "sys" /\ op[t] = "write"
    /\ Return(t, IF packet[t] = Size THEN "whole" ELSE "short")
    /\ UNCHANGED data
\* A C2H read is nonblocking: a fragment, an empty one, or EAGAIN.
ReadReturns(t) ==
    /\ pc[t] = "sys" /\ op[t] # "write"
    /\ \/ \E n \in 1 .. Size - Len(buf[t]) :
            /\ Return(t, "data")
            /\ taken' = Set(taken, t, taken[t] + n)
            /\ fragment' = Set(fragment, t, n)
       \/ \E r \in {"zero", "again"} : Return(t, r) /\ UNCHANGED <<taken, fragment>>
    /\ UNCHANGED <<packet, buf>>
\* The driver fails, or a signal the program does not know interrupts the call.
SysFails(t) ==
    /\ pc[t] \in {"sys", "poll"}
    /\ \E r \in {"error", "eintr"} : Return(t, r)
    /\ UNCHANGED data
\* poll's own timeout is no shorter than the timer's and started after it.
PollReturns(t) ==
    /\ pc[t] = "poll"
    /\ \/ \E r \in {"ready", "flagged"} : Return(t, r)
       \/ finite[t] /\ late[t] /\ Return(t, "expired")
    /\ UNCHANGED data

\* The clock: a timer counts from when it is set, readExact from its start.
Tick(t) ==
    /\ pc[t] # "idle" /\ finite[t] /\ ~late[t]
    /\ op[t] # "exact" => timer[t] # "none"
    /\ late' = Set(late, t, TRUE)
    /\ timer' = Set(timer, t, IF timer[t] = "none" THEN "none" ELSE "due")
    /\ UNCHANGED <<installed, killed, callerMask, masked, pending, fired,
                   pc, op, finite, result, outcome, data>>
\* The timer notifies, and keeps notifying; the handler runs unless the signal
\* is blocked, and a blocking call it interrupts returns EINTR.
\* Mutant: the timer is not set to repeat.
NotifiesOnce(t) == timer[t] = "due" /\ ~fired[t]
Notifies(t) == timer[t] = "due"
Notify(t) ==
    /\ Notifies(t)
    /\ IF masked[t]
       THEN pending' = Set(pending, t, TRUE) /\ UNCHANGED <<fired, killed, pc, result>>
       ELSE /\ pending' = pending
            /\ fired' = Set(fired, t, installed)
            /\ killed' = (killed \/ ~installed)
            /\ IF pc[t] \in {"sys", "poll"}
               THEN /\ result' = Set(result, t, "eintr")
                    /\ Goto(t, IF pc[t] = "sys" THEN "sysdone" ELSE "polldone")
               ELSE UNCHANGED <<result, pc>>
    /\ UNCHANGED <<installed, callerMask, masked, timer, late, op, finite, outcome, data>>

-----------------------------------------------------------------------------
Program(t) ==
    \/ ExactLoop(t) \/ Leave(t)
    \/ Mask(t) \/ Drain(t) \/ Install(t) \/ Arm(t) \/ Unmask(t) \/ Undo(t)
    \/ Block(t) \/ Disarm(t) \/ Clear(t)
    \/ Check(t) \/ Enter(t) \/ AfterWrite(t) \/ AfterRead(t) \/ AfterPoll(t)
Device(t) ==
    DeviceTakes(t) \/ WriteReturns(t) \/ ReadReturns(t) \/ SysFails(t) \/ PollReturns(t)
App(t) == AppMask(t) \/ \E o \in Makes[t], bounded \in BOOLEAN : Call(t, o, bounded)

Next == \E t \in Threads : App(t) \/ Program(t) \/ Device(t) \/ Tick(t) \/ Notify(t)

\* The threads run, time passes and the timer notifies again and again; the
\* device owes nothing.
Fairness ==
    \A t \in Threads : WF_vars(Program(t)) /\ WF_vars(Tick(t)) /\ WF_vars(Notify(t))
Spec == Init /\ [][Next]_vars /\ Fairness

-----------------------------------------------------------------------------
\* SIGUSR2's default action ends the process: no notification of any thread
\* ever arrives before the handler is in place.
NeverKilled == ~killed

\* Between calls a thread is as its caller left it: the caller's mask, no
\* timer, no notification waiting, no deadline remembered.
CleanBetweenCalls ==
    \A t \in Threads : pc[t] = "idle" =>
        /\ masked[t] = callerMask[t]
        /\ timer[t] = "none" /\ ~pending[t] /\ ~fired[t]

\* A call times out only after its own deadline, never on a notification left
\* over from an earlier call or meant for another thread.
TimeoutIsOwnDeadline ==
    \A t \in Threads : outcome[t] \in {"timeout", "unsubmitted"} => finite[t] /\ late[t]

\* What a caller may conclude about the packet: success means the device took
\* all of it, a timeout before submission that it took none.
WriteVerdict ==
    \A t \in Threads : op[t] = "write" =>
        /\ outcome[t] = "ok" => packet[t] = Size
        /\ outcome[t] = "unsubmitted" => packet[t] = 0

\* What is delivered is the head of the stream without a gap, and an exact
\* read that succeeds delivers all of it: a fragment dropped at a deadline is
\* never followed by another.
ReadIsGapless ==
    \A t \in Threads :
        /\ buf[t] = [i \in 1 .. Len(buf[t]) |-> i]
        /\ pc[t] = "idle" /\ outcome[t] = "ok" /\ op[t] = "exact" =>
               Len(buf[t]) = Size /\ taken[t] = Size

\* A call with a finite timeout returns, however silent the device: a
\* notification lost just before the system call is followed by others.
FiniteCallsReturn ==
    \A t \in Threads : pc[t] # "idle" /\ finite[t] ~> pc[t] = "idle"

=============================================================================
