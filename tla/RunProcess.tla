---------------------------- MODULE RunProcess ----------------------------
(***************************************************************************)
(* runProcess (fpgactl/src/common.cpp): a program is run with its output   *)
(* in a pipe, which is read to its end before the program is waited for;   *)
(* runJtag (fpgactl/src/jtag.cpp) judges the programming of a card by the  *)
(* status and by what was printed.  The unit of output is a line.  A       *)
(* program writes, may leave a process behind that has the pipe as well,   *)
(* exits or is killed; a signal may interrupt a call of fpgactl.           *)
(***************************************************************************)
EXTENDS Integers, Sequences

LOCAL INSTANCE SequencesExt

CONSTANTS
    Capacity,     \* the lines that fit the pipe
    Buffer,       \* the lines read at once
    Lines,        \* what a program may print: "FAIL" is one
    MaxLines,     \* bound: lines a process prints
    MaxSignals,   \* bound: calls that end with EINTR
    NoStatus

ASSUME CapacityAssumption == Capacity \in Nat \ {0} /\ Buffer \in Nat \ {0}
ASSUME LinesAssumption    == "FAIL" \in Lines
ASSUME BoundsAssumption   == MaxLines \in Nat /\ MaxSignals \in Nat

VARIABLES
    pc,       \* fpgactl,
    output,   \*   result.output
    code,     \*   and result.exit_code, or NoStatus
    signals,  \* the calls interrupted so far
    open,     \* the processes that have the pipe open for writing
    pipe,     \* what is in it
    child,    \* "none", "forked", "program", "unknown" (nothing to execute), or how it
              \*   ended: "exit" with a status, "signal" with a number (SIGPIPE is 13)
    left,     \* the lines each process has still to print
    written   \* history: all that was written to the pipe
rvars == <<pc, output, code, signals, open, pipe, child, left, written>>

Processes == {"child", "descendant"}
Is(how) == [how |-> how, value |-> 0]
Exits(c) == [how |-> "exit", value |-> c]
Killed(s) == [how |-> "signal", value |-> s]
Ended == child.how \in {"exit", "signal"}

RunInit ==
    /\ pc = "fork" /\ output = <<>> /\ code = NoStatus /\ signals = 0
    /\ open = {} /\ pipe = <<>> /\ child = Is("none")
    /\ left \in [Processes -> 0 .. MaxLines] /\ written = <<>>

-----------------------------------------------------------------------------
(* fpgactl. *)

Fork ==
    /\ pc = "fork"
    /\ \/ pc' = "close" /\ open' = {"fpgactl", "child"} /\ child' = Is("forked")
       \/ pc' = "thrown" /\ UNCHANGED <<open, child>>
    /\ UNCHANGED <<output, code, signals, pipe, left, written>>
\* Mutant: the program is waited for before its output is read.
CloseAndWait ==
    /\ pc = "close"
    /\ open' = open \ {"fpgactl"}
    /\ pc' = (IF Ended THEN "read" ELSE "close")
    /\ UNCHANGED <<output, code, signals, pipe, child, left, written>>
Close ==
    /\ pc = "close"
    /\ open' = open \ {"fpgactl"} /\ pc' = "read"
    /\ UNCHANGED <<output, code, signals, pipe, child, left, written>>
Read ==
    /\ pc = "read"
    /\ \E n \in 1 .. Buffer :
        /\ n <= Len(pipe)
        /\ output' = output \o SubSeq(pipe, 1, n)
        /\ pipe' = SubSeq(pipe, n + 1, Len(pipe))
    /\ UNCHANGED <<pc, code, signals, open, child, left, written>>
\* End of file: nothing in the pipe, and nobody to write to it.
ReadEnd ==
    /\ pc = "read" /\ pipe = <<>> /\ open = {}
    /\ pc' = "wait"
    /\ UNCHANGED <<output, code, signals, open, pipe, child, left, written>>
ReadThrows ==
    /\ pc = "read"
    /\ pc' = "thrown"
    /\ UNCHANGED <<output, code, signals, open, pipe, child, left, written>>
Interrupted == signals < MaxSignals /\ signals' = signals + 1
\* Mutant: an interrupted read ends the reading.
ReadInterruptedEnds ==
    /\ pc = "read" /\ pipe = <<>> /\ open # {}
    /\ Interrupted
    /\ pc' = "wait"
    /\ UNCHANGED <<output, code, open, pipe, child, left, written>>
ReadInterrupted ==
    /\ pc = "read" /\ pipe = <<>> /\ open # {}
    /\ Interrupted
    /\ UNCHANGED <<pc, output, code, open, pipe, child, left, written>>
\* Mutant: the status of a process that a signal ended is read as an exit's.
StatusRaw == IF child.how = "exit" THEN child.value ELSE 0
Status == IF child.how = "exit" THEN child.value ELSE 128 + child.value
Wait ==
    /\ pc = "wait" /\ Ended
    /\ code' = Status /\ pc' = "done"
    /\ UNCHANGED <<output, signals, open, pipe, child, left, written>>
WaitInterrupted ==
    /\ pc = "wait" /\ ~Ended
    /\ Interrupted
    /\ UNCHANGED <<pc, output, code, open, pipe, child, left, written>>
WaitThrows ==
    /\ pc = "wait"
    /\ pc' = "thrown"
    /\ UNCHANGED <<output, code, signals, open, pipe, child, left, written>>

\* What runJtag makes of it: a loader may print a failure and return zero.
Failure(lines) == Contains(lines, "FAIL")
Succeeds == pc = "done" /\ code = 0 /\ ~Failure(output)

-----------------------------------------------------------------------------
(* The program. *)

End(how) == child' = how /\ open' = open \ {"child"}
Execute ==
    /\ child.how = "forked"
    /\ child' \in {Is("program"), Is("unknown")}
    /\ UNCHANGED <<pc, output, code, signals, open, pipe, left, written>>
\* "cannot execute ...", and exit 127.
Unknown ==
    /\ child.how = "unknown" /\ Len(pipe) < Capacity /\ pc # "thrown"
    /\ End(Exits(127))
    /\ pipe' = Append(pipe, "cannot execute")
    /\ written' = Append(written, "cannot execute")
    /\ UNCHANGED <<pc, output, code, signals, left>>
Say(p) ==
    /\ p \in open /\ left[p] > 0 /\ Len(pipe) < Capacity /\ pc # "thrown"
    /\ p = "child" => child.how = "program"
    /\ \E line \in Lines : pipe' = Append(pipe, line) /\ written' = Append(written, line)
    /\ left' = [left EXCEPT ![p] = @ - 1]
    /\ UNCHANGED <<pc, output, code, signals, open, child>>
\* The reading end is gone.
BrokenPipe(p) ==
    /\ p \in open /\ pc = "thrown"
    /\ p = "child" => \/ child.how = "unknown"
                      \/ child.how = "program" /\ left[p] > 0
    /\ open' = open \ {p}
    /\ child' = IF p = "child" THEN Killed(13) ELSE child
    /\ UNCHANGED <<pc, output, code, signals, pipe, left, written>>
LeaveBehind ==
    /\ child.how = "program" /\ "child" \in open /\ "descendant" \notin open
    /\ open' = open \cup {"descendant"}
    /\ UNCHANGED <<pc, output, code, signals, pipe, child, left, written>>
Exit ==
    /\ child.how = "program" /\ left["child"] = 0
    /\ \E c \in {0, 1} : End(Exits(c))
    /\ UNCHANGED <<pc, output, code, signals, pipe, left, written>>
\* A program may close its output before it ends.
CloseOutput ==
    /\ child.how = "program" /\ "child" \in open /\ left["child"] = 0
    /\ open' = open \ {"child"}
    /\ UNCHANGED <<pc, output, code, signals, pipe, child, left, written>>
Kill ==
    /\ child.how \in {"forked", "program", "unknown"}
    /\ End(Killed(9))
    /\ UNCHANGED <<pc, output, code, signals, pipe, left, written>>
DescendantEnds ==
    /\ "descendant" \in open /\ left["descendant"] = 0
    /\ open' = open \ {"descendant"}
    /\ UNCHANGED <<pc, output, code, signals, pipe, child, left, written>>

Fpgactl == Fork \/ Close \/ Read \/ ReadEnd \/ Wait
Child == Execute \/ Unknown \/ Say("child") \/ BrokenPipe("child") \/ Exit
Descendant == Say("descendant") \/ BrokenPipe("descendant") \/ DescendantEnds
RunNext == \/ Fpgactl \/ ReadThrows \/ ReadInterrupted \/ WaitInterrupted \/ WaitThrows
        \/ Child \/ Descendant \/ LeaveBehind \/ CloseOutput \/ Kill
\* fpgactl goes on, and so does what it runs: no program runs for ever of itself.
RunSpec == RunInit /\ [][RunNext]_rvars /\ WF_rvars(Fpgactl) /\ WF_rvars(Child) /\ WF_rvars(Descendant)

-----------------------------------------------------------------------------
\* The output that is judged is all there is, also what a process left behind
\* printed after the program had ended, whatever signals came meanwhile.
OutputIsComplete == pc = "done" => output = written /\ open = {}

\* "A reported failure must never become a successful fpgactl operation": what
\* succeeds was executed, ended of itself with status 0 and printed no FAIL.
SuccessIsReal ==
    Succeeds => child = Exits(0) /\ ~Failure(written)

\* The call ends, however much is printed: nobody waits for a process that
\* waits for the pipe to be read.
Returns == <>(pc \in {"done", "thrown"})
=============================================================================
