------------------------------ MODULE Axis2Mm ------------------------------
(***************************************************************************)
(* Axis2Mm::write (dev/src/ip_drivers/axis2mm.cpp): program the stream-to- *)
(* memory core, submit one packet, wait for the core, judge its status.    *)
(* Addresses and lengths count transport beats.                            *)
(***************************************************************************)
EXTENDS Integers, Sequences

CONSTANTS
    Calls,       \* records of address and data, a sequence of beats
    Blank,       \* what the memory holds at first
    MaxTransfer, \* the largest value of the length register
    MemSize,     \* bound: beats of memory
    Depth        \* bound: beats between the host and the core

VARIABLES
    mem,             \* the board memory
    address, length, \* the core: its registers,
    busy, taken,     \*   whether it runs, and the beats it has taken,
    status,          \*   how the last transfer ended: a set of status bits
    stream,          \*   the beats under way: data, and TLAST
    pc, call,        \* the driver: where it is, its call,
    sent,            \*   the beats of the packet that writeH2C has sent,
    late             \*   whether the call's deadline has passed

core == <<mem, address, length, busy, taken, status>>
vars == <<core, stream, pc, call, sent, late>>

\* The status bits a successful transfer ends with, and those of a failed one.
Good == {"complete"}
Bad == {"error", "decode_error", "slave_error", "overflow_error", "tlast_not_synchronized",
         "abort_in_progress"}

-----------------------------------------------------------------------------
(* The core (external): it ignores its registers while it is busy, takes    *)
(* length beats and notices a packet that ends elsewhere.                  *)

Take ==
    /\ busy /\ taken < length /\ stream # <<>>
    /\ mem' = [mem EXCEPT ![address + taken] = Head(stream).data]
    /\ taken' = taken + 1
    /\ status' = IF Head(stream).last = (taken' = length) THEN status
                 ELSE status \cup {"tlast_not_synchronized"}
    /\ stream' = Tail(stream)
    /\ UNCHANGED <<address, length, busy, pc, call, sent, late>>
Stop ==
    /\ busy
    /\ \/ taken = length /\ status' = status \cup Good
       \/ \E e \in Bad : status' = status \cup {"error", e}
    /\ busy' = FALSE
    /\ UNCHANGED <<mem, address, length, taken, stream, pc, call, sent, late>>

-----------------------------------------------------------------------------
Throw == pc' = "failed"

Init ==
    /\ mem = [a \in 0 .. MemSize - 1 |-> Blank]
    /\ address = 0 /\ length = 0 /\ busy = FALSE /\ taken = 0 /\ status = {}
    /\ stream = <<>>
    /\ pc = "idle" /\ call \in Calls /\ sent = 0 /\ late = FALSE

Call(c) ==
    /\ pc = "idle"
    /\ c.data # <<>> /\ Len(c.data) <= MaxTransfer
    /\ call' = c /\ sent' = 0 /\ late' = FALSE
    /\ pc' = "address"
    /\ UNCHANGED <<core, stream>>
AccessThrows ==
    /\ pc \in {"address", "length", "start", "wait", "status"}
    /\ Throw
    /\ UNCHANGED <<core, stream, call, sent, late>>

SetAddress ==
    /\ pc = "address"
    /\ address' = IF busy THEN address ELSE call.address
    /\ pc' = "length"
    /\ UNCHANGED <<mem, length, busy, taken, status, stream, call, sent, late>>
SetLength ==
    /\ pc = "length"
    /\ length' = IF busy THEN length ELSE Len(call.data)
    /\ pc' = "start"
    /\ UNCHANGED <<mem, address, busy, taken, status, stream, call, sent, late>>
Start ==
    /\ pc = "start"
    /\ IF busy THEN UNCHANGED <<busy, taken, status>>
               ELSE busy' = TRUE /\ taken' = 0 /\ status' = {}
    /\ pc' = "write"
    /\ UNCHANGED <<mem, address, length, stream, call, sent, late>>

\* writeH2C: the kernel sends the packet beat by beat and returns when all of
\* it is sent; an exception leaves it where it is, without a TLAST.
SendBeat ==
    /\ pc = "write" /\ sent < Len(call.data) /\ Len(stream) < Depth
    /\ sent' = sent + 1
    /\ stream' = Append(stream, [data |-> call.data[sent'], last |-> sent' = Len(call.data)])
    /\ UNCHANGED <<core, pc, call, late>>
WriteReturns ==
    /\ pc = "write"
    /\ \/ sent = Len(call.data) /\ pc' = "wait"
       \/ Throw
    /\ UNCHANGED <<core, stream, call, sent, late>>

WaitIdle ==
    /\ pc = "wait"
    /\ \/ ~busy /\ pc' = "status"
       \/ busy /\ late /\ Throw
    /\ UNCHANGED <<core, stream, call, sent, late>>
\* Mutant: an error is only looked for where nothing completed.
StatusLenient ==
    /\ pc = "status"
    /\ IF status # {} THEN pc' = "idle" ELSE Throw
    /\ UNCHANGED <<core, stream, call, sent, late>>
Status ==
    /\ pc = "status"
    /\ IF status = Good THEN pc' = "idle" ELSE Throw
    /\ UNCHANGED <<core, stream, call, sent, late>>

Tick ==
    /\ pc \notin {"idle", "failed"} /\ ~late
    /\ late' = TRUE
    /\ UNCHANGED <<core, stream, pc, call, sent>>

Driver == \/ SetAddress \/ SetLength \/ Start
          \/ (late /\ WriteReturns) \/ WaitIdle \/ Status
Next == Driver \/ AccessThrows \/ WriteReturns \/ SendBeat \/ Take \/ Stop \/ Tick \/ \E c \in Calls : Call(c)
=============================================================================
