------------------------------ MODULE AxiMm2s ------------------------------
(***************************************************************************)
(* AxiMm2s::read (dev/src/ip_drivers/aximm2s.cpp): program the memory-to-  *)
(* stream core, collect its stream in chunks, wait for it to finish.       *)
(***************************************************************************)
EXTENDS Integers, Sequences

CONSTANTS
    Calls,       \* records of address, bytes and chunk (max_bytes_per_read)
    Beat,        \* transport_beat_bytes
    MaxTransfer, \* the largest value of the byte-count register
    Depth        \* bound: beats between the core and the host

VARIABLES
    memory,          \* the board memory, byte by byte; others write it
    address, length, \* the core: its registers,
    busy, sent,      \*   whether it runs, and the bytes it has sent,
    complete, error, \*   how the last transfer ended,
    stream,          \*   the beats under way
    pc, call,        \* the driver: where it is, its call,
    out,             \*   the bytes collected,
    late             \*   whether the call's deadline has passed

core == <<address, length, busy, sent, complete, error>>
vars == <<memory, core, stream, pc, call, out, late>>

RoundUp(n) == ((n + Beat - 1) \div Beat) * Beat
Transport(c) == RoundUp(c.bytes)
Chunk(c) == IF RoundUp(c.chunk) > Beat THEN RoundUp(c.chunk) ELSE Beat

-----------------------------------------------------------------------------
(* The core (external): it pushes whole beats and ignores its registers     *)
(* while it is busy.                                                       *)

Push ==
    /\ busy /\ sent < length /\ Len(stream) < Depth
    /\ stream' = Append(stream, [i \in 1 .. Beat |-> memory[address + sent + i - 1]])
    /\ sent' = sent + Beat
    /\ UNCHANGED <<address, length, busy, complete, error, pc, call, out, late>>
\* The transfer ends: everything is sent, or a bus error stops it.
Stop ==
    /\ busy
    /\ \/ sent >= length /\ complete' = TRUE /\ error' = FALSE
       \/ sent < length /\ complete' = FALSE /\ error' = TRUE
    /\ busy' = FALSE
    /\ UNCHANGED <<address, length, sent, stream, pc, call, out, late>>

-----------------------------------------------------------------------------
Throw == pc' = "failed"

Init ==
    /\ address = 0 /\ length = 0 /\ busy = FALSE /\ sent = 0
    /\ complete = FALSE /\ error = FALSE
    /\ stream = <<>>
    /\ pc = "idle" /\ call \in Calls /\ out = <<>> /\ late = FALSE

Fits(c) == c.bytes > 0 /\ Transport(c) <= MaxTransfer
\* An empty read and one that does not fit the register never touch the core.
Call(c) ==
    /\ pc = "idle"
    /\ Fits(c)
    /\ call' = c /\ out' = <<>> /\ late' = FALSE
    /\ pc' = "address"
    /\ UNCHANGED <<core, stream>>
\* Every register access may throw.
AccessThrows ==
    /\ pc \in {"address", "length", "start", "wait", "status"}
    /\ Throw
    /\ UNCHANGED <<core, stream, call, out, late>>

SetAddress ==
    /\ pc = "address"
    /\ address' = IF busy THEN address ELSE call.address
    /\ pc' = "length"
    /\ UNCHANGED <<length, busy, sent, complete, error, stream, call, out, late>>
SetLength ==
    /\ pc = "length"
    /\ length' = IF busy THEN length ELSE Transport(call)
    /\ pc' = "start"
    /\ UNCHANGED <<address, busy, sent, complete, error, stream, call, out, late>>
Start ==
    /\ pc = "start"
    /\ IF busy THEN UNCHANGED <<busy, sent, complete, error>>
       ELSE busy' = TRUE /\ sent' = 0 /\ complete' = FALSE /\ error' = FALSE
    /\ pc' = "collect"
    /\ UNCHANGED <<address, length, stream, call, out, late>>

Wanted == LET left == Transport(call) - Len(out)
          IN  IF Chunk(call) < left THEN Chunk(call) ELSE left
\* The first k beats; a request that ends inside a beat loses its rest.
Delivered(k) ==
    [i \in 1 .. (IF Wanted < k * Beat THEN Wanted ELSE k * Beat) |->
        stream[(i - 1) \div Beat + 1][((i - 1) % Beat) + 1]]
\* readC2H returns a fragment (or nothing, after which the loop asks again).
Collect ==
    /\ pc = "collect" /\ Len(out) < Transport(call)
    /\ \E k \in 1 .. Len(stream) :
        /\ (k - 1) * Beat < Wanted
        /\ out' = out \o Delivered(k)
        /\ stream' = SubSeq(stream, k + 1, Len(stream))
    /\ UNCHANGED <<core, pc, call, late>>
\* Mutant: the call returns as soon as it has its bytes.
CollectedReturns ==
    /\ pc = "collect" /\ Len(out) >= Transport(call)
    /\ pc' = "idle"
    /\ UNCHANGED <<core, stream, call, out, late>>
Collected ==
    /\ pc = "collect" /\ Len(out) >= Transport(call)
    /\ pc' = "wait"
    /\ UNCHANGED <<core, stream, call, out, late>>
\* The deadline passes between two reads, or in one, which drops what it had
\* taken; a device error throws too.
CollectThrows ==
    /\ pc = "collect" /\ Len(out) < Transport(call)
    /\ \E k \in 0 .. (IF late THEN Len(stream) ELSE 0) :
        stream' = SubSeq(stream, k + 1, Len(stream))
    /\ Throw
    /\ UNCHANGED <<core, call, out, late>>

\* Mutant: no deadline.
WaitIdleForever ==
    /\ pc = "wait" /\ ~busy /\ pc' = "status"
    /\ UNCHANGED <<core, stream, call, out, late>>
WaitIdle ==
    /\ pc = "wait"
    /\ \/ ~busy /\ pc' = "status"
       \/ busy /\ late /\ Throw
    /\ UNCHANGED <<core, stream, call, out, late>>
Status ==
    /\ pc = "status"
    /\ IF error \/ ~complete THEN Throw ELSE pc' = "idle"
    /\ UNCHANGED <<core, stream, call, out, late>>

Tick ==
    /\ pc \notin {"idle", "failed"} /\ ~late
    /\ late' = TRUE
    /\ UNCHANGED <<core, stream, pc, call, out>>

Driver == \/ SetAddress \/ SetLength \/ Start
          \/ Collect \/ Collected \/ (late /\ CollectThrows) \/ WaitIdle \/ Status
Next == Driver \/ AccessThrows \/ CollectThrows \/ Push \/ Stop \/ Tick \/ \E c \in Calls : Call(c)
=============================================================================
