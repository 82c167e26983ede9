---------------------------- MODULE BoardMemory ----------------------------
(***************************************************************************)
(* A client that writes buffers to the board memory with Axis2Mm and reads *)
(* ranges of it back with AxiMm2s, one call after another over the two     *)
(* streams of one XDMA device.  It stops at the first exception.           *)
(***************************************************************************)
EXTENDS Integers, Sequences

CONSTANTS
    Writes,      \* records of address and data: the calls of Axis2Mm::write,
    Reads,       \* of address, bytes and chunk: those of AxiMm2s::read
    Beat,        \* transport_beat_bytes
    Blank,       \* what the memory holds at first
    MaxWrite,    \* the largest value of the write core's length register,
    MaxRead,     \*   and of the read core's byte-count register
    MemSize,     \* bound: beats of memory
    Depth        \* bound: beats between the host and a core

ASSUME SizesAssumption ==
    /\ Beat \in Nat \ {0} /\ Depth \in Nat \ {0}
    /\ MaxWrite \in Nat /\ MaxRead \in Nat /\ MemSize \in Nat
ASSUME WritesAssumption ==
    \A c \in Writes : /\ c.address \in Nat /\ Len(c.data) \in Nat
                      /\ c.address + Len(c.data) <= MemSize
ASSUME ReadsAssumption ==
    \A c \in Reads : c.address \in Nat /\ c.bytes \in Nat /\ c.chunk \in Nat

VARIABLES
    mem,                                                          \* the board memory
    wAddress, wLength, wBusy, taken, wStatus, wStream, wPc, wCall, wSent, wLate,
    rAddress, rLength, rBusy, rSent, complete, error, rStream, rPc, rCall, out, rLate,
    image        \* what the client has been told that the memory holds

writing == <<wAddress, wLength, wBusy, taken, wStatus, wStream, wPc, wCall, wSent, wLate>>
reading == <<rAddress, rLength, rBusy, rSent, complete, error, rStream, rPc, rCall, out, rLate>>
mvars == <<mem, writing, reading, image>>

\* The memory behind the reading core, which may read past what is written:
\* byte b of beat a is the pair of the beat's contents and b.
Bytes(beats) ==
    [x \in 0 .. MemSize * Beat + MaxRead |->
        <<IF x \div Beat < MemSize THEN beats[x \div Beat] ELSE Blank, x % Beat>>]

Writer == INSTANCE Axis2Mm WITH
    Calls <- Writes, MaxTransfer <- MaxWrite,
    address <- wAddress, length <- wLength, busy <- wBusy, status <- wStatus,
    stream <- wStream, pc <- wPc, call <- wCall, sent <- wSent, late <- wLate
Reader == INSTANCE AxiMm2s WITH
    Calls <- Reads, MaxTransfer <- MaxRead, memory <- Bytes(mem),
    address <- rAddress, length <- rLength, busy <- rBusy, sent <- rSent,
    stream <- rStream, pc <- rPc, call <- rCall, late <- rLate

MemoryInit == Writer!Init /\ Reader!Init /\ image = mem

\* A write that returns tells the client what its range holds.
Told ==
    image' = IF wPc = "status" /\ wPc' = "idle"
             THEN [a \in DOMAIN image |->
                     IF a - wCall.address \in 0 .. Len(wCall.data) - 1
                     THEN wCall.data[a - wCall.address + 1] ELSE image[a]]
             ELSE image

\* Either call starts only when the other has returned; the cores run on.
Write(step) == step /\ Told /\ UNCHANGED reading
Read(step) == UNCHANGED <<mem, writing, image>> /\ step
MemoryNext ==
    \/ Write(Writer!Next) /\ (wPc = "idle" /\ wPc' # "idle" => rPc = "idle")
    \/ Read(Reader!Next)  /\ (rPc = "idle" /\ rPc' # "idle" => wPc = "idle")

\* The clock runs, and every access of a driver ends (writeH2C and readC2H at
\* their deadlines, see XdmaStream); the cores owe nothing.
MemorySpec ==
    /\ MemoryInit /\ [][MemoryNext]_mvars
    /\ WF_mvars(Write(Writer!Driver)) /\ WF_mvars(Write(Writer!Tick))
    /\ WF_mvars(Read(Reader!Driver))  /\ WF_mvars(Read(Reader!Tick))

-----------------------------------------------------------------------------
\* End to end, over any sequence of writes and reads: a read that returns has
\* the bytes that the writes before it reported as written to its range: no
\* beat of another transfer, none lost between two chunks, none of the padding.
RoundTrip ==
    [][rPc = "status" /\ rPc' = "idle" =>
        SubSeq(out, 1, rCall.bytes)
            = [i \in 1 .. rCall.bytes |-> Bytes(image)[rCall.address + i - 1]]]_mvars

\* A client that has seen no exception starts every call on idle cores and
\* empty streams: nothing of a call is left behind for the next one.
CleanBetweenCalls ==
    /\ wPc = "idle" => ~wBusy /\ wStream = <<>>
    /\ rPc = "idle" => ~rBusy /\ rStream = <<>>

\* Every call ends, also when a core never takes or sends what it was asked for.
Returned(pc) == pc \in {"idle", "failed"}
CallsEnd == (~Returned(wPc) ~> Returned(wPc)) /\ (~Returned(rPc) ~> Returned(rPc))
=============================================================================
