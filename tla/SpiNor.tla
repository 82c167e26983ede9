------------------------------- MODULE SpiNor -------------------------------
(***************************************************************************)
(* SpiNor (dev/src/ip_drivers/qspi.cpp), one action per SPI transfer, with *)
(* the flash device as its environment.  A transfer is atomic here (see    *)
(* AxiQuadSpi for its registers); it can throw, and the device may then    *)
(* have seen the command, a prefix of its data, or nothing.                *)
(***************************************************************************)
EXTENDS NorFlash, FiniteSets

CONSTANTS
    Calls,           \* the calls a client makes
    MaxData,         \* fifo_depth - 1 - address_bytes
    None

\* at is the address; data the cells to program, or to read whatever their
\* values, one after another from there.
ASSUME CallsAssumption ==
    \A c \in Calls :
        /\ c.op \in {"erase", "program", "read", "repair"}
        /\ c.at \in Addr
        /\ c.data \in [DOMAIN c.data -> Value]
        /\ IsFiniteSet(DOMAIN c.data)
        /\ DOMAIN c.data = c.at .. c.at + Cardinality(DOMAIN c.data) - 1
ASSUME MaxDataAssumption == MaxData \in Nat \ {0}

VARIABLES
    mem,      \* the device: its array,
    wel,      \*   write-enable latch,
    doing,    \*   the write operation in progress, or None (WIP),
    err,      \*   latched error (a device that reports errors),
    mode,     \*   whether it understands serial commands,
    safe,     \*   the bits of its configuration register that are set,
    reports,  \*   profile.error_mask # 0, all but the Micron device
    pc,       \* the driver: where it is,
    call,     \*   the call it is in,
    next,     \*   offset: the next address to program or read,
    round,    \*   recovery rounds of the constructor so far,
    got,      \*   data read so far,
    before    \* history: the array when the call was made

device == <<mem, wel, doing, err, mode, safe, reports>>
driver == <<call, next, round, got, before>>
vars == <<device, pc, driver>>

Nothing == [a \in {} |-> Erased]
Modes == {"serial", "powerdown", "quad", "continuous"}

-----------------------------------------------------------------------------
(* The device. *)

Listening == mode = "serial" /\ doing = None

\* A page program wraps at the end of its page: the last cell sent to an
\* address is the one programmed there.
Wrap(at, a) == (at \div PageSize) * PageSize + (a % PageSize)
Landed(at, data) ==
    [b \in {Wrap(at, a) : a \in DOMAIN data} |->
        data[CHOOSE a \in DOMAIN data :
                /\ Wrap(at, a) = b
                /\ \A c \in DOMAIN data : Wrap(at, c) = b => c <= a]]

\* The device accepts a write operation if it is enabled for it; a protected
\* or failing device leaves the latch set and does nothing.
Accept(d) ==
    \/ Listening /\ wel /\ doing' = d
    \/ doing' = doing

Complete ==
    /\ doing # None /\ ~err
    /\ mem' = CASE doing.op = "erase"   -> ErasedAt(mem, SectorOf(doing.at))
                [] doing.op = "program" -> Programmed(mem, Landed(doing.at, doing.data))
                [] OTHER                -> mem
    /\ safe' = IF doing.op = "nvcr" THEN doing.value ELSE safe
    /\ doing' = None
    /\ wel' = FALSE
    /\ UNCHANGED <<err, mode, reports, pc, driver>>

\* The operation in progress is lost half way.
Spoilt ==
    IF doing = None THEN {mem} ELSE
    CASE doing.op = "erase"   -> PartlyErased(mem, SectorOf(doing.at))
      [] doing.op = "program" -> PartlyProgrammed(mem, Landed(doing.at, doing.data))
      [] OTHER                -> {mem}
\* The operation fails: a device that reports it stays busy until it is
\* reset, another one just ends.
Fault ==
    /\ doing # None /\ ~err /\ doing.op # "nvcr"
    /\ mem' \in Spoilt
    /\ IF reports THEN err' = TRUE /\ UNCHANGED <<doing, wel>>
                         ELSE err' = err /\ doing' = None /\ wel' = FALSE
    /\ UNCHANGED <<mode, safe, reports, pc, driver>>
\* Power is lost and comes back, the host with it; a Micron device starts in
\* the mode its nonvolatile configuration says.
PowerCycle ==
    /\ mem' \in Spoilt
    /\ wel' = FALSE /\ doing' = None /\ err' = FALSE
    /\ mode' \in IF reports \/ "boot" \in safe THEN {"serial"} ELSE {"serial", "quad"}
    /\ pc' = "closed"
    /\ UNCHANGED <<safe, reports, driver>>

-----------------------------------------------------------------------------
(* The client, and the ends of a call. *)

Throw == pc' = "closed"
Return == pc' = "idle"

Init ==
    /\ mem \in Memory
    /\ wel = FALSE /\ doing = None /\ err = FALSE
    /\ mode \in Modes
    /\ safe \in SUBSET NvcrBits
    /\ reports \in BOOLEAN /\ (reports => safe = NvcrBits)
    /\ pc = "closed"
    /\ call \in Calls
    /\ next = 0 /\ round = 0 /\ got = Nothing
    /\ before = mem

\* The process is killed; the device carries on.
Kill ==
    /\ pc # "closed"
    /\ pc' = "closed"
    /\ UNCHANGED <<device, driver>>

\* The constructor.
Open ==
    /\ pc = "closed"
    /\ pc' = "id"
    /\ round' = 0
    /\ UNCHANGED <<device, call, next, got, before>>
\* readId: a device that is busy or in another mode does not answer, and the
\* bus may float (isIdleBus) or not; recovery asks again without looking.
\* Mutant: after a recovery the answer is not looked at.
ReadIdTrusts ==
    /\ pc = "id"
    /\ \/ (Listening \/ round > 0) /\ Return
       \/ ~Listening /\ round = 0 /\ pc' = "recover"
    /\ UNCHANGED <<device, driver>>
ReadId ==
    /\ pc = "id"
    /\ \/ Listening /\ Return
       \/ ~Listening /\ round < 4 /\ pc' = "recover"
       \/ ~Listening /\ round \in {0, 4} /\ Throw
       \/ Throw
    /\ UNCHANGED <<device, driver>>

\* The four rounds of recoverSerialMode and what each command is for; the
\* controller may refuse a command (tryRecovery), and a pair of which the
\* first is refused is not sent.
Commands(n) == CASE n = 0 -> {"release_power_down"}
                 [] n = 1 -> {"reset_quad_protocol"}
                 [] n = 2 -> {"reset", "reset_quad_protocol"}
                 [] n = 3 -> {"mode_bit_reset", "reset"}
Leaves(m) == CASE m = "powerdown"  -> "release_power_down"
               [] m = "quad"       -> "reset_quad_protocol"
               [] m = "continuous" -> "mode_bit_reset"
               [] m = "serial"     -> None
Recover ==
    /\ pc = "recover"
    /\ \E sent \in SUBSET Commands(round) :
        /\ round = 3 /\ "reset" \in sent => "mode_bit_reset" \in sent
        /\ mode' = IF Leaves(mode) \in sent THEN "serial" ELSE mode
        /\ IF "reset" \in sent /\ (mode = "serial" \/ (round = 3 /\ mode' = "serial"))
           THEN mem' \in Spoilt /\ doing' = None /\ err' = FALSE /\ wel' = FALSE
           ELSE UNCHANGED <<mem, doing, err, wel>>
    /\ round' = round + 1
    /\ pc' = "id"
    /\ UNCHANGED <<safe, reports, call, next, got, before>>

-----------------------------------------------------------------------------
(* read, eraseSector, program and repairMicronBootMode. *)

Refused(c) ==
    CASE c.op = "erase"   -> c.at % EraseSize # 0
      [] c.op = "repair"  -> reports    \* not a Micron device
      [] OTHER            -> ~(c.at <= Capacity /\ Cardinality(DOMAIN c.data) <= Capacity - c.at)
\* Mutant: the length taken for the end.
EndIsLength(c) == Cardinality(DOMAIN c.data)
End(c) == c.at + Cardinality(DOMAIN c.data)

Begin(c) ==
    /\ pc = "idle"
    /\ ~Refused(c)
    /\ call' = c
    /\ next' = c.at
    /\ got' = Nothing
    /\ before' = mem
    /\ pc' = CASE c.op = "read"    -> "read"
               [] c.op = "repair"  -> "nvcr"
               [] c.op = "program" -> "program"
               [] c.op = "erase"   -> "enable"
    /\ UNCHANGED <<device, round>>

\* Any transfer may throw before it does anything.
Transfer == pc \in {"enable", "enabled", "wait", "read", "nvcr", "verify", "reset", "reread"}
TransferThrows ==
    /\ Transfer
    /\ Throw
    /\ UNCHANGED <<device, driver>>

\* writeEnable: the command, then the status.
WriteEnable ==
    /\ pc = "enable"
    /\ \/ wel' = (wel \/ Listening)
       \/ wel' = wel
    /\ pc' = "enabled"
    /\ UNCHANGED <<mem, doing, err, mode, safe, reports, driver>>
CheckEnabled ==
    /\ pc = "enabled"
    /\ IF wel THEN pc' = "command" ELSE Throw
    /\ UNCHANGED <<device, driver>>

\* The loop of program: another chunk, or all of it is done.
ProgramLoop ==
    /\ pc = "program"
    /\ IF next < End(call) THEN pc' = "enable" ELSE Return
    /\ UNCHANGED <<device, driver>>
\* The chunk of a program: what a transfer holds and what is left of the page.
ChunkEnd ==
    LET ends == {next + MaxData, (next \div PageSize + 1) * PageSize, End(call)}
    IN  CHOOSE e \in ends : \A f \in ends : e <= f
Chunk(to) == [a \in Within(next, to) |-> call.data[a]]

RepairValue == safe \cup {"boot"}
Operation(to) ==
    CASE call.op = "erase"   -> [op |-> "erase", at |-> call.at]
      [] call.op = "program" -> [op |-> "program", at |-> next, data |-> Chunk(to)]
      [] call.op = "repair"  -> [op |-> "nvcr", value |-> RepairValue]
Command ==
    /\ pc = "command"
    /\ Accept(Operation(ChunkEnd))
    /\ next' = IF call.op = "program" THEN ChunkEnd ELSE next
    /\ pc' = "wait"
    /\ UNCHANGED <<mem, wel, err, mode, safe, reports, call, round, got, before>>
\* A transfer that stops half way leaves the device with a prefix of the data.
CommandThrows ==
    /\ pc = "command"
    /\ \/ doing' = doing
       \/ \E to \in next + 1 .. ChunkEnd : call.op = "program" /\ Accept(Operation(to))
       \/ call.op # "program" /\ Accept(Operation(ChunkEnd))
    /\ Throw
    /\ UNCHANGED <<mem, wel, err, mode, safe, reports, driver>>

\* waitReady: one look at the status.
Ready ==
    CASE call.op = "program" -> pc' = "program"
      [] call.op = "repair"  -> pc' = "verify"
      [] OTHER               -> Return
\* Mutants: a command that did not start passes for done; no deadline.
WaitReadyNotStarted ==
    /\ pc = "wait"
    /\ \/ err /\ Throw
       \/ ~err /\ doing = None /\ Ready
       \/ ~err /\ doing # None /\ Throw
    /\ UNCHANGED <<device, driver>>
WaitReadyForever ==
    /\ pc = "wait"
    /\ \/ err /\ Throw
       \/ ~err /\ doing = None /\ wel /\ Throw
       \/ ~err /\ doing = None /\ ~wel /\ Ready
    /\ UNCHANGED <<device, driver>>
WaitReady ==
    /\ pc = "wait"
    /\ \/ err /\ Throw
       \/ ~err /\ doing = None /\ wel /\ Throw      \* did not start
       \/ ~err /\ doing = None /\ ~wel /\ Ready
       \/ ~err /\ doing # None /\ Throw             \* deadline
    /\ UNCHANGED <<device, driver>>

\* One chunk of a read.
ReadEnd == IF next + MaxData < End(call) THEN next + MaxData ELSE End(call)
Read ==
    /\ pc = "read"
    /\ IF next < End(call)
       THEN /\ got' = [a \in DOMAIN got \cup Within(next, ReadEnd) |->
                          IF a \in DOMAIN got THEN got[a] ELSE mem[a]]
            /\ next' = ReadEnd
            /\ pc' = pc
       ELSE Return /\ UNCHANGED <<got, next>>
    /\ UNCHANGED <<device, call, round, before>>

\* repairMicronBootMode: the configuration register is written only if a bit
\* is missing, read back, and reloaded by a reset.
ReadNvcr ==
    /\ pc = "nvcr"
    /\ pc' = IF "boot" \in safe THEN "reset" ELSE "enable"
    /\ UNCHANGED <<device, driver>>
VerifyNvcr ==
    /\ pc = "verify"
    /\ IF "boot" \in safe THEN pc' = "reset" ELSE Throw
    /\ UNCHANGED <<device, driver>>
Reset ==
    /\ pc = "reset"
    /\ wel' = FALSE
    /\ pc' = "reread"
    /\ UNCHANGED <<mem, doing, err, mode, safe, reports, driver>>
ReReadId ==
    /\ pc = "reread"
    /\ IF Listening THEN Return ELSE Throw
    /\ UNCHANGED <<device, driver>>

-----------------------------------------------------------------------------
Step == \/ ReadId \/ Recover
        \/ ProgramLoop \/ WriteEnable \/ CheckEnabled \/ Command \/ WaitReady
        \/ Read \/ ReadNvcr \/ VerifyNvcr \/ Reset \/ ReReadId
Chip == Complete \/ Fault \/ PowerCycle
Next == Step \/ TransferThrows \/ CommandThrows \/ Chip \/ Kill \/ Open \/ \E c \in Calls : Begin(c)

\* Every transfer ends, and every wait has a deadline.
Spec == Init /\ [][Next]_vars /\ WF_vars(Step)

-----------------------------------------------------------------------------
\* A session starts and every call begins on a device that is idle and
\* listening, although the process before may have left it busy, in another
\* mode or with a latched error.
OpenMeansIdle == pc = "idle" => doing = None /\ ~err /\ mode = "serial"

\* A read returns what is in the array, every cell of its range and no other,
\* although it takes several transfers.
ReadIsExact ==
    [][pc = "read" /\ pc' = "idle" => got = [a \in DOMAIN call.data |-> mem[a]]]_vars

\* The promise of NorApi: what a normal return and an exception mean to
\* programAndVerify.
Session ==
    CASE pc \in {"closed", "id", "recover"} -> "closed"
      [] pc = "idle"                        -> "idle"
      [] OTHER                              -> "busy"
Api == INSTANCE NorApi WITH session <- Session
KeepsPromise == Api!Spec

\* The constructor and every call end.
CallsEnd == pc \notin {"idle", "closed"} ~> pc \in {"idle", "closed"}
=============================================================================
