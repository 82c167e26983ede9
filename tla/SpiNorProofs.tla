---------------------------- MODULE SpiNorProofs ----------------------------
(***************************************************************************)
(* Theorems about SpiNor, for every geometry, every set of calls, every    *)
(* transfer size and both kinds of device: an open session and every call  *)
(* begin on an idle device, a read returns the array, and the driver       *)
(* implements NorApi, which FlashProgram is written against.               *)
(***************************************************************************)
EXTENDS SpiNor, Quotients, FiniteSetTheorems

\* Where the driver can be.
Calling == {"program", "enable", "enabled", "command", "wait", "read",
            "nvcr", "verify", "reset", "reread"}

TypeOK ==
    /\ mem \in Memory /\ before \in Memory
    /\ wel \in BOOLEAN /\ err \in BOOLEAN /\ reports \in BOOLEAN
    /\ mode \in Modes
    /\ safe \in SUBSET NvcrBits
    /\ pc \in {"closed", "id", "recover", "idle"} \cup Calling
    /\ call \in Calls
    /\ next \in Nat

\* The cells from i to j of a call's data, as one page program.
ChunkOf(c, i, j) ==
    [op |-> "program", at |-> i, data |-> [a \in Within(i, j) |-> c.data[a]]]
InOnePage(i, j) == j <= (i \div PageSize + 1) * PageSize

\* The operation in progress, if any, belongs to the last call, and a page
\* program lies within one page.
DoingInv ==
    doing # None =>
        CASE call.op = "erase"   -> doing = [op |-> "erase", at |-> call.at]
          [] call.op = "program" ->
                \E i, j \in call.at .. End(call) :
                    InOnePage(i, j) /\ doing = ChunkOf(call, i, j)
          [] call.op = "repair"  -> doing = [op |-> "nvcr", value |-> RepairValue]
          [] call.op = "read"    -> FALSE

\* A device with an error is stuck in its operation.  Once the constructor
\* has had its answer the device listens, and but for the wait after a command
\* it is idle.
QuietInv ==
    /\ err => doing # None
    /\ pc \notin {"closed", "id", "recover"} => mode = "serial"
    /\ pc \notin {"closed", "id", "recover", "wait"} => doing = None /\ ~err
    /\ pc = "command" => wel

\* Where a call can be, and how far a program or a read has come; the reset of a
\* repair comes after the bit has been read.
CallInv ==
    /\ pc = "program"                              => call.op = "program"
    /\ pc = "read"                                 => call.op = "read"
    /\ pc \in {"nvcr", "verify", "reset", "reread"} => call.op = "repair"
    /\ pc \in {"reset", "reread"}                  => "boot" \in safe
    /\ pc \in {"enable", "enabled", "command", "wait"} => call.op # "read"
    /\ pc \in Calling /\ call.op \in {"program", "read"} =>
           End(call) <= Capacity /\ next \in call.at .. End(call)
    /\ pc = "read" => got = [a \in Within(call.at, next) |-> mem[a]]

\* What a call, whole or in part, can have done to the array m.
Touched(m, b, c) ==
    CASE c.op = "erase"   -> \A a \in Addr : SectorOf(a) # SectorOf(c.at) => m[a] = b[a]
      [] c.op = "program" -> \A a \in Addr :
                                /\ b[a] \subseteq m[a]
                                /\ m[a] \subseteq b[a] \cup (IF a \in DOMAIN c.data THEN c.data[a] ELSE {})
      [] OTHER            -> m = b
TouchedInv == Touched(mem, before, call)

\* The cells below n are programmed, the others are as before the call.
Upto(n) ==
    \A a \in Addr : mem[a] = IF a \in DOMAIN call.data /\ a < n
                              THEN before[a] \cup call.data[a] ELSE before[a]

\* A device that reports its failures has done what the call is past.
DoneInv ==
    reports =>
        /\ pc \in {"program", "enable", "enabled", "command"} /\ call.op = "program" => Upto(next)
        /\ pc = "wait" /\ ~err /\ doing # None /\ call.op = "program" =>
               \E i \in call.at .. next :
                   InOnePage(i, next) /\ doing = ChunkOf(call, i, next) /\ Upto(i)
        /\ pc = "wait" /\ ~err /\ doing = None /\ ~wel =>
               /\ call.op = "program" => Upto(next)
               /\ call.op = "erase"   => \A a \in SectorCells(SectorOf(call.at)) : mem[a] = Erased

SpiNorInv == TypeOK /\ DoingInv /\ QuietInv /\ CallInv /\ TouchedInv /\ DoneInv

-----------------------------------------------------------------------------
(* The geometry, the calls and the chunks of a program. *)

\* The sizes are positive numbers.
LEMMA Geometry ==
    /\ PageSize \in Nat \ {0} /\ EraseSize \in Nat \ {0}
    /\ Capacity \in Nat
    /\ Addr = 0 .. Capacity - 1
  <1>1. NSectors \in Nat /\ EraseSize \in Nat
    BY GeometryAssumption
  <1>2. NSectors * EraseSize \in Nat
    BY <1>1
  <1> QED
    BY <1>2, GeometryAssumption DEF Capacity, Addr

\* The data of a call are the cells from its address to its end.
LEMMA CallRange ==
    ASSUME NEW c \in Calls
    PROVE  /\ c.op \in {"erase", "program", "read", "repair"}
           /\ c.at \in Nat /\ c.at \in Addr
           /\ End(c) \in Nat /\ c.at <= End(c)
           /\ DOMAIN c.data = c.at .. End(c) - 1
           /\ \A a \in DOMAIN c.data : c.data[a] \in Value
  <1>1. Cardinality(DOMAIN c.data) \in Nat
    BY CallsAssumption, FS_CardinalityType
  <1>2. c.at \in Nat
    BY CallsAssumption, Geometry
  <1> QED
    BY <1>1, <1>2, CallsAssumption DEF End

\* A chunk of a program ends behind its beginning, within its page and within
\* the data.
LEMMA ChunkFits ==
    ASSUME call \in Calls, next \in call.at .. End(call)
    PROVE  /\ ChunkEnd \in next .. End(call)
           /\ InOnePage(next, ChunkEnd)
  <1> DEFINE page == (next \div PageSize + 1) * PageSize
             ends == {next + MaxData, page, End(call)}
  <1>1. next \in Nat /\ End(call) \in Nat /\ MaxData \in Nat /\ next <= End(call)
    BY CallRange, MaxDataAssumption
  <1>2. page \in Nat /\ next <= page
    <2>1. /\ next \div PageSize \in Nat /\ PageSize \in Nat
          /\ next < (next \div PageSize) * PageSize + PageSize
      BY <1>1, Geometry, QuotientRemainder
    <2> DEFINE q == next \div PageSize
    <2> HIDE DEF q
    <2>2. (q + 1) * PageSize = q * PageSize + PageSize /\ q * PageSize \in Nat
      BY <2>1 DEF q
    <2> QED
      BY <2>1, <2>2, <1>1 DEF q
  <1>3. \E e \in ends : \A f \in ends : e <= f
    <2> HIDE DEF page
    <2> QED
      BY <1>1, <1>2
  <1>4. ChunkEnd \in ends /\ \A f \in ends : ChunkEnd <= f
    BY <1>3 DEF ChunkEnd
  <1> HIDE DEF page
  <1>5. ChunkEnd \in Nat /\ next <= ChunkEnd /\ ChunkEnd <= End(call) /\ ChunkEnd <= page
    BY <1>1, <1>2, <1>4
  <1> QED
    BY <1>1, <1>5 DEF page, InOnePage

\* A page program that stays within its page lands where it was sent.
LEMMA ChunkLands ==
    ASSUME NEW c \in Calls, NEW i \in c.at .. End(c), NEW j \in c.at .. End(c),
           InOnePage(i, j)
    PROVE  Landed(i, ChunkOf(c, i, j).data) = ChunkOf(c, i, j).data
  <1> DEFINE data == [a \in Within(i, j) |-> c.data[a]]
  <1>1. i \in Nat /\ j \in Nat
    BY CallRange
  <1>2. ASSUME NEW a \in Within(i, j)
        PROVE  Wrap(i, a) = a
    <2> DEFINE q == i \div PageSize
    <2>1. a \in Nat /\ i <= a /\ a < j
      BY <1>1, <1>2, Geometry DEF Within
    <2>2. q \in Nat /\ q * PageSize <= i /\ PageSize \in Nat \ {0} /\ j <= (q + 1) * PageSize
      BY <1>1, Geometry, QuotientRemainder DEF InOnePage
    <2>3. a \div PageSize = q
      <3> HIDE DEF q
      <3>1. (q + 1) * PageSize = q * PageSize + PageSize /\ q * PageSize \in Nat
        BY <2>2
      <3> QED
        BY <1>1, <2>1, <2>2, <3>1, QuotientUnique
    <2>4. a = q * PageSize + (a % PageSize)
      BY <2>1, <2>2, <2>3, QuotientRemainder
    <2> QED
      BY <2>4 DEF Wrap
  <1>3. \A a, b \in Within(i, j) : Wrap(i, a) = b <=> a = b
    BY <1>2
  <1>4. {Wrap(i, a) : a \in Within(i, j)} = Within(i, j)
    BY <1>2
  <1>5. DOMAIN data = Within(i, j)
    OBVIOUS
  <1>6. ASSUME NEW b \in Within(i, j)
        PROVE  (CHOOSE a \in DOMAIN data :
                    /\ Wrap(i, a) = b
                    /\ \A x \in DOMAIN data : Wrap(i, x) = b => x <= a) = b
    <2> DEFINE Lands(a) == /\ Wrap(i, a) = b
                           /\ \A x \in DOMAIN data : Wrap(i, x) = b => x <= a
    <2>1. b <= b
      BY Geometry DEF Within
    <2>2. Lands(b) /\ b \in DOMAIN data
      BY <1>3, <1>5, <2>1
    <2>3. \A a \in DOMAIN data : Lands(a) => a = b
      BY <1>3, <1>5
    <2> HIDE DEF Lands
    <2>4. (CHOOSE a \in DOMAIN data : Lands(a)) = b
      BY <2>2, <2>3
    <2> QED
      BY <2>4 DEF Lands
  <1>7. Landed(i, data) = [b \in Within(i, j) |-> data[b]]
    BY <1>4, <1>5, <1>6 DEF Landed
  <1> QED
    BY <1>7 DEF ChunkOf

-----------------------------------------------------------------------------
(* What the device can have done to its array. *)

\* An erase of a sector, complete or not, changes no cell outside it.
LEMMA EraseTouches ==
    ASSUME NEW m \in Memory, NEW s,
           NEW n \in PartlyErased(m, s) \cup {ErasedAt(m, s)}
    PROVE  n \in Memory /\ \A a \in Addr : SectorOf(a) # s => n[a] = m[a]
  <1>1. CASE n = ErasedAt(m, s)
    BY <1>1 DEF ErasedAt, Memory, Erased, Value
  <1>2. CASE n \in PartlyErased(m, s)
    <2>1. PICK cells \in [SectorCells(s) -> Value] : n = WithSector(m, s, cells)
      BY <1>2 DEF PartlyErased
    <2> QED
      BY <2>1 DEF WithSector, SectorCells, Memory
  <1> QED
    BY <1>1, <1>2

\* A program, complete or not, adds some of the bits of its data.
LEMMA ProgramTouches ==
    ASSUME NEW m \in Memory, NEW data, \A a \in DOMAIN data : data[a] \in Value,
           NEW n \in PartlyProgrammed(m, data) \cup {Programmed(m, data)}
    PROVE  /\ n \in Memory
           /\ \A a \in Addr :
                /\ m[a] \subseteq n[a]
                /\ n[a] \subseteq m[a] \cup (IF a \in DOMAIN data THEN data[a] ELSE {})
  <1>1. PICK part : /\ n = Programmed(m, part)
                    /\ DOMAIN part = DOMAIN data
                    /\ \A a \in DOMAIN data : part[a] \subseteq data[a] /\ part[a] \in Value
    <2>1. CASE n = Programmed(m, data)
      BY <2>1
    <2>2. CASE n \in PartlyProgrammed(m, data)
      BY <2>2 DEF PartlyProgrammed
    <2> QED
      BY <2>1, <2>2
  <1>2. \A a \in Addr : n[a] = IF a \in DOMAIN data THEN m[a] \cup part[a] ELSE m[a]
    BY <1>1 DEF Programmed
  <1>3. n \in Memory
    BY <1>1 DEF Programmed, Memory, Value
  <1> QED
    BY <1>1, <1>2, <1>3

\* The chunk of a call is data of that call.
LEMMA ChunkData ==
    ASSUME NEW c \in Calls, NEW i \in c.at .. End(c), NEW j \in c.at .. End(c)
    PROVE  /\ DOMAIN ChunkOf(c, i, j).data = Within(i, j)
           /\ Within(i, j) \subseteq DOMAIN c.data
           /\ \A a \in Within(i, j) : ChunkOf(c, i, j).data[a] = c.data[a]
           /\ \A a \in Within(i, j) : c.data[a] \in Value
  <1>1. Within(i, j) \subseteq DOMAIN c.data
    BY CallRange, Geometry DEF Within
  <1> QED
    BY <1>1, CallRange DEF ChunkOf

\* Whatever becomes of the operation in progress, the array stays one that
\* the call can have left.
Outcomes ==
    Spoilt \cup
    IF doing = None THEN {} ELSE
    CASE doing.op = "erase"   -> {ErasedAt(mem, SectorOf(doing.at))}
      [] doing.op = "program" -> {Programmed(mem, Landed(doing.at, doing.data))}
      [] OTHER                -> {mem}

\* Each of them is something the call may do.
LEMMA OutcomeTouches ==
    ASSUME TypeOK, DoingInv, TouchedInv, NEW n \in Outcomes
    PROVE  n \in Memory /\ Touched(n, before, call)
  <1>1. mem \in Memory /\ before \in Memory /\ call \in Calls
    BY DEF TypeOK
  <1>2. CASE doing = None
    BY <1>1, <1>2 DEF Outcomes, Spoilt, TouchedInv
  <1>3. CASE doing # None /\ call.op = "erase"
    <2>1. doing.op = "erase" /\ doing.at = call.at
      BY <1>3 DEF DoingInv
    <2>2. n \in PartlyErased(mem, SectorOf(call.at)) \cup {ErasedAt(mem, SectorOf(call.at))}
      BY <1>3, <2>1 DEF Outcomes, Spoilt
    <2>3. n \in Memory /\ \A a \in Addr : SectorOf(a) # SectorOf(call.at) => n[a] = mem[a]
      BY <1>1, <2>2, EraseTouches
    <2> QED
      BY <1>3, <2>3 DEF TouchedInv, Touched
  <1>4. CASE doing # None /\ call.op = "program"
    <2>1. PICK i \in call.at .. End(call), j \in call.at .. End(call) :
               InOnePage(i, j) /\ doing = ChunkOf(call, i, j)
      BY <1>4 DEF DoingInv
    <2>2. doing.op = "program" /\ doing.at = i
      BY <2>1 DEF ChunkOf
    <2>3. Landed(doing.at, doing.data) = ChunkOf(call, i, j).data
      BY <1>1, <2>1, <2>2, ChunkLands
    <2> DEFINE data == ChunkOf(call, i, j).data
    <2>4. n \in PartlyProgrammed(mem, data) \cup {Programmed(mem, data)}
      BY <1>4, <2>2, <2>3 DEF Outcomes, Spoilt
    <2>5. /\ DOMAIN data = Within(i, j) /\ Within(i, j) \subseteq DOMAIN call.data
          /\ \A a \in DOMAIN data : data[a] = call.data[a] /\ data[a] \in Value
      BY <1>1, ChunkData
    <2> HIDE DEF data
    <2>6. /\ n \in Memory
          /\ \A a \in Addr :
                /\ mem[a] \subseteq n[a]
                /\ n[a] \subseteq mem[a] \cup (IF a \in DOMAIN data THEN data[a] ELSE {})
      BY <1>1, <2>4, <2>5, ProgramTouches
    <2>7. ASSUME NEW a \in Addr
          PROVE  /\ before[a] \subseteq n[a]
                 /\ n[a] \subseteq before[a] \cup (IF a \in DOMAIN call.data THEN call.data[a] ELSE {})
      <3>1. /\ before[a] \subseteq mem[a]
            /\ mem[a] \subseteq before[a] \cup (IF a \in DOMAIN call.data THEN call.data[a] ELSE {})
        BY <1>4 DEF TouchedInv, Touched
      <3> QED
        BY <2>5, <2>6, <3>1
    <2> QED
      BY <1>4, <2>6, <2>7 DEF Touched
  <1>5. CASE doing # None /\ call.op = "repair"
    <2>1. doing.op = "nvcr"
      BY <1>5 DEF DoingInv
    <2> QED
      BY <1>1, <1>5, <2>1 DEF Outcomes, Spoilt, TouchedInv
  <1>6. CASE doing # None /\ call.op = "read"
    BY <1>6 DEF DoingInv
  <1> QED
    BY <1>1, <1>2, <1>3, <1>4, <1>5, <1>6, CallRange

-----------------------------------------------------------------------------
(* The steps: those that leave the device, the call and its progress alone, *)
(* and the others one by one.                                              *)

\* A step of the driver that only moves it on.
Moves == Kill \/ Open \/ ReadId \/ TransferThrows \/ ProgramLoop \/ CheckEnabled \/ WaitReady
         \/ ReadNvcr \/ VerifyNvcr \/ ReReadId

\* It leaves the array and what the call has got alone.
LEMMA MovesKeep ==
    ASSUME Moves
    PROVE  UNCHANGED <<mem, wel, doing, err, mode, safe, reports, call, next, got, before>>
  BY DEF Moves, Kill, Open, ReadId, TransferThrows, ProgramLoop, CheckEnabled, WaitReady,
         ReadNvcr, VerifyNvcr, ReReadId, device, driver

\* Every step is one of these.
LEMMA Cases ==
    ASSUME [Next]_vars
    PROVE  \/ Moves \/ UNCHANGED vars
           \/ Complete \/ Fault \/ PowerCycle
           \/ Recover
           \/ \E c \in Calls : Begin(c)
           \/ WriteEnable \/ Command \/ CommandThrows \/ Read \/ Reset
  BY DEF Next, Step, Chip, Moves

\* The array after a step of the device is one of the outcomes.
LEMMA DeviceOutcome ==
    ASSUME Complete \/ Fault \/ PowerCycle \/ Recover
    PROVE  mem' \in Outcomes \cup {mem} /\ UNCHANGED <<before, call>>
  <1>1. CASE Complete
    BY <1>1 DEF Complete, Outcomes, driver
  <1>2. CASE Fault
    BY <1>2 DEF Fault, Outcomes, driver
  <1>3. CASE PowerCycle
    BY <1>3 DEF PowerCycle, Outcomes, driver
  <1>4. CASE Recover
    BY <1>4 DEF Recover, Outcomes
  <1> QED
    BY <1>1, <1>2, <1>3, <1>4

\* A step of the device, and a step that leaves the array alone, keep the
\* array one that the call can have left.
LEMMA TouchedStep ==
    ASSUME TypeOK, DoingInv, TouchedInv, [Next]_vars
    PROVE  mem' \in Memory /\ before' \in Memory /\ TouchedInv'
  <1>1. mem \in Memory /\ before \in Memory
    BY DEF TypeOK
  <1>2. CASE Complete \/ Fault \/ PowerCycle \/ Recover
    <2>1. mem' \in Memory /\ Touched(mem', before, call)
      BY <1>1, <1>2, DeviceOutcome, OutcomeTouches DEF TouchedInv
    <2> QED
      BY <1>1, <1>2, <2>1, DeviceOutcome DEF TouchedInv
  <1>3. CASE \E c \in Calls : Begin(c)
    <2>1. PICK c \in Calls : Begin(c)
      BY <1>3
    <2>2. mem' = mem /\ before' = mem /\ call' = c
      BY <2>1 DEF Begin, device
    <2>3. Touched(mem, mem, c)
      BY DEF Touched
    <2> QED
      BY <1>1, <2>2, <2>3 DEF TouchedInv
  <1>4. CASE UNCHANGED <<mem, before, call>>
    BY <1>1, <1>4 DEF TouchedInv
  <1>5. UNCHANGED <<mem, before, call>>
        \/ Complete \/ Fault \/ PowerCycle \/ Recover \/ \E c \in Calls : Begin(c)
    BY Cases, MovesKeep DEF vars, device, driver, WriteEnable, Command, CommandThrows, Read, Reset
  <1> QED
    BY <1>2, <1>3, <1>4, <1>5

\* Which operation is in progress tells which call started it.
LEMMA OperationKinds ==
    ASSUME TypeOK, DoingInv, doing # None
    PROVE  /\ doing.op = "erase"   <=> call.op = "erase"
           /\ doing.op = "program" <=> call.op = "program"
           /\ doing.op = "nvcr"    <=> call.op = "repair"
           /\ call.op = "repair"   => doing = [op |-> "nvcr", value |-> RepairValue]
  <1>1. call.op \in {"erase", "program", "read", "repair"}
    BY CallRange DEF TypeOK
  <1>2. CASE call.op = "program"
    BY <1>2 DEF DoingInv, ChunkOf
  <1>3. CASE call.op = "erase"
    BY <1>3 DEF DoingInv
  <1>4. CASE call.op = "repair"
    <2>1. doing = [op |-> "nvcr", value |-> RepairValue]
      BY <1>4 DEF DoingInv
    <2>2. doing.op = "nvcr"
      BY <2>1
    <2> QED
      BY <1>4, <2>1, <2>2
  <1>5. CASE call.op = "read"
    BY <1>5 DEF DoingInv
  <1> QED
    BY <1>1, <1>2, <1>3, <1>4, <1>5

\* What the variables of device and driver range over.
LEMMA TypeStep ==
    ASSUME SpiNorInv, [Next]_vars
    PROVE  TypeOK'
  <1> USE DEF SpiNorInv, TypeOK
  <1>1. mem' \in Memory /\ before' \in Memory
    BY TouchedStep
  <1>2. CASE UNCHANGED vars
    BY <1>1, <1>2 DEF vars, device, driver
  <1>3. CASE Moves
    <2>1. pc' \in {"closed", "id", "recover", "idle"} \cup Calling
      BY <1>3 DEF Moves, Kill, Open, ReadId, TransferThrows, ProgramLoop, CheckEnabled,
                  WaitReady, Ready, ReadNvcr, VerifyNvcr, ReReadId, Throw, Return, Calling
    <2> QED
      BY <1>1, <1>3, <2>1, MovesKeep
  <1>4. CASE Complete
    <2>1. safe' \in SUBSET NvcrBits
      <3>1. CASE doing.op = "nvcr"
        <4>1. doing = [op |-> "nvcr", value |-> RepairValue]
          BY <1>4, <3>1, OperationKinds DEF Complete
        <4> QED
          BY <1>4, <3>1, <4>1 DEF Complete, RepairValue, NvcrBits
      <3>2. CASE doing.op # "nvcr"
        BY <1>4, <3>2 DEF Complete
      <3> QED
        BY <3>1, <3>2
    <2> QED
      BY <1>1, <1>4, <2>1 DEF Complete, driver
  <1>5. CASE Fault
    BY <1>1, <1>5 DEF Fault, driver
  <1>6. CASE PowerCycle
    BY <1>1, <1>6 DEF PowerCycle, driver, Modes
  <1>7. CASE Recover
    BY <1>1, <1>7 DEF Recover, Modes
  <1>8. CASE \E c \in Calls : Begin(c)
    BY <1>1, <1>8, CallRange DEF Begin, device, Calling
  <1>9. CASE WriteEnable
    BY <1>1, <1>9 DEF WriteEnable, driver, Calling, Listening
  <1>10. CASE Command
    <2>1. next' \in Nat
      <3>1. CASE call.op = "program"
        BY <1>10, <3>1, ChunkFits, CallRange DEF Command, CallInv, Calling
      <3>2. CASE call.op # "program"
        BY <1>10, <3>2 DEF Command
      <3> QED
        BY <3>1, <3>2
    <2> QED
      BY <1>1, <1>10, <2>1 DEF Command, Calling
  <1>11. CASE CommandThrows
    BY <1>1, <1>11 DEF CommandThrows, Throw, driver
  <1>12. CASE Read
    <2>1. next' \in Nat
      BY <1>12, CallRange, MaxDataAssumption DEF Read, ReadEnd
    <2> QED
      BY <1>1, <1>12, <2>1 DEF Read, Return, device
  <1>13. CASE Reset
    BY <1>1, <1>13 DEF Reset, driver, Calling
  <1> QED
    BY Cases, <1>2, <1>3, <1>4, <1>5, <1>6, <1>7, <1>8, <1>9, <1>10, <1>11, <1>12, <1>13

\* The operation in progress stays one of the call: it starts with a command
\* of that call, and a new call begins on an idle device.
LEMMA DoingStep ==
    ASSUME SpiNorInv, [Next]_vars
    PROVE  DoingInv'
  <1> USE DEF SpiNorInv
  <1>1. call \in Calls /\ call.op \in {"erase", "program", "read", "repair"}
    BY CallRange DEF TypeOK
  <1>2. CASE UNCHANGED <<doing, call, safe>>
    <2>1. RepairValue' = RepairValue
      BY <1>2 DEF RepairValue
    <2> QED
      BY <1>2, <2>1 DEF DoingInv
  <1>3. CASE doing' = None
    BY <1>3 DEF DoingInv
  <1>4. CASE Command \/ CommandThrows
    <2>1. UNCHANGED <<call, safe>> /\ pc = "command"
      BY <1>4 DEF Command, CommandThrows, driver
    <2>2. call.op # "read"
      BY <2>1 DEF CallInv
    <2>3. CASE call.op = "erase"
      BY <1>4, <2>1, <2>3, <1>2 DEF Command, CommandThrows, Accept, Operation, DoingInv
    <2>4. CASE call.op = "repair"
      <3>1. doing' = doing \/ doing' = [op |-> "nvcr", value |-> RepairValue]
        BY <1>4, <2>4 DEF Command, CommandThrows, Accept, Operation
      <3>3. CASE doing' = doing
        BY <2>1, <3>3, <1>2
      <3>4. CASE doing' = [op |-> "nvcr", value |-> RepairValue]
        BY <2>1, <2>4, <3>4 DEF DoingInv, RepairValue
      <3> QED
        BY <3>1, <3>3, <3>4
    <2>5. CASE call.op = "program"
      <3>1. next \in call.at .. End(call) /\ next \in Nat
        BY <2>1, <2>5 DEF CallInv, Calling, TypeOK
      <3>2. ChunkEnd \in next .. End(call) /\ InOnePage(next, ChunkEnd)
        BY <1>1, <3>1, ChunkFits
      <3>3. doing' = doing \/ \E to \in next .. ChunkEnd : doing' = Operation(to)
        BY <1>4, <2>5, <3>1, <3>2, <1>1, CallRange DEF Command, CommandThrows, Accept
      <3>4. ASSUME NEW to \in next .. ChunkEnd, doing' = Operation(to)
            PROVE  DoingInv'
        <4>1. to \in call.at .. End(call)
          BY <1>1, <3>1, <3>2, CallRange
        <4>2. InOnePage(next, to)
          <5> DEFINE page == (next \div PageSize + 1) * PageSize
          <5>1. page \in Nat
            <6> DEFINE q == next \div PageSize
            <6>1. q \in Nat /\ PageSize \in Nat
              BY <3>1, Geometry, QuotientRemainder
            <6> HIDE DEF q
            <6>2. (q + 1) * PageSize \in Nat
              BY <6>1
            <6> QED
              BY <6>2 DEF q
          <5>2. ChunkEnd <= page
            BY <3>2 DEF InOnePage
          <5> HIDE DEF page
          <5>3. to <= page
            BY <5>1, <5>2, <3>1, <3>2, <1>1, CallRange
          <5> QED
            BY <5>3 DEF page, InOnePage
        <4>3. Operation(to) = ChunkOf(call, next, to)
          BY <2>5 DEF Operation, Chunk, ChunkOf
        <4> QED
          BY <2>1, <2>5, <3>1, <3>4, <4>1, <4>2, <4>3 DEF DoingInv, End, ChunkOf, Within
      <3> QED
        BY <2>1, <3>3, <3>4, <1>2
    <2> QED
      BY <1>1, <2>2, <2>3, <2>4, <2>5
  <1>5. ASSUME NEW c \in Calls, Begin(c)
        PROVE  doing' = None
    BY <1>5 DEF Begin, device, QuietInv
  <1>6. \/ UNCHANGED <<doing, call, safe>> \/ doing' = None
        \/ Command \/ CommandThrows \/ \E c \in Calls : Begin(c)
    BY Cases, MovesKeep DEF vars, device, driver, WriteEnable, Read, Reset, Complete, Fault,
       PowerCycle, Recover
  <1> QED
    BY <1>2, <1>3, <1>4, <1>5, <1>6

\* A call starts on a listening device, and the wait after its command ends
\* on one, or throws.
LEMMA QuietStep ==
    ASSUME SpiNorInv, [Next]_vars
    PROVE  QuietInv'
  <1> USE DEF SpiNorInv, QuietInv
  <1>1. CASE UNCHANGED vars
    BY <1>1 DEF vars, device, driver
  <1>2. CASE Moves
    BY <1>2, MovesKeep DEF Moves, Kill, Open, ReadId, TransferThrows, ProgramLoop, CheckEnabled,
                  WaitReady, Ready, ReadNvcr, VerifyNvcr, ReReadId, Throw, Return, Calling,
                  Listening, Transfer
  <1>3. CASE Complete
    BY <1>3 DEF Complete, driver
  <1>4. CASE Fault
    BY <1>4 DEF Fault, driver
  <1>5. CASE PowerCycle
    BY <1>5 DEF PowerCycle
  <1>6. CASE Recover
    BY <1>6 DEF Recover
  <1>7. CASE \E c \in Calls : Begin(c)
    BY <1>7, CallRange DEF Begin, device
  <1>8. CASE WriteEnable
    BY <1>8 DEF WriteEnable, driver
  <1>9. CASE Command
    BY <1>9 DEF Command
  <1>10. CASE CommandThrows
    <2>1. pc' = "closed" /\ pc = "command"
      BY <1>10 DEF CommandThrows, Throw
    <2> QED
      BY <1>10, <2>1 DEF CommandThrows
  <1>11. CASE Read
    BY <1>11 DEF Read, Return, device
  <1>12. CASE Reset
    BY <1>12 DEF Reset, driver
  <1> QED
    BY Cases, <1>1, <1>2, <1>3, <1>4, <1>5, <1>6, <1>7, <1>8, <1>9, <1>10, <1>11, <1>12

\* A program and a read go on from where they are and stay within the data.
LEMMA CallStep ==
    ASSUME SpiNorInv, [Next]_vars
    PROVE  CallInv'
  <1> USE DEF SpiNorInv
  <1>1. call \in Calls /\ call.op \in {"erase", "program", "read", "repair"}
    BY CallRange DEF TypeOK
  <1>2. call.at \in Nat /\ End(call) \in Nat /\ call.at <= End(call)
    BY <1>1, CallRange
  <1>3. CASE UNCHANGED vars
    BY <1>3 DEF vars, device, driver, CallInv
  <1>4. CASE pc' \in {"closed", "id", "recover", "idle"}
    BY <1>4 DEF CallInv, Calling
  <1>5. CASE Moves
    <2>1. UNCHANGED <<mem, safe, call, next, got>>
      BY <1>5, MovesKeep
    <2>2. \/ pc' \in {"closed", "id", "recover", "idle"}
          \/ pc = "program" /\ pc' = "enable"
          \/ pc = "enabled" /\ pc' = "command"
          \/ pc = "wait" /\ pc' = "program" /\ call.op = "program"
          \/ pc = "wait" /\ pc' = "verify" /\ call.op = "repair"
          \/ pc = "nvcr" /\ pc' = "enable"
          \/ pc \in {"nvcr", "verify"} /\ pc' = "reset" /\ "boot" \in safe
      BY <1>5 DEF Moves, Kill, Open, ReadId, TransferThrows, ProgramLoop, CheckEnabled,
                  WaitReady, Ready, ReadNvcr, VerifyNvcr, ReReadId, Throw, Return
    <2> QED
      BY <2>1, <2>2, <1>4 DEF CallInv, Calling
  <1>6. CASE Complete \/ Fault
    <2>1. UNCHANGED <<pc, call, next, got>>
      BY <1>6 DEF Complete, Fault, driver
    <2>2. pc \notin {"read", "reset", "reread"}
      BY <1>6 DEF Complete, Fault, QuietInv
    <2> QED
      BY <2>1, <2>2 DEF CallInv
  <1>7. CASE PowerCycle \/ Recover \/ CommandThrows
    BY <1>4, <1>7 DEF PowerCycle, Recover, CommandThrows, Throw
  <1>8. ASSUME NEW c \in Calls, Begin(c)
        PROVE  CallInv'
    <2>1. /\ call' = c /\ next' = c.at /\ got' = Nothing
          /\ c.op \in {"erase", "program", "read", "repair"}
          /\ c.at \in Nat /\ End(c) \in Nat /\ c.at <= End(c)
      BY <1>8, CallRange DEF Begin
    <2>2. pc' = CASE c.op = "read"    -> "read"
                  [] c.op = "repair"  -> "nvcr"
                  [] c.op = "program" -> "program"
                  [] c.op = "erase"   -> "enable"
      BY <1>8 DEF Begin
    <2>3. c.op \in {"program", "read"} => End(c) <= Capacity
      <3>1. Cardinality(DOMAIN c.data) \in Nat /\ Capacity \in Nat
        BY CallsAssumption, FS_CardinalityType, Geometry
      <3> QED
        BY <1>8, <2>1, <3>1 DEF Begin, Refused, End
    <2>4. Nothing = [a \in Within(c.at, c.at) |-> mem'[a]]
      <3>1. Within(c.at, c.at) = {}
        BY <2>1, Geometry DEF Within
      <3> QED
        BY <3>1 DEF Nothing
    <2> QED
      BY <2>1, <2>2, <2>3, <2>4 DEF CallInv
  <1>9. CASE WriteEnable
    BY <1>9 DEF WriteEnable, driver, CallInv, Calling
  <1>10. CASE Command
    <2>1. call.op # "read" /\ pc = "command" /\ pc' = "wait" /\ call' = call
      BY <1>10 DEF Command, CallInv
    <2>2. call.op = "program" => next' \in call.at .. End(call)
      BY <1>10, <1>1, <1>2, <2>1, ChunkFits DEF Command, CallInv, Calling
    <2> QED
      BY <2>1, <2>2 DEF CallInv, Calling
  <1>11. CASE Read /\ next < End(call)
    <2>1. pc = "read" /\ pc' = "read" /\ call.op = "read" /\ UNCHANGED <<call, mem>>
      BY <1>11 DEF Read, CallInv, device
    <2>2. next \in call.at .. End(call) /\ End(call) <= Capacity
      BY <2>1 DEF CallInv, Calling
    <2>3. ReadEnd \in next .. End(call)
      BY <1>2, <2>2, <1>11, MaxDataAssumption DEF ReadEnd
    <2>4. next' = ReadEnd /\ next' \in call.at .. End(call)
      BY <1>2, <1>11, <2>2, <2>3 DEF Read
    <2>5. Within(call.at, next) \cup Within(next, ReadEnd) = Within(call.at, ReadEnd)
      BY <1>2, <2>2, <2>3, Geometry DEF Within
    <2>6. got = [a \in Within(call.at, next) |-> mem[a]]
      BY <2>1 DEF CallInv
    <2>7. got' = [a \in Within(call.at, ReadEnd) |-> mem[a]]
      BY <1>11, <2>5, <2>6 DEF Read
    <2> QED
      BY <2>1, <2>2, <2>4, <2>7 DEF CallInv
  <1>12. CASE Read /\ ~(next < End(call))
    BY <1>4, <1>12 DEF Read, Return
  <1>13. CASE Reset
    BY <1>13 DEF Reset, driver, CallInv, Calling
  <1> QED
    BY Cases, <1>3, <1>5, <1>6, <1>7, <1>8, <1>9, <1>10, <1>11, <1>12, <1>13

\* A device that reports its failures and ends its operation has done it: the
\* erase of the sector, or one more chunk of the program.
LEMMA CompleteDone ==
    ASSUME SpiNorInv, Complete, reports, pc = "wait"
    PROVE  /\ call.op = "program" => Upto(next)'
           /\ call.op = "erase"   => \A a \in SectorCells(SectorOf(call.at)) : mem'[a] = Erased
  <1> USE DEF SpiNorInv
  <1>1. /\ call \in Calls /\ mem \in Memory
        /\ doing # None /\ ~err /\ UNCHANGED <<call, next, before>>
    BY DEF Complete, TypeOK, driver
  <1>2. CASE call.op = "erase"
    <2>1. doing.op = "erase" /\ doing.at = call.at
      BY <1>1, <1>2 DEF DoingInv
    <2>2. mem' = ErasedAt(mem, SectorOf(call.at))
      BY <2>1 DEF Complete
    <2> QED
      BY <1>2, <2>2 DEF ErasedAt, SectorCells
  <1>3. CASE call.op = "program"
    <2>1. PICK i \in call.at .. next :
               InOnePage(i, next) /\ doing = ChunkOf(call, i, next) /\ Upto(i)
      BY <1>1, <1>3 DEF DoneInv
    <2>2. next \in call.at .. End(call)
      BY <1>3 DEF CallInv, Calling
    <2>3. call.at \in Nat /\ End(call) \in Nat /\ DOMAIN call.data = call.at .. End(call) - 1
      BY <1>1, CallRange
    <2>4. i \in call.at .. End(call)
      BY <2>1, <2>2, <2>3
    <2> DEFINE data == ChunkOf(call, i, next).data
    <2>5. Landed(doing.at, doing.data) = data
      BY <1>1, <2>1, <2>2, <2>4, ChunkLands DEF ChunkOf
    <2>6. mem' = Programmed(mem, data)
      <3>1. doing.op = "program"
        BY <2>1 DEF ChunkOf
      <3> QED
        BY <2>5, <3>1 DEF Complete
    <2>7. /\ DOMAIN data = Within(i, next)
          /\ \A a \in Within(i, next) : data[a] = call.data[a]
      BY <1>1, <2>2, <2>4, ChunkData
    <2> HIDE DEF data
    <2>8. ASSUME NEW a \in Addr
          PROVE  mem'[a] = IF a \in DOMAIN call.data /\ a < next
                           THEN before[a] \cup call.data[a] ELSE before[a]
      <3>1. mem[a] = IF a \in DOMAIN call.data /\ a < i
                     THEN before[a] \cup call.data[a] ELSE before[a]
        BY <2>1 DEF Upto
      <3>2. mem'[a] = IF a \in Within(i, next) THEN mem[a] \cup call.data[a] ELSE mem[a]
        BY <2>6, <2>7 DEF Programmed
      <3>3. a \in Nat
        BY Geometry
      <3>4. a \in Within(i, next) <=> i <= a /\ a < next
        BY DEF Within
      <3>5. i \in Nat /\ next \in Nat /\ call.at <= i /\ i <= next /\ next <= End(call)
        BY <2>1, <2>2, <2>3
      <3>6. CASE a \in Within(i, next)
        <4>1. ~(a < i) /\ a < next /\ a \in DOMAIN call.data
          BY <2>3, <3>3, <3>4, <3>5, <3>6
        <4> QED
          BY <3>1, <3>2, <3>6, <4>1
      <3>7. CASE a \notin Within(i, next)
        <4>1. a < i <=> a < next
          BY <3>3, <3>4, <3>5, <3>7
        <4> QED
          BY <3>1, <3>2, <3>7, <4>1
      <3> QED
        BY <3>6, <3>7
    <2> QED
      BY <1>1, <1>3, <2>8 DEF Upto
  <1> QED
    BY <1>2, <1>3, <1>1

\* What the call is past is done and stays done: a command that the device
\* dropped, or an operation that failed, is noticed and ends the call.
LEMMA DoneStep ==
    ASSUME SpiNorInv, [Next]_vars
    PROVE  DoneInv'
  <1> USE DEF SpiNorInv
  <1>1. CASE UNCHANGED vars
    <2>1. UNCHANGED <<mem, wel, doing, err, reports, pc, call, next, before>>
      BY <1>1 DEF vars, device, driver
    <2> QED
      BY <2>1 DEF DoneInv, Upto
  <1>2. CASE pc' \notin {"program", "enable", "enabled", "command", "wait"}
    BY <1>2 DEF DoneInv
  <1>3. CASE Moves
    <2>1. UNCHANGED <<mem, wel, doing, err, reports, call, next, before>>
      BY <1>3, MovesKeep
    <2>2. Upto(next)' <=> Upto(next)
      BY <2>1 DEF Upto
    <2>3. \/ pc' \notin {"program", "enable", "enabled", "command", "wait"}
          \/ pc = "program" /\ pc' = "enable"
          \/ pc = "enabled" /\ pc' = "command"
          \/ pc = "wait" /\ pc' = "program" /\ ~err /\ doing = None /\ ~wel
          \/ pc = "nvcr" /\ pc' = "enable"
      BY <1>3 DEF Moves, Kill, Open, ReadId, TransferThrows, ProgramLoop, CheckEnabled,
                  WaitReady, Ready, ReadNvcr, VerifyNvcr, ReReadId, Throw, Return
    <2>4. CASE pc = "nvcr" /\ pc' = "enable"
      BY <2>1, <2>4 DEF CallInv, DoneInv
    <2>5. CASE pc = "wait" /\ pc' = "program" /\ ~err /\ doing = None /\ ~wel
      BY <2>1, <2>2, <2>5 DEF DoneInv
    <2> QED
      BY <1>2, <2>1, <2>2, <2>3, <2>4, <2>5 DEF DoneInv
  <1>4. CASE Complete
    <2>1. doing' = None /\ UNCHANGED <<reports, pc, call, next, err>>
      BY <1>4 DEF Complete, driver
    <2>2. pc \notin {"program", "enable", "enabled", "command"}
      BY <1>4 DEF Complete, QuietInv
    <2> QED
      BY <1>4, <2>1, <2>2, CompleteDone DEF DoneInv
  <1>5. CASE Fault
    <2>1. UNCHANGED <<reports, pc>> /\ (reports => err')
      BY <1>5 DEF Fault
    <2>2. pc \notin {"program", "enable", "enabled", "command"}
      BY <1>5 DEF Fault, QuietInv
    <2> QED
      BY <2>1, <2>2 DEF DoneInv
  <1>6. CASE PowerCycle \/ Recover \/ CommandThrows
    BY <1>2, <1>6 DEF PowerCycle, Recover, CommandThrows, Throw
  <1>7. ASSUME NEW c \in Calls, Begin(c)
        PROVE  DoneInv'
    <2>1. mem' = mem /\ before' = mem /\ call' = c /\ next' = c.at
      BY <1>7 DEF Begin, device
    <2>2. pc' # "wait" /\ pc' # "enabled" /\ pc' # "command"
      BY <1>7, CallRange DEF Begin
    <2>3. Upto(next)'
      <3>1. ASSUME NEW a \in Addr
            PROVE  ~(a \in DOMAIN c.data /\ a < c.at)
        BY CallRange, Geometry
      <3> QED
        BY <2>1, <3>1 DEF Upto
    <2> QED
      BY <2>2, <2>3 DEF DoneInv
  <1>8. CASE WriteEnable
    <2>1. /\ pc = "enable" /\ pc' = "enabled"
          /\ UNCHANGED <<mem, reports, call, next, before>>
      BY <1>8 DEF WriteEnable, driver
    <2>2. Upto(next)' <=> Upto(next)
      BY <2>1 DEF Upto
    <2> QED
      BY <2>1, <2>2 DEF DoneInv
  <1>9. CASE Command
    <2>1. /\ pc = "command" /\ pc' = "wait" /\ wel /\ doing = None
          /\ UNCHANGED <<mem, wel, reports, call, before>>
      BY <1>9 DEF Command, QuietInv
    <2>2. CASE reports /\ call.op = "program" /\ doing' # None
      <3>1. next \in call.at .. End(call) /\ call \in Calls
        BY <2>1, <2>2 DEF CallInv, Calling, TypeOK
      <3>2. ChunkEnd \in next .. End(call) /\ InOnePage(next, ChunkEnd)
        BY <3>1, ChunkFits
      <3>3. next' = ChunkEnd /\ doing' = ChunkOf(call, next, ChunkEnd)
        BY <1>9, <2>1, <2>2 DEF Command, Accept, Operation, Chunk, ChunkOf
      <3>4. Upto(next)
        BY <2>1, <2>2 DEF DoneInv
      <3>5. PICK n : n = next
        OBVIOUS
      <3>6. n \in call'.at .. next'
        BY <2>1, <3>1, <3>2, <3>3, <3>5, CallRange
      <3>7. Upto(n)'
        BY <2>1, <3>4, <3>5 DEF Upto
      <3>8. InOnePage(n, next') /\ doing' = ChunkOf(call', n, next')
        BY <2>1, <3>2, <3>3, <3>5
      <3> QED
        BY <2>1, <3>6, <3>7, <3>8 DEF DoneInv
    <2> QED
      BY <2>1, <2>2 DEF DoneInv
  <1>10. CASE Read
    <2>1. pc' \in {"read", "idle"}
      BY <1>10 DEF Read, Return
    <2> QED
      BY <1>2, <2>1
  <1>11. CASE Reset
    BY <1>2, <1>11 DEF Reset
  <1> QED
    BY Cases, <1>1, <1>3, <1>4, <1>5, <1>6, <1>7, <1>8, <1>9, <1>10, <1>11

-----------------------------------------------------------------------------
(* The theorems. *)

\* Initially.
LEMMA InitInv == Init => SpiNorInv
  <1> SUFFICES ASSUME Init
               PROVE  SpiNorInv
    OBVIOUS
  <1>1. TypeOK
    BY DEF Init, TypeOK, Calling
  <1>2. DoingInv /\ QuietInv /\ CallInv /\ DoneInv
    BY DEF Init, DoingInv, QuietInv, CallInv, DoneInv, Calling
  <1>3. TouchedInv
    BY DEF Init, TouchedInv, Touched
  <1> QED
    BY <1>1, <1>2, <1>3 DEF SpiNorInv

\* The inductive invariant: the operation in progress is the call's, a call
\* begins on an idle device, and the array is what the call can have made of
\* it or, if the device reports its failures, what it has made of it.
THEOREM SpiNorInvariant == Spec => []SpiNorInv
  <1>1. Init => SpiNorInv
    BY InitInv
  <1>2. SpiNorInv /\ [Next]_vars => SpiNorInv'
    <2> SUFFICES ASSUME SpiNorInv, [Next]_vars
                 PROVE  SpiNorInv'
      OBVIOUS
    <2>1. TouchedInv'
      BY TouchedStep DEF SpiNorInv
    <2> QED
      BY <2>1, TypeStep, DoingStep, QuietStep, CallStep, DoneStep DEF SpiNorInv
  <1> QED
    BY <1>1, <1>2, PTL DEF Spec

\* A session starts, and every call begins, on a device that is idle and
\* listening, whatever the process before left behind: the constructor and
\* waitReady.
THEOREM SessionsStartIdle == Spec => []OpenMeansIdle
  <1>1. SpiNorInv => OpenMeansIdle
    BY DEF SpiNorInv, QuietInv, OpenMeansIdle
  <1> QED
    BY <1>1, SpiNorInvariant, PTL

\* read returns the array, every cell of its range, from however many
\* transfers.
THEOREM ReadsAreExact == Spec => ReadIsExact
  <1>1. ASSUME SpiNorInv, [Next]_vars, pc = "read", pc' = "idle"
        PROVE  got = [a \in DOMAIN call.data |-> mem[a]]
    <2>1. call \in Calls /\ call.op = "read"
      BY <1>1 DEF SpiNorInv, TypeOK, CallInv
    <2>2. Read
      <3>1. CASE UNCHANGED vars
        BY <1>1, <3>1 DEF vars
      <3>2. CASE Moves
        BY <1>1, <3>2 DEF Moves, Kill, Open, ReadId, TransferThrows, ProgramLoop, CheckEnabled,
                  WaitReady, ReadNvcr, VerifyNvcr, ReReadId, Throw
      <3> QED
        BY <1>1, <3>1, <3>2, Cases DEF Complete, Fault, PowerCycle, Recover, Begin, WriteEnable,
                  Command, CommandThrows, Reset, Throw
    <2>3. ~(next < End(call))
      BY <1>1, <2>2 DEF Read
    <2>4. /\ End(call) <= Capacity /\ next \in call.at .. End(call)
          /\ got = [a \in Within(call.at, next) |-> mem[a]]
      BY <1>1, <2>1 DEF SpiNorInv, CallInv, Calling
    <2>5. /\ call.at \in Nat /\ End(call) \in Nat
          /\ DOMAIN call.data = call.at .. End(call) - 1
      BY <2>1, CallRange
    <2>6. next = End(call)
      BY <2>3, <2>4, <2>5
    <2>7. Within(call.at, next) = DOMAIN call.data
      BY <2>4, <2>5, <2>6, Geometry DEF Within
    <2> QED
      BY <2>4, <2>7
  <1>2. SpiNorInv /\ [Next]_vars
            => [pc = "read" /\ pc' = "idle" => got = [a \in DOMAIN call.data |-> mem[a]]]_vars
    BY <1>1
  <1> QED
    BY <1>2, SpiNorInvariant, PTL DEF Spec, ReadIsExact

-----------------------------------------------------------------------------
(* The refinement. *)

\* NorApi speaks of the same flash.
LEMMA SameFlash ==
    /\ Api!Memory = Memory /\ Api!NvcrBits = NvcrBits
    /\ \A a : Api!SectorOf(a) = SectorOf(a)
    /\ \A m, s : Api!ErasedAt(m, s) = ErasedAt(m, s)
    /\ \A m, s : Api!PartlyErased(m, s) = PartlyErased(m, s)
    /\ \A m, data : Api!Programmed(m, data) = Programmed(m, data)
    /\ \A m, data : Api!PartlyProgrammed(m, data) = PartlyProgrammed(m, data)
  <1>1. Api!Addr = Addr /\ Api!Value = Value
    BY DEF Api!Addr, Addr, Api!Capacity, Capacity, Api!Value, Value
  <1>2. \A a : Api!SectorOf(a) = SectorOf(a)
    BY DEF Api!SectorOf, SectorOf
  <1>3. \A s : Api!SectorCells(s) = SectorCells(s)
    BY <1>1, <1>2 DEF Api!SectorCells, SectorCells
  <1>4. \A m, s, cells : Api!WithSector(m, s, cells) = WithSector(m, s, cells)
    BY <1>1, <1>2 DEF Api!WithSector, WithSector
  <1>5. \A m, s : Api!PartlyErased(m, s) = PartlyErased(m, s)
    BY <1>1, <1>3, <1>4 DEF Api!PartlyErased, PartlyErased
  <1>6. \A m, data : Api!Programmed(m, data) = Programmed(m, data)
    BY <1>1 DEF Api!Programmed, Programmed
  <1>7. \A m, data : Api!PartlyProgrammed(m, data) = PartlyProgrammed(m, data)
    BY <1>1, <1>6 DEF Api!PartlyProgrammed, PartlyProgrammed
  <1>8. \A m, s : Api!ErasedAt(m, s) = ErasedAt(m, s)
    BY <1>1, <1>2 DEF Api!ErasedAt, ErasedAt, Api!Erased, Erased
  <1> QED
    BY <1>1, <1>2, <1>5, <1>6, <1>7, <1>8 DEF Api!Memory, Memory, Api!NvcrBits, NvcrBits

\* What a call can have done to the array is what NorApi lets it do.
LEMMA TouchedIsPartlyDone ==
    ASSUME NEW m \in Memory, NEW b \in Memory, NEW c \in Calls, Touched(m, b, c)
    PROVE  m \in Api!PartlyDone(b, c)
  <1>1. CASE c.op = "erase"
    <2> DEFINE s == SectorOf(c.at)
    <2>1. \A a \in Addr : SectorOf(a) # s => m[a] = b[a]
      BY <1>1 DEF Touched
    <2> HIDE DEF s
    <2> DEFINE cells == [a \in SectorCells(s) |-> m[a]]
    <2>2. cells \in [SectorCells(s) -> Value]
      BY DEF SectorCells, Memory
    <2>3. m = WithSector(b, s, cells)
      BY <2>1 DEF WithSector, SectorCells, Memory
    <2>4. m \in PartlyErased(b, s)
      BY <2>2, <2>3 DEF PartlyErased
    <2> QED
      BY <1>1, <2>4, SameFlash DEF Api!PartlyDone, s
  <1>2. CASE c.op = "program"
    <2>1. \A a \in DOMAIN c.data : c.data[a] \in Value
      BY CallRange
    <2> DEFINE part == [a \in DOMAIN c.data |->
                          IF a \in Addr THEN c.data[a] \cap m[a] ELSE {}]
    <2>2. part \in [DOMAIN c.data -> Value] /\ \A a \in DOMAIN c.data : part[a] \subseteq c.data[a]
      BY <2>1 DEF Value
    <2>3. ASSUME NEW a \in Addr
          PROVE  m[a] = IF a \in DOMAIN part THEN b[a] \cup part[a] ELSE b[a]
      <3>1. /\ b[a] \subseteq m[a]
            /\ m[a] \subseteq b[a] \cup (IF a \in DOMAIN c.data THEN c.data[a] ELSE {})
        BY <1>2 DEF Touched
      <3>2. CASE a \in DOMAIN c.data
        <4>1. part[a] = c.data[a] \cap m[a]
          BY <3>2
        <4> QED
          BY <3>1, <3>2, <4>1
      <3>3. CASE a \notin DOMAIN c.data
        BY <3>1, <3>3
      <3> QED
        BY <3>2, <3>3
    <2> HIDE DEF part
    <2>4. m = Programmed(b, part)
      BY <2>3 DEF Programmed, Memory
    <2>5. m \in PartlyProgrammed(b, c.data)
      BY <2>2, <2>4 DEF PartlyProgrammed
    <2> QED
      BY <1>2, <2>5, SameFlash DEF Api!PartlyDone
  <1>3. CASE c.op \notin {"erase", "program"}
    BY <1>3 DEF Api!PartlyDone, Touched
  <1> QED
    BY <1>1, <1>2, <1>3

\* A call that returns is done, if the device reports its failures.
LEMMA ReturnIsDone ==
    ASSUME SpiNorInv, [Next]_vars, Session = "busy", pc' = "idle", reports
    PROVE  mem = Api!Done(before, call)
  <1> USE DEF SpiNorInv
  <1>1. /\ call \in Calls /\ mem \in Memory /\ before \in Memory
        /\ call.op \in {"erase", "program", "read", "repair"}
        /\ call.at \in Nat /\ End(call) \in Nat
        /\ DOMAIN call.data = call.at .. End(call) - 1
    BY CallRange DEF TypeOK
  <1>2. CASE call.op \in {"read", "repair"}
    BY <1>2 DEF TouchedInv, Touched, Api!Done
  <1>3. pc \in Calling
    BY DEF Session, TypeOK, Calling
  <1>4. CASE call.op = "program"
    <2>1. ProgramLoop /\ ~(next < End(call))
      <3>1. CASE Moves
        BY <1>3, <1>4, <3>1 DEF Moves, Kill, Open, ReadId, TransferThrows, ProgramLoop, CheckEnabled,
                  WaitReady, Ready, ReadNvcr, VerifyNvcr, ReReadId, Throw, Calling, CallInv
      <3>2. ~Read
        BY <1>4 DEF Read, CallInv
      <3> QED
        BY <1>3, <3>1, <3>2, Cases DEF vars, driver, Complete, Fault, PowerCycle, Recover, Begin,
                  WriteEnable, Command, CommandThrows, Reset, Throw, Calling
    <2>2. pc = "program"
      BY <2>1 DEF ProgramLoop
    <2>3. Upto(next) /\ next = End(call)
      BY <1>1, <1>4, <2>1, <2>2 DEF DoneInv, CallInv, Calling
    <2>4. ASSUME NEW a \in Addr
          PROVE  mem[a] = IF a \in DOMAIN call.data THEN before[a] \cup call.data[a] ELSE before[a]
      <3>1. a \in DOMAIN call.data => a < next
        BY <1>1, <2>3, Geometry
      <3> QED
        BY <2>3, <3>1 DEF Upto
    <2>5. mem = Programmed(before, call.data)
      BY <1>1, <2>4 DEF Programmed, Memory
    <2> QED
      BY <1>4, <2>5, SameFlash DEF Api!Done
  <1>5. CASE call.op = "erase"
    <2>1. WaitReady /\ ~err /\ doing = None /\ ~wel
      <3>1. CASE Moves
        BY <1>3, <1>5, <3>1 DEF Moves, Kill, Open, ReadId, TransferThrows, ProgramLoop, CheckEnabled,
                  WaitReady, Ready, ReadNvcr, VerifyNvcr, ReReadId, Throw, Calling, CallInv
      <3>2. ~Read
        BY <1>5 DEF Read, CallInv
      <3> QED
        BY <1>3, <3>1, <3>2, Cases DEF vars, driver, Complete, Fault, PowerCycle, Recover, Begin,
                  WriteEnable, Command, CommandThrows, Reset, Throw, Calling
    <2>2. \A a \in SectorCells(SectorOf(call.at)) : mem[a] = Erased
      BY <1>5, <2>1 DEF WaitReady, DoneInv
    <2>3. \A a \in Addr : SectorOf(a) # SectorOf(call.at) => mem[a] = before[a]
      BY <1>5 DEF TouchedInv, Touched
    <2>4. mem = ErasedAt(before, SectorOf(call.at))
      BY <1>1, <2>2, <2>3 DEF ErasedAt, SectorCells, Memory
    <2> QED
      BY <1>5, <2>4, SameFlash DEF Api!Done
  <1> QED
    BY <1>1, <1>2, <1>4, <1>5

\* Only a repair sets a bit of the configuration register, and it has the bit
\* when it returns.
LEMMA RepairOnly ==
    ASSUME SpiNorInv, [Next]_vars
    PROVE  /\ safe' # safe => Complete /\ safe' = Api!Repaired(safe, call)
           /\ Session = "busy" /\ pc' = "idle" => safe = Api!Repaired(safe, call)
  <1> USE DEF SpiNorInv
  <1>1. ASSUME safe' # safe
        PROVE  Complete /\ safe' = Api!Repaired(safe, call)
    <2>1. Complete /\ doing # None /\ doing.op = "nvcr" /\ safe' = doing.value
      BY <1>1, Cases, MovesKeep DEF vars, device, driver, Complete, Fault, PowerCycle, Recover,
         Begin, WriteEnable, Command, CommandThrows, Read, Reset
    <2>2. call.op = "repair" /\ doing = [op |-> "nvcr", value |-> RepairValue]
      BY <2>1, OperationKinds
    <2> QED
      BY <2>1, <2>2 DEF RepairValue, Api!Repaired
  <1>2. ASSUME Session = "busy", pc' = "idle", call.op = "repair"
        PROVE  "boot" \in safe
    <2>1. pc \in Calling
      BY <1>2 DEF Session, TypeOK, Calling
    <2>2. pc = "reread"
      <3>1. CASE Moves
        BY <1>2, <2>1, <3>1 DEF Moves, Kill, Open, ReadId, TransferThrows, ProgramLoop, CheckEnabled,
                  WaitReady, Ready, ReadNvcr, VerifyNvcr, ReReadId, Throw, Calling, CallInv
      <3>2. ~Read
        BY <1>2 DEF Read, CallInv
      <3> QED
        BY <1>2, <2>1, <3>1, <3>2, Cases DEF vars, driver, Complete, Fault, PowerCycle, Recover,
                  Begin, WriteEnable, Command, CommandThrows, Reset, Throw, Calling
    <2> QED
      BY <2>2 DEF CallInv
  <1>3. Session = "busy" /\ pc' = "idle" => safe = Api!Repaired(safe, call)
    <2>1. CASE call.op = "repair"
      BY <1>2, <2>1 DEF Api!Repaired
    <2>2. CASE call.op # "repair"
      BY <2>2 DEF Api!Repaired
    <2> QED
      BY <2>1, <2>2
  <1> QED
    BY <1>1, <1>3

\* An idle session has nothing in progress, so that what the device does then
\* leaves the array alone.
LEMMA IdleIsStill ==
    ASSUME SpiNorInv, pc = "idle", Complete \/ Fault \/ PowerCycle \/ Recover
    PROVE  PowerCycle /\ UNCHANGED <<mem, safe>>
  <1>1. doing = None
    BY DEF SpiNorInv, QuietInv
  <1> QED
    BY <1>1 DEF Complete, Fault, PowerCycle, Recover, Spoilt

\* Every step of the driver and of the device is a step of the promise, or
\* none.
LEMMA StepIsPromised ==
    ASSUME SpiNorInv, SpiNorInv', [Next]_vars
    PROVE  [Api!Next]_Api!vars
  <1>1. /\ Session \in {"closed", "idle", "busy"}
        /\ Session = "closed" <=> pc \in {"closed", "id", "recover"}
        /\ Session = "idle" <=> pc = "idle"
    BY DEF Session
  <1>2. /\ Session' \in {"closed", "idle", "busy"}
        /\ Session' = "closed" <=> pc' \in {"closed", "id", "recover"}
        /\ Session' = "idle" <=> pc' = "idle"
    BY DEF Session
  <1>0. safe' # safe => Complete /\ safe' = Api!Repaired(safe, call)
    BY RepairOnly
  <1>3. CASE UNCHANGED <<mem, safe, reports, call, before, pc>>
    BY <1>3 DEF Api!vars, Session
  <1>4. CASE Complete \/ Fault \/ PowerCycle \/ Recover
    <2>1. UNCHANGED <<reports, call, before>>
      BY <1>4 DEF Complete, Fault, PowerCycle, Recover, driver
    <2>2. mem' \in Api!PartlyDone(before, call)
      <3>1. /\ mem' \in Memory /\ before \in Memory /\ call \in Calls
            /\ Touched(mem', before, call)
        BY <2>1 DEF SpiNorInv, TypeOK, TouchedInv
      <3> QED
        BY <3>1, TouchedIsPartlyDone
    <2>3. CASE Session = "idle"
      <3>1. PowerCycle /\ UNCHANGED <<mem, safe>>
        BY <1>1, <1>4, <2>3, IdleIsStill
      <3>2. Session' = "closed"
        BY <1>2, <3>1 DEF PowerCycle
      <3> QED
        BY <2>1, <2>3, <3>1, <3>2 DEF Api!Next, Api!Break
    <2>4. CASE Session # "idle" /\ Session' = Session
      BY <1>0, <1>1, <2>1, <2>2, <2>4 DEF Api!Next, Api!Progress
    <2>5. CASE Session # "idle" /\ Session' # Session
      <3>1. PowerCycle
        <4>1. CASE Complete \/ Fault
          BY <2>5, <4>1 DEF Complete, Fault, Session
        <4>2. CASE Recover
          BY <1>1, <1>2, <2>5, <4>2 DEF Recover
        <4> QED
          BY <1>4, <4>1, <4>2
      <3>2. Session = "busy" /\ Session' = "closed" /\ safe' = safe
        BY <1>1, <1>2, <2>5, <3>1 DEF PowerCycle
      <3> QED
        BY <2>1, <2>2, <3>2 DEF Api!Next, Api!Break
    <2> QED
      BY <2>3, <2>4, <2>5
  <1>5. ASSUME NEW c \in Calls, Begin(c)
        PROVE  Api!Next
    <2>1. pc = "idle" /\ pc' \in {"read", "nvcr", "program", "enable"}
      BY <1>5, CallRange DEF Begin
    <2>2. Session = "idle" /\ Session' = "busy"
      BY <1>1, <1>2, <2>1
    <2> QED
      BY <1>5, <2>2 DEF Begin, device, Api!Next, Api!Begin
  <1>6. CASE UNCHANGED <<mem, safe, reports, call, before>> /\ Session' = Session
    BY <1>6 DEF Api!vars
  <1>7. CASE UNCHANGED <<mem, safe, reports, call, before>> /\ Session' = "closed" /\ Session # "closed"
    BY <1>1, <1>7 DEF Api!Next, Api!Break
  <1>8. CASE UNCHANGED <<mem, safe, reports, call, before>> /\ Session' = "idle" /\ Session = "closed"
    BY <1>8 DEF Api!Next, Api!Open
  <1>9. CASE UNCHANGED <<mem, safe, reports, call, before>> /\ Session' = "idle" /\ Session = "busy"
    <2>1. reports => mem = Api!Done(before, call)
      BY <1>2, <1>9, ReturnIsDone
    <2>2. safe = Api!Repaired(safe, call)
      BY <1>2, <1>9, RepairOnly
    <2> QED
      BY <1>9, <2>1, <2>2 DEF Api!Next, Api!Return
  <1>10. ASSUME Moves \/ WriteEnable \/ Command \/ CommandThrows \/ Read \/ Reset
         PROVE  /\ UNCHANGED <<mem, safe, reports, call, before>>
                /\ Session' = "busy" => Session = "busy"
    <2>1. UNCHANGED <<mem, safe, reports, call, before>>
      BY <1>10, MovesKeep DEF WriteEnable, Command, CommandThrows, Read, Reset, device, driver
    <2>2. pc \in {"closed", "id", "recover", "idle"} => pc' \in {"closed", "id", "recover", "idle"}
      BY <1>10 DEF Moves, Kill, Open, ReadId, TransferThrows, ProgramLoop, CheckEnabled,
                  WaitReady, ReadNvcr, VerifyNvcr, ReReadId, Throw, Return, Transfer,
                  WriteEnable, Command, CommandThrows, Read, Reset
    <2> QED
      BY <1>1, <1>2, <2>1, <2>2
  <1> QED
    BY Cases, <1>1, <1>2, <1>3, <1>4, <1>5, <1>6, <1>7, <1>8, <1>9, <1>10, <1>0 DEF vars, device, driver

\* The driver implements the interface that the flash update is written
\* against: a call that returns is done, a call that throws or is cut off is
\* partly done, and nothing else changes the array or the configuration.
THEOREM DriverKeepsPromise == Spec => KeepsPromise
  <1>1. Init => Api!Init
    BY SameFlash DEF Init, Api!Init, Session
  <1>2. SpiNorInv /\ SpiNorInv' /\ [Next]_vars => [Api!Next]_Api!vars
    BY StepIsPromised
  <1> QED
    BY <1>1, <1>2, SpiNorInvariant, PTL DEF Spec, KeepsPromise, Api!Spec
=============================================================================
