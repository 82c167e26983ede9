------------------------- MODULE FlashProgramProofs -------------------------
(***************************************************************************)
(* The safety of FlashProgram, for every geometry, every set of requests   *)
(* and either kind of device.                                              *)
(***************************************************************************)
EXTENDS FlashProgram, Quotients, TLAPS

Target == Merged(req, base)

\* The loop has reached sector: that sector is untouched until it is erased,
\* and what it is about to hold has been worked out.
LoopInv ==
    /\ pc \in Running =>
        /\ InRange(req)
        /\ sector \in First(req) .. Last(req)
        /\ pc # "program" => \A a \in SectorCells(sector) : mem[a] = base[a]
    /\ pc = "verify" => sector = Last(req)
    /\ pc \in {"erase", "program"} =>
        /\ sector < Last(req)
        /\ desired = [a \in SectorCells(sector) |-> Target[a]]

\* The pages before page are programmed, those from page on are erased.
PageInv ==
    pc = "program" =>
        /\ page <= EraseSize
        /\ page % PageSize = 0
        /\ reports => \A a \in SectorCells(sector) :
               mem[a] = IF a < sector * EraseSize + page THEN Target[a] ELSE Erased

\* While an update is remembered as verified, nothing is being written and
\* its image is in the array.
VerifiedInv ==
    verified # None =>
        /\ verified = Goal(req)
        /\ ImageIn(req, mem)
        /\ pc \notin {"erase", "program"}
        /\ pc \in Running => ~req.rewrite

IInv ==
    /\ TypeOK
    /\ OneSectorAtRisk
    /\ LoopInv
    /\ PageInv
    /\ VerifiedInv
    /\ SuccessIsExact
    /\ MismatchMeansFault

-----------------------------------------------------------------------------
(* Addresses. *)

\* The sectors partition the addresses into runs of EraseSize.
LEMMA SectorBounds ==
    ASSUME NEW a \in Addr
    PROVE  /\ Capacity \in Nat /\ a \in Nat
           /\ SectorOf(a) \in Nat
           /\ SectorOf(a) * EraseSize <= a
           /\ a < SectorOf(a) * EraseSize + EraseSize
  <1>1. NSectors \in Nat /\ EraseSize \in Nat \ {0}
    BY GeometryAssumption
  <1>2. NSectors * EraseSize \in Nat
    BY <1>1
  <1> QED
    BY <1>1, <1>2 DEF Addr, Capacity, SectorOf

\* An address between the bounds of a sector is in that sector.
LEMMA SectorUnique ==
    ASSUME NEW a \in Nat, NEW s \in Nat,
           s * EraseSize <= a, a < s * EraseSize + EraseSize
    PROVE  SectorOf(a) = s
  BY QuotientUnique, GeometryAssumption DEF SectorOf

\* The loop visits every sector that holds a cell of the image.
LEMMA SpanCovered ==
    ASSUME NEW r \in Requests
    PROVE  /\ First(r) \in Nat /\ Last(r) \in Nat /\ First(r) <= Last(r)
           /\ \A a \in Addr \cap Span(r) : SectorOf(a) \in First(r) .. Last(r) - 1
  <1>1. EraseSize \in Nat \ {0} /\ r.offset \in Nat /\ r.size \in Nat
    BY GeometryAssumption, RequestsAssumption DEF IsRequest
  <1>2. First(r) \in Nat /\ Last(r) \in Nat /\ First(r) <= Last(r)
    BY <1>1 DEF First, Last
  <1>3. ASSUME NEW a \in Addr, a \in Span(r)
        PROVE  SectorOf(a) \in First(r) .. Last(r) - 1
    <2>1. r.offset <= a /\ a < r.offset + r.size
      BY <1>1, <1>3, SectorBounds DEF Span
    <2>2. First(r) <= SectorOf(a)
      BY <1>1, <2>1, SectorBounds, QuotientMonotone DEF First, SectorOf
    <2>3. SectorOf(a) < Last(r)
      <3>1. a + EraseSize <= r.offset + r.size + EraseSize - 1
        BY <1>1, <2>1, SectorBounds
      <3>2. (a + EraseSize) \div EraseSize = (a \div EraseSize) + 1
        BY <1>1, SectorBounds, QuotientNext
      <3>3. (a + EraseSize) \div EraseSize <= Last(r)
        <4>1. a + EraseSize \in Nat /\ r.offset + r.size + EraseSize - 1 \in Nat
          BY <1>1, SectorBounds
        <4> QED
          BY <1>1, <3>1, <4>1, QuotientMonotone DEF Last
      <3> QED
        BY <3>2, <3>3, <1>2, SectorBounds DEF SectorOf
    <2> QED
      BY <1>2, <2>2, <2>3, SectorBounds
  <1> QED
    BY <1>2, <1>3

\* The page after a page that starts inside a sector starts at most at its end.
LEMMA PageFits ==
    ASSUME NEW p \in Nat, p % PageSize = 0, p < EraseSize
    PROVE  p + PageSize <= EraseSize /\ (p + PageSize) % PageSize = 0
  <1>1. PageSize \in Nat \ {0} /\ EraseSize \in Nat /\ EraseSize % PageSize = 0
    BY GeometryAssumption
  <1>2. PICK k \in Nat : p = PageSize * k
    BY <1>1
  <1>3. PICK m \in Nat : EraseSize = PageSize * m
    BY <1>1
  <1>4. k + 1 <= m
    BY <1>1, <1>2, <1>3
  <1>5. PageSize * (k + 1) <= PageSize * m
    BY <1>1, <1>4
  <1>6. p + PageSize = PageSize * (k + 1)
    BY <1>1, <1>2
  <1>7. (PageSize * (k + 1)) % PageSize = 0
    BY <1>1
  <1> QED
    BY <1>3, <1>5, <1>6, <1>7

-----------------------------------------------------------------------------
(* Memories. *)

\* Putting an image over a memory gives a memory that differs only in the
\* sectors the loop visits.
LEMMA MergedType ==
    ASSUME NEW r \in Requests, NEW m \in Memory
    PROVE  /\ Merged(r, m) \in Memory
           /\ \A a \in Addr : SectorOf(a) \notin First(r) .. Last(r) - 1 =>
                  Merged(r, m)[a] = m[a]
  BY SpanCovered, RequestsAssumption DEF Merged, Memory, IsRequest

\* An erase, complete or not, leaves a memory in which only the cells of the
\* sector can have changed.
LEMMA EraseEffect ==
    ASSUME NEW m \in Memory, NEW s \in Nat
    PROVE  /\ ErasedAt(m, s) \in Memory
           /\ \A a \in Addr : ErasedAt(m, s)[a] = IF SectorOf(a) = s THEN Erased ELSE m[a]
           /\ \A n \in PartlyErased(m, s) :
                n \in Memory /\ \A a \in Addr : SectorOf(a) # s => n[a] = m[a]
  <1>1. ErasedAt(m, s) \in Memory
    BY DEF ErasedAt, Memory, Value, Erased
  <1>2. ASSUME NEW cells \in [SectorCells(s) -> Value]
        PROVE  /\ WithSector(m, s, cells) \in Memory
               /\ \A a \in Addr : SectorOf(a) # s => WithSector(m, s, cells)[a] = m[a]
    BY DEF WithSector, Memory, SectorCells
  <1> QED
    BY <1>1, <1>2 DEF ErasedAt, PartlyErased

\* A program, complete or not, leaves a memory in which only the cells of the
\* data can have changed; a complete one adds the bits of the data.
LEMMA ProgramEffect ==
    ASSUME NEW m \in Memory, NEW C \in SUBSET Addr, NEW data \in [C -> Value]
    PROVE  /\ Programmed(m, data) \in Memory
           /\ \A a \in Addr : a \in C => Programmed(m, data)[a] = m[a] \cup data[a]
           /\ \A a \in Addr : a \notin C => Programmed(m, data)[a] = m[a]
           /\ \A n \in PartlyProgrammed(m, data) :
                n \in Memory /\ \A a \in Addr : a \notin C => n[a] = m[a]
  <1>1. ASSUME NEW d \in [C -> Value]
        PROVE  /\ Programmed(m, d) \in Memory
               /\ \A a \in Addr : a \in C => Programmed(m, d)[a] = m[a] \cup d[a]
               /\ \A a \in Addr : a \notin C => Programmed(m, d)[a] = m[a]
    <2>1. \A a \in Addr : m[a] \in Value /\ (a \in C => m[a] \cup d[a] \in Value)
      BY DEF Memory, Value
    <2> QED
      BY <2>1 DEF Programmed, Memory
  <1> QED
    BY <1>1 DEF PartlyProgrammed

-----------------------------------------------------------------------------
(* Induction. *)

\* The invariant holds before the first update.
LEMMA InitInv == Init => IInv
  <1> SUFFICES ASSUME Init PROVE IInv
    OBVIOUS
  <1> USE DEF Init, Running, Stopped
  <1>1. TypeOK
    BY DEF TypeOK
  <1>2. OneSectorAtRisk
    BY SectorBounds DEF OneSectorAtRisk
  <1>3. LoopInv /\ PageInv /\ VerifiedInv /\ SuccessIsExact /\ MismatchMeansFault
    BY DEF LoopInv, PageInv, VerifiedInv, SuccessIsExact, MismatchMeansFault
  <1> QED
    BY <1>1, <1>2, <1>3 DEF IInv

\* The page about to be programmed lies inside the sector.
LEMMA PageInSector ==
    ASSUME TypeOK, PageInv, pc = "program", page < EraseSize
    PROVE  /\ PageCells \in SUBSET Addr
           /\ PageCells \subseteq SectorCells(sector)
           /\ PageData \in [PageCells -> Value]
  <1>1. EraseSize \in Nat \ {0} /\ PageSize \in Nat \ {0}
    BY GeometryAssumption
  <1>2. sector \in Nat /\ page \in Nat /\ sector * EraseSize \in Nat
    BY <1>1 DEF TypeOK
  <1>3. page + PageSize <= EraseSize
    BY <1>2, PageFits DEF PageInv
  <1>4. ASSUME NEW a \in PageCells PROVE a \in Addr /\ SectorOf(a) = sector
    <2>1. /\ a \in Addr
          /\ sector * EraseSize + page <= a
          /\ a < sector * EraseSize + page + PageSize
      BY DEF PageCells, Within
    <2>2. sector * EraseSize <= a /\ a < sector * EraseSize + EraseSize
      BY <1>1, <1>2, <1>3, <2>1, SectorBounds
    <2> QED
      BY <1>2, <2>1, <2>2, SectorBounds, SectorUnique
  <1>5. desired \in [SectorCells(sector) -> Value]
    BY DEF TypeOK
  <1> QED
    BY <1>4, <1>5 DEF SectorCells, PageData

\* Only a flash operation changes the array, and only inside the sector.
LEMMA FlashStep ==
    ASSUME TypeOK, PageInv, [Next]_vars
    PROVE  /\ mem' \in Memory
           /\ \/ mem' = mem
              \/ /\ pc \in {"erase", "program"}
                 /\ \A a \in Addr : SectorOf(a) # sector => mem'[a] = mem[a]
  <1>1. mem \in Memory /\ sector \in Nat
    BY DEF TypeOK
  <1>2. ASSUME pc = "erase", \/ mem' = ErasedAt(mem, sector)
                             \/ mem' \in PartlyErased(mem, sector)
        PROVE  mem' \in Memory /\ \A a \in Addr : SectorOf(a) # sector => mem'[a] = mem[a]
    BY <1>1, <1>2, EraseEffect
  <1>3. ASSUME pc = "program", page < EraseSize, \/ mem' = Programmed(mem, PageData)
                                                 \/ mem' \in PartlyProgrammed(mem, PageData)
        PROVE  mem' \in Memory /\ \A a \in Addr : SectorOf(a) # sector => mem'[a] = mem[a]
    <2>1. /\ mem' \in Memory
          /\ \A a \in Addr : a \notin PageCells => mem'[a] = mem[a]
      <3>1. PageCells \in SUBSET Addr /\ PageData \in [PageCells -> Value]
        BY <1>3, PageInSector
      <3>2. CASE mem' = Programmed(mem, PageData)
        BY <1>1, <3>1, <3>2, ProgramEffect
      <3>3. CASE mem' \in PartlyProgrammed(mem, PageData)
        BY <1>1, <3>1, <3>3, ProgramEffect
      <3> QED
        BY <1>3, <3>2, <3>3
    <2> QED
      BY <1>3, <2>1, PageInSector DEF SectorCells
  <1>4. CASE Erase \/ EraseThrows \/ EraseFailsSilently
    BY <1>2, <1>4 DEF Erase, EraseThrows, EraseFailsSilently
  <1>5. CASE Program \/ ProgramThrows \/ ProgramFailsSilently
    BY <1>3, <1>5 DEF Program, ProgramThrows, ProgramFailsSilently
  <1>6. CASE Crash
    BY <1>1, <1>2, <1>3, <1>6 DEF Crash
  <1>7. CASE \/ PrepareSector \/ SkipSector \/ ReadThrows \/ SkipPage \/ SectorDone
             \/ LoopDone \/ Verify \/ ClearError \/ (\E r \in Requests : Start(r))
             \/ UNCHANGED vars
    BY <1>1, <1>7 DEF PrepareSector, SkipSector, ReadThrows, SkipPage, SectorDone,
                      LoopDone, Verify, ClearError, Start, vars
  <1> QED
    BY <1>4, <1>5, <1>6, <1>7 DEF Next, Step

\* No step exchanges the device.
LEMMA SameDevice == [Next]_vars => reports' = reports
  <1> SUFFICES ASSUME [Next]_vars PROVE reports' = reports
    OBVIOUS
  <1>1. CASE UNCHANGED vars
    BY <1>1 DEF vars
  <1>2. CASE Program \/ SkipPage \/ ProgramFailsSilently
    BY <1>2 DEF Program, SkipPage, ProgramFailsSilently, NextPage
  <1>3. CASE \/ PrepareSector \/ SkipSector \/ ReadThrows \/ Erase \/ EraseThrows
             \/ EraseFailsSilently \/ ProgramThrows \/ SectorDone \/ LoopDone \/ Verify
    BY <1>3 DEF PrepareSector, SkipSector, ReadThrows, Erase, EraseThrows,
                EraseFailsSilently, ProgramThrows, SectorDone, LoopDone, Verify
  <1>4. CASE Crash \/ ClearError \/ \E r \in Requests : Start(r)
    BY <1>4 DEF Crash, ClearError, Start
  <1> QED
    BY <1>1, <1>2, <1>3, <1>4 DEF Next, Step

\* The types survive every step.
LEMMA TypeStep == TypeOK /\ PageInv /\ [Next]_vars => TypeOK'
  <1> SUFFICES ASSUME TypeOK, PageInv, [Next]_vars
               PROVE  TypeOK'
    OBVIOUS
  <1>0. mem' \in Memory /\ reports' = reports
    BY FlashStep, SameDevice
  <1> USE DEF TypeOK, Running, Stopped
  <1>1. ASSUME NEW r \in Requests, Start(r) PROVE TypeOK'
    BY <1>0, <1>1, SpanCovered DEF Start
  <1>2. CASE PrepareSector
    <2>1. Desired(req, sector, mem) \in [SectorCells(sector) -> Value]
      BY MergedType DEF Desired, SectorCells, Memory
    <2> QED
      BY <1>2, <2>1 DEF PrepareSector
  <1>3. CASE SkipSector
    BY <1>3 DEF SkipSector
  <1>11. CASE LoopDone
    BY <1>11 DEF LoopDone
  <1>12. CASE ReadThrows
    BY <1>12 DEF ReadThrows, Fail
  <1>4. CASE Verify
    BY <1>4 DEF Verify
  <1>5. CASE Erase \/ EraseFailsSilently
    <2>1. /\ desired' = desired /\ sector' = sector /\ base' = base /\ status' = status
          /\ req' = req /\ verified' = verified
          /\ pc = "erase" /\ pc' = "program" /\ page' = 0
      BY <1>5 DEF Erase, EraseFailsSilently
    <2> QED
      BY <1>0, <2>1
  <1>6. CASE EraseThrows \/ ProgramThrows
    BY <1>0, <1>6 DEF EraseThrows, ProgramThrows, Throw, Fail
  <1>7. CASE Program \/ SkipPage \/ ProgramFailsSilently
    <2>1. /\ desired' = desired /\ sector' = sector /\ base' = base /\ status' = status
          /\ req' = req /\ verified' = verified
          /\ pc = "program" /\ pc' = pc /\ page' = page + PageSize
      BY <1>7 DEF Program, SkipPage, ProgramFailsSilently, NextPage
    <2> QED
      BY <1>0, <2>1, GeometryAssumption
  <1>8. CASE SectorDone
    BY <1>8 DEF SectorDone
  <1>13. CASE ClearError
    BY <1>13 DEF ClearError
  <1>9. CASE Crash
    BY <1>0, <1>9 DEF Crash
  <1>10. CASE UNCHANGED vars
    BY <1>0, <1>10 DEF vars
  <1> QED
    BY <1>1, <1>2, <1>3, <1>4, <1>5, <1>6, <1>7, <1>8, <1>9, <1>10, <1>11, <1>12, <1>13 DEF Next, Step

\* A sector the loop leaves behind holds its target.
LEMMA SectorLeft ==
    ASSUME IInv, SkipSector \/ SectorDone,
           NEW a \in Addr, SectorOf(a) = sector, reports
    PROVE  mem[a] = Target[a]
  <1>1. a \in SectorCells(sector)
    BY DEF SectorCells
  <1>2. CASE SkipSector
    <2>1. mem[a] = base[a]
      BY <1>1, <1>2 DEF IInv, LoopInv, SkipSector, Running
    <2>2. Current(sector, mem)[a] = Desired(req, sector, mem)[a]
      BY <1>2 DEF SkipSector, Unchanged
    <2>3. mem[a] = Merged(req, mem)[a]
      BY <1>1, <2>2 DEF Current, Desired
    <2> QED
      BY <2>1, <2>3 DEF Merged, Target
  <1>3. CASE SectorDone
    <2>1. pc = "program" /\ page = EraseSize
      BY <1>3, GeometryAssumption DEF SectorDone, IInv, TypeOK, PageInv
    <2>2. a < sector * EraseSize + page
      BY <2>1, SectorBounds
    <2> QED
      BY <1>1, <2>1, <2>2 DEF IInv, PageInv
  <1> QED
    BY <1>2, <1>3

\* No step endangers a second sector: the loop leaves a sector only when it is
\* settled, and a new update starts from the array as it is.
LEMMA RiskStep == IInv /\ [Next]_vars => OneSectorAtRisk'
  <1> SUFFICES ASSUME IInv, [Next]_vars PROVE OneSectorAtRisk'
    OBVIOUS
  <1>0. TypeOK /\ OneSectorAtRisk /\ LoopInv /\ PageInv
    BY DEF IInv
  <1>1. ASSUME NEW r \in Requests, Start(r) PROVE OneSectorAtRisk'
    <2>1. mem' = mem /\ base' = mem /\ req' = r /\ sector' \in {0, First(r)}
      BY <1>1 DEF Start
    <2>2. \A a \in Addr : SectorOf(a) < First(r) => Merged(r, mem)[a] = mem[a]
      BY <1>0, MergedType, SpanCovered, SectorBounds DEF TypeOK
    <2> QED
      BY <2>1, <2>2, SectorBounds DEF OneSectorAtRisk
  <1>2. CASE SkipSector \/ SectorDone
    <2>1. /\ mem' = mem /\ base' = base /\ req' = req /\ sector' = sector + 1
          /\ sector \in Nat /\ reports' = reports
      BY <1>0, <1>2 DEF SkipSector, SectorDone, TypeOK
    <2>2. \A a \in Addr : SectorOf(a) = sector /\ reports => mem[a] = Merged(req, base)[a]
      BY <1>2, SectorLeft DEF Target
    <2> QED
      BY <1>0, <2>1, <2>2, SectorBounds DEF OneSectorAtRisk
  <1>3. CASE ~(SkipSector \/ SectorDone \/ \E r \in Requests : Start(r))
    <2>0. reports' = reports
      BY SameDevice
    <2>1. base' = base /\ req' = req /\ sector' = sector
      BY <1>3 DEF Next, Step, PrepareSector, ReadThrows, Erase, EraseThrows,
                  EraseFailsSilently, Program, SkipPage, ProgramThrows, ProgramFailsSilently,
                  NextPage, LoopDone, Verify, Crash, ClearError, vars
    <2>2. CASE mem' = mem
      BY <1>0, <2>0, <2>1, <2>2 DEF OneSectorAtRisk
    <2>3. CASE /\ pc \in {"erase", "program"}
               /\ \A a \in Addr : SectorOf(a) # sector => mem'[a] = mem[a]
      <3>1. sector \in First(req) .. Last(req) - 1
        BY <1>0, <2>3, SpanCovered DEF LoopInv, TypeOK, Running
      <3> QED
        BY <1>0, <2>0, <2>1, <2>3, <3>1, SectorBounds DEF OneSectorAtRisk, TypeOK
    <2> QED
      BY <1>0, <2>2, <2>3, FlashStep
  <1> QED
    BY <1>1, <1>2, <1>3

\* The sector the loop moves to is untouched, and desired is what it is to hold.
LEMMA LoopStep == IInv /\ [Next]_vars => LoopInv'
  <1> SUFFICES ASSUME IInv, [Next]_vars PROVE LoopInv'
    OBVIOUS
  <1>0. TypeOK /\ OneSectorAtRisk /\ LoopInv /\ PageInv
    BY DEF IInv
  <1>00. First(req) \in Nat /\ Last(req) \in Nat /\ sector \in Nat
    BY <1>0, SpanCovered DEF TypeOK
  <1> USE DEF Running, Stopped
  <1>1. ASSUME NEW r \in Requests, Start(r) PROVE LoopInv'
    BY <1>1, SpanCovered DEF Start, LoopInv
  <1>2. CASE SkipSector \/ SectorDone
    <2>1. /\ mem' = mem /\ base' = base /\ req' = req /\ sector' = sector + 1
          /\ pc' = "sector" /\ sector \in First(req) .. Last(req) /\ sector < Last(req)
          /\ InRange(req)
      BY <1>0, <1>2 DEF SkipSector, SectorDone, LoopInv
    <2>2. \A a \in SectorCells(sector + 1) : mem[a] = base[a]
      BY <1>0, <1>00 DEF OneSectorAtRisk, SectorCells
    <2> QED
      BY <1>00, <2>1, <2>2 DEF LoopInv
  <1>3. CASE PrepareSector
    <2>1. Desired(req, sector, mem) = [a \in SectorCells(sector) |-> Target[a]]
      BY <1>0, <1>3 DEF Desired, Merged, Target, LoopInv, PrepareSector, SectorCells
    <2> QED
      BY <1>0, <1>3, <2>1 DEF LoopInv, PrepareSector, Target
  <1>4. CASE LoopDone
    BY <1>0, <1>00, <1>4 DEF LoopInv, LoopDone
  <1>5. CASE Erase \/ EraseFailsSilently
    BY <1>0, <1>5 DEF LoopInv, Erase, EraseFailsSilently, Target
  <1>6. CASE Program \/ SkipPage \/ ProgramFailsSilently
    BY <1>0, <1>6 DEF LoopInv, Program, SkipPage, ProgramFailsSilently, NextPage, Target
  <1>7. CASE ReadThrows \/ EraseThrows \/ ProgramThrows \/ Crash \/ Verify
    BY <1>7 DEF LoopInv, ReadThrows, EraseThrows, ProgramThrows, Crash, Verify, Throw, Fail
  <1>8. CASE ClearError
    BY <1>8 DEF LoopInv, ClearError
  <1>9. CASE UNCHANGED vars
    BY <1>0, <1>9 DEF LoopInv, Target, vars
  <1> QED
    BY <1>1, <1>2, <1>3, <1>4, <1>5, <1>6, <1>7, <1>8, <1>9 DEF Next, Step

\* Programming an erased page gives it its target; a page left out has the
\* erased target already.
LEMMA PageStep == IInv /\ [Next]_vars => PageInv'
  <1> SUFFICES ASSUME IInv, [Next]_vars PROVE PageInv'
    OBVIOUS
  <1>0. TypeOK /\ LoopInv /\ PageInv
    BY DEF IInv
  <1>01. reports' = reports
    BY SameDevice
  <1>00. /\ EraseSize \in Nat \ {0} /\ PageSize \in Nat \ {0} /\ 0 % PageSize = 0
         /\ mem \in Memory /\ sector \in Nat /\ page \in Nat /\ sector * EraseSize \in Nat
    BY <1>0, GeometryAssumption DEF TypeOK
  <1>1. CASE Erase
    <2>1. \A a \in SectorCells(sector) : mem'[a] = Erased /\ ~(a < sector * EraseSize + 0)
      <3>1. ASSUME NEW a \in Addr, SectorOf(a) = sector
            PROVE  mem'[a] = Erased /\ ~(a < sector * EraseSize + 0)
        <4>1. mem'[a] = Erased
          BY <1>1, <1>00, <3>1, EraseEffect DEF Erase
        <4>2. ~(a < sector * EraseSize + 0)
          BY <1>00, <3>1, SectorBounds
        <4> QED
          BY <4>1, <4>2
      <3> QED
        BY <3>1 DEF SectorCells
    <2> QED
      BY <1>00, <1>1, <2>1 DEF Erase, PageInv
  <1>2. CASE EraseFailsSilently
    BY <1>00, <1>01, <1>2 DEF EraseFailsSilently, PageInv
  <1>3. CASE Program \/ SkipPage
    <2>1. /\ pc = "program" /\ page < EraseSize /\ page' = page + PageSize
          /\ sector' = sector /\ req' = req /\ base' = base /\ desired' = desired
      BY <1>3 DEF Program, SkipPage, NextPage
    <2>2. page + PageSize <= EraseSize /\ (page + PageSize) % PageSize = 0
      BY <1>0, <1>00, <2>1, PageFits DEF PageInv
    <2>3. ASSUME NEW a \in SectorCells(sector), reports
          PROVE  mem'[a] = IF a < sector * EraseSize + (page + PageSize)
                           THEN Target[a] ELSE Erased
      <3>1. a \in Addr /\ a \in Nat
        BY SectorBounds DEF SectorCells
      <3>2. desired[a] = Target[a]
        BY <1>0, <2>1 DEF LoopInv
      <3>3. mem[a] = IF a < sector * EraseSize + page THEN Target[a] ELSE Erased
        BY <1>0, <2>1, <2>3 DEF PageInv
      <3>4. a \in PageCells <=> /\ sector * EraseSize + page <= a
                                /\ a < sector * EraseSize + page + PageSize
        BY <3>1 DEF PageCells, Within
      <3>5. CASE a \in PageCells
        <4>1. mem[a] = {}
          BY <1>00, <3>1, <3>3, <3>4, <3>5 DEF Erased
        <4>2. mem'[a] = Target[a]
          <5>1. CASE Program
            <6>1. mem'[a] = mem[a] \cup PageData[a]
              BY <1>0, <1>00, <2>1, <3>1, <3>5, <5>1, PageInSector, ProgramEffect DEF Program
            <6>2. PageData[a] = Target[a]
              BY <3>2, <3>5 DEF PageData
            <6> QED
              BY <4>1, <6>1, <6>2
          <5>2. CASE SkipPage
            BY <3>2, <3>5, <4>1, <5>2 DEF SkipPage, PageNeeded, Erased
          <5> QED
            BY <1>3, <5>1, <5>2
        <4> QED
          BY <1>00, <3>1, <3>4, <3>5, <4>2
      <3>6. CASE a \notin PageCells
        <4>1. mem'[a] = mem[a]
          <5>1. CASE Program
            <6>1. PageCells \in SUBSET Addr /\ PageData \in [PageCells -> Value]
              BY <1>0, <2>1, PageInSector
            <6>2. mem' = Programmed(mem, PageData)
              BY <5>1 DEF Program
            <6> QED
              BY <1>00, <3>1, <3>6, <6>1, <6>2, ProgramEffect
          <5>2. CASE SkipPage
            BY <5>2 DEF SkipPage
          <5> QED
            BY <1>3, <5>1, <5>2
        <4> QED
          BY <1>00, <3>1, <3>3, <3>4, <3>6, <4>1
      <3> QED
        BY <3>5, <3>6
    <2> QED
      BY <1>01, <2>1, <2>2, <2>3 DEF PageInv, Target
  <1>4. CASE ProgramFailsSilently
    <2>1. /\ pc = "program" /\ page < EraseSize /\ page' = page + PageSize /\ ~reports'
      BY <1>01, <1>4 DEF ProgramFailsSilently, NextPage
    <2> QED
      BY <1>0, <1>00, <2>1, PageFits DEF PageInv
  <1>5. CASE \/ SkipSector \/ PrepareSector \/ ReadThrows \/ EraseThrows \/ ProgramThrows
             \/ SectorDone \/ LoopDone \/ Verify \/ Crash \/ ClearError
             \/ \E r \in Requests : Start(r)
    <2>1. pc' # "program"
      <3>1. CASE ClearError
        BY <3>1 DEF ClearError, Stopped
      <3>2. CASE SkipSector
        BY <3>2 DEF SkipSector
      <3> QED
        BY <1>5, <3>1, <3>2 DEF PrepareSector, ReadThrows, EraseThrows,
           ProgramThrows, SectorDone, LoopDone, Verify, Crash, Start, Throw, Fail
    <2> QED
      BY <2>1 DEF PageInv
  <1>6. CASE UNCHANGED vars
    BY <1>0, <1>6 DEF PageInv, Target, vars
  <1> QED
    BY <1>1, <1>2, <1>3, <1>4, <1>5, <1>6 DEF Next, Step

\* An update remembered as verified is not written again: every one of its
\* sectors compares equal and is skipped.
LEMMA VerifiedStep == IInv /\ [Next]_vars => VerifiedInv'
  <1> SUFFICES ASSUME IInv, [Next]_vars, verified' # None PROVE VerifiedInv'
    BY DEF VerifiedInv
  <1>0. TypeOK /\ PageInv /\ VerifiedInv
    BY DEF IInv
  <1> USE DEF Running, Stopped
  <1>1. ASSUME NEW r \in Requests, Start(r) PROVE VerifiedInv'
    <2>1. /\ verified' = verified /\ verified = Goal(r) /\ ~r.rewrite
          /\ req' = r /\ mem' = mem /\ pc' \in {"sector", "failed"}
      BY <1>1 DEF Start, Same
    <2>2. Goal(r) = Goal(req) /\ ImageIn(req, mem)
      BY <1>0, <2>1 DEF VerifiedInv
    <2>3. ImageIn(r, mem)
      BY <2>2 DEF Goal, ImageIn, Span
    <2> QED
      BY <2>1, <2>3 DEF VerifiedInv
  <1>2. CASE Verify
    BY <1>0, <1>2 DEF Verify, VerifiedInv
  <1>3. CASE PrepareSector
    <2>1. ImageIn(req, mem) /\ ~req.rewrite
      BY <1>0, <1>3 DEF PrepareSector, VerifiedInv
    <2>2. Desired(req, sector, mem) = Current(sector, mem)
      <3>1. \A a \in SectorCells(sector) : Merged(req, mem)[a] = mem[a]
        BY <2>1 DEF Merged, ImageIn, SectorCells
      <3> QED
        BY <3>1 DEF Desired, Current
    <2> QED
      BY <1>3, <2>1, <2>2 DEF PrepareSector, Unchanged
  <1>4. CASE \/ SkipSector \/ LoopDone \/ ReadThrows \/ ClearError \/ UNCHANGED vars
    <2>1. /\ mem' = mem /\ req' = req /\ verified' = verified
          /\ pc' # pc => pc' \in {"verify", "failed"} /\ pc \in Running
      BY <1>4 DEF SkipSector, LoopDone, ReadThrows, ClearError, Fail, vars
    <2> QED
      BY <1>0, <2>1 DEF VerifiedInv
  <1>5. CASE \/ Erase \/ EraseThrows \/ EraseFailsSilently \/ Program \/ SkipPage
             \/ ProgramThrows \/ ProgramFailsSilently \/ SectorDone
    <2>1. verified' = verified /\ pc \in {"erase", "program"}
      BY <1>5 DEF Erase, EraseThrows, EraseFailsSilently, Program, SkipPage, ProgramThrows,
                  ProgramFailsSilently, SectorDone, NextPage
    <2> QED
      BY <1>0, <2>1 DEF VerifiedInv
  <1>6. CASE Crash
    <2>1. verified' = verified /\ req' = req /\ pc' = "idle"
      BY <1>6 DEF Crash
    <2>2. mem' = mem
      BY <1>0, <1>6, <2>1 DEF VerifiedInv, Crash
    <2> QED
      BY <1>0, <2>1, <2>2 DEF VerifiedInv
  <1> QED
    BY <1>1, <1>2, <1>3, <1>4, <1>5, <1>6 DEF Next, Step

\* Only the final read decides the verdict, and by then every sector the loop
\* went over is settled and the others were never touched.
LEMMA VerdictStep == IInv /\ [Next]_vars => SuccessIsExact' /\ MismatchMeansFault'
  <1> SUFFICES ASSUME IInv, [Next]_vars PROVE SuccessIsExact' /\ MismatchMeansFault'
    OBVIOUS
  <1>0. TypeOK /\ OneSectorAtRisk /\ LoopInv /\ reports' = reports
    BY SameDevice DEF IInv
  <1> USE DEF Running, Stopped
  <1>1. CASE Verify
    <2>1. /\ pc = "verify" /\ mem' = mem /\ req' = req /\ base' = base
          /\ sector = Last(req) /\ sector \in Nat
      BY <1>0, <1>1 DEF Verify, LoopInv, TypeOK
    <2>2. ASSUME reports, NEW a \in Addr PROVE mem[a] = Target[a]
      <3>1. CASE SectorOf(a) < sector
        BY <1>0, <2>2, <3>1 DEF OneSectorAtRisk, Target
      <3>2. CASE SectorOf(a) >= sector
        <4>1. SectorOf(a) \notin First(req) .. Last(req) - 1
          BY <1>0, <2>1, <3>2, SectorBounds, SpanCovered DEF TypeOK
        <4> QED
          BY <1>0, <4>1, MergedType DEF OneSectorAtRisk, TypeOK, Target
      <3> QED
        BY <2>1, <3>1, <3>2, SectorBounds
    <2>3. reports => mem = Merged(req, base)
      BY <1>0, <2>2, MergedType DEF TypeOK, Memory, Target
    <2>4. reports => ImageIn(req, mem)
      <3>1. InRange(req)
        BY <1>0, <2>1 DEF LoopInv
      <3>2. Span(req) \subseteq Addr
        BY <1>0, <3>1, RequestsAssumption, GeometryAssumption
           DEF TypeOK, IsRequest, InRange, Span, Addr, Capacity
      <3> QED
        BY <2>3, <3>2 DEF Merged, ImageIn
    <2> QED
      BY <1>0, <1>1, <2>1, <2>3, <2>4 DEF Verify, SuccessIsExact, MismatchMeansFault
  <1>2. CASE ClearError \/ UNCHANGED vars
    <2>1. pc' = pc /\ mem' = mem /\ req' = req /\ base' = base
      BY <1>2 DEF ClearError, vars
    <2> QED
      BY <1>0, <2>1 DEF IInv, SuccessIsExact, MismatchMeansFault
  <1>3. CASE PrepareSector \/ SkipSector \/ ReadThrows \/ SectorDone \/ LoopDone \/ Crash
             \/ \E r \in Requests : Start(r)
    <2>1. pc' \notin {"done", "mismatch"}
      BY <1>3 DEF PrepareSector, SkipSector, ReadThrows, SectorDone, LoopDone, Crash, Fail, Start
    <2> QED
      BY <2>1 DEF SuccessIsExact, MismatchMeansFault
  <1>4. CASE \/ Erase \/ EraseThrows \/ EraseFailsSilently
             \/ Program \/ SkipPage \/ ProgramThrows \/ ProgramFailsSilently
    <2>1. pc' \notin {"done", "mismatch"}
      BY <1>4 DEF Erase, EraseThrows, EraseFailsSilently, Program, SkipPage, ProgramThrows,
                  ProgramFailsSilently, NextPage, Throw, Fail
    <2> QED
      BY <2>1 DEF SuccessIsExact, MismatchMeansFault
  <1> QED
    BY <1>1, <1>2, <1>3, <1>4 DEF Next, Step

\* Every step preserves the invariant.
LEMMA NextInv == IInv /\ [Next]_vars => IInv'
  BY TypeStep, RiskStep, LoopStep, PageStep, VerifiedStep, VerdictStep DEF IInv

-----------------------------------------------------------------------------
(* The theorems. *)

\* The inductive invariant holds in every state of programAndVerify.
THEOREM Invariance == Spec => []IInv
  BY InitInv, NextInv, PTL DEF Spec

\* The variables keep their types.
THEOREM TypeCorrect == Spec => []TypeOK
  BY Invariance, PTL DEF IInv

\* A completed update holds the image, and on a device that reports its
\* failures everything else is as it was.
THEOREM SuccessExact == Spec => []SuccessIsExact
  BY Invariance, PTL DEF IInv

\* Failures and crashes endanger one sector at most, and never one outside
\* the update.
THEOREM OneSector == Spec => []OneSectorAtRisk
  BY Invariance, PTL DEF IInv

\* A verification failure always has a device failure behind it.
THEOREM MismatchFault == Spec => []MismatchMeansFault
  BY Invariance, PTL DEF IInv

\* Repeating a completed update does not wear the flash.
THEOREM RepeatHarmless == Spec => []RepeatErasesNothing
  <1>1. IInv => RepeatErasesNothing
    BY RequestsAssumption DEF IInv, TypeOK, VerifiedInv, RepeatErasesNothing, Same
  <1> QED
    BY <1>1, Invariance, PTL
=============================================================================
