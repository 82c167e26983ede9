---------------------------- MODULE FlashProgram ----------------------------
(***************************************************************************)
(* fpgactl's flash update, programAndVerify (fpgactl/src/qspi.cpp): bring  *)
(* the cells image_offset .. image_offset + image.size() - 1 to the image  *)
(* by reading, erasing and programming whole erase sectors, then read the  *)
(* image range back.  One action per call on SpiNor; each call succeeds,   *)
(* throws with the flash part way through, or, on a device whose profile   *)
(* has error_mask = 0 (Micron), may return although the device failed.     *)
(* The process can be killed, or the power lost, at any point, and the     *)
(* operator can start the same or another update afterwards.               *)
(***************************************************************************)
EXTENDS NorFlash

CONSTANTS
    Requests,  \* the updates an operator may ask for
    None       \* no completed update to remember

\* A request: the arguments image, image_offset and rewrite_all.
Span(r) == r.offset .. r.offset + r.size - 1
IsRequest(r) ==
    /\ r.offset \in Nat
    /\ r.size \in Nat
    /\ r.rewrite \in BOOLEAN
    /\ r.image \in [Span(r) -> Value]

\* What a request asks for, however it is to get there.
Goal(r) == <<r.offset, r.size, r.image>>

ASSUME RequestsAssumption == \A r \in Requests : IsRequest(r) /\ Goal(r) # None

VARIABLES
    reports,   \* profile.error_mask # 0: a failed operation is noticed
    mem,       \* the flash array
    status,    \* status-register bits that requireWritable looks at
    pc,        \* where programAndVerify is
    req,       \* its arguments
    sector,    \* its loop variables
    page,
    desired,   \* the sector contents it is about to write
    base,      \* history: the array when it was called
    verified   \* history: the request whose image is known to be in the array, or None

vars == <<reports, mem, status, pc, req, sector, page, desired, base, verified>>

Running == {"sector", "erase", "program", "verify"}
Stopped == {"idle", "done", "failed", "mismatch"}
NoData == [a \in {} |-> Erased]

-----------------------------------------------------------------------------
(* The arithmetic of the loop. *)

InRange(r) == r.offset <= Capacity /\ r.size <= Capacity - r.offset
First(r) == r.offset \div EraseSize
\* Mutant: rounded down.
LastFloor(r) == (r.offset + r.size) \div EraseSize
Last(r) == (r.offset + r.size + EraseSize - 1) \div EraseSize
FullyCovered(r, s) ==
    /\ r.offset <= s * EraseSize
    /\ (s + 1) * EraseSize <= r.offset + r.size

\* What the array should become: the image over what was there.
Merged(r, m) == [a \in Addr |-> IF a \in Span(r) THEN r.image[a] ELSE m[a]]
ImageIn(r, m) == \A a \in Span(r) : m[a] = r.image[a]

\* Mutants: only the image's cells; the rest of the sector taken as erased.
DesiredImageOnly(r, s, m) == [a \in SectorCells(s) \cap Span(r) |-> r.image[a]]
DesiredBlank(r, s, m) == [a \in SectorCells(s) |-> IF a \in Span(r) THEN r.image[a] ELSE Erased]
Desired(r, s, m) == [a \in SectorCells(s) |-> Merged(r, m)[a]]
Current(s, m) == [a \in SectorCells(s) |-> m[a]]
PageCells == Within(sector * EraseSize + page, sector * EraseSize + page + PageSize)
PageData == [a \in PageCells |-> desired[a]]

-----------------------------------------------------------------------------
Init ==
    /\ reports \in BOOLEAN
    /\ mem \in Memory
    /\ status \in SUBSET {"protect"}
    /\ pc = "idle"
    /\ req \in Requests
    /\ sector = 0
    /\ page = 0
    /\ desired = NoData
    /\ base = mem
    /\ verified = None

Same(r) == verified = Goal(r)

\* checkRange, then requireWritable, then the loop bounds.
Start(r) ==
    /\ pc \in Stopped
    /\ req' = r
    /\ base' = mem
    /\ verified' = IF ~r.rewrite /\ Same(r) THEN verified ELSE None
    /\ IF InRange(r) /\ status = {}
       THEN pc' = "sector" /\ sector' = First(r)
       ELSE pc' = "failed" /\ sector' = 0
    /\ page' = 0
    /\ desired' = NoData
    /\ UNCHANGED <<reports, mem, status>>

\* Mutant: a failed sector is tried again from what the flash holds then.
FailRetries == pc' = "sector" /\ desired' = NoData
Fail == pc' = "failed" /\ desired' = NoData

\* A call that throws: a reported device error stays latched, a timeout or a
\* failed transfer leaves no trace in the status.
Throw ==
    /\ Fail
    /\ \/ status' = status
       \/ reports /\ status' = status \cup {"error"}

\* The part of one iteration before the flash is touched.
\* Mutant: the flag read the wrong way round.
UnchangedIfRewrite(r, s, m) == r.rewrite /\ Current(s, m) = Desired(r, s, m)
Unchanged(r, s, m) == ~r.rewrite /\ Current(s, m) = Desired(r, s, m)
PrepareSector ==
    /\ pc = "sector"
    /\ sector < Last(req)
    /\ ~Unchanged(req, sector, mem)
    /\ pc' = "erase"
    /\ desired' = Desired(req, sector, mem)
    /\ UNCHANGED <<reports, mem, status, req, sector, page, base, verified>>
SkipSector ==
    /\ pc = "sector"
    /\ sector < Last(req)
    /\ Unchanged(req, sector, mem)
    /\ sector' = sector + 1
    /\ UNCHANGED <<reports, mem, status, pc, req, page, desired, base, verified>>
ReadThrows ==
    /\ pc \in {"sector", "verify"}
    /\ pc = "sector" => sector < Last(req) /\ ~(req.rewrite /\ FullyCovered(req, sector))
    /\ Fail
    /\ UNCHANGED <<reports, mem, status, req, sector, page, base, verified>>

Erase ==
    /\ pc = "erase"
    /\ mem' = ErasedAt(mem, sector)
    /\ pc' = "program"
    /\ page' = 0
    /\ UNCHANGED <<reports, status, req, sector, desired, base, verified>>
EraseThrows ==
    /\ pc = "erase"
    /\ mem' \in PartlyErased(mem, sector)
    /\ Throw
    /\ UNCHANGED <<reports, req, sector, page, base, verified>>
EraseFailsSilently ==
    /\ pc = "erase" /\ ~reports
    /\ mem' \in PartlyErased(mem, sector)
    /\ pc' = "program"
    /\ page' = 0
    /\ UNCHANGED <<reports, status, req, sector, desired, base, verified>>

\* A page is programmed unless it is to stay erased.
PageNeeded == \E a \in PageCells : desired[a] # Erased
NextPage ==
    /\ page' = page + PageSize
    /\ UNCHANGED <<reports, status, pc, req, sector, desired, base, verified>>
Program ==
    /\ pc = "program" /\ page < EraseSize
    /\ PageNeeded
    /\ mem' = Programmed(mem, PageData)
    /\ NextPage
SkipPage ==
    /\ pc = "program" /\ page < EraseSize
    /\ ~PageNeeded
    /\ mem' = mem
    /\ NextPage
ProgramThrows ==
    /\ pc = "program" /\ page < EraseSize
    /\ PageNeeded
    /\ mem' \in PartlyProgrammed(mem, PageData)
    /\ Throw
    /\ UNCHANGED <<reports, req, sector, page, base, verified>>
ProgramFailsSilently ==
    /\ pc = "program" /\ page < EraseSize /\ ~reports
    /\ PageNeeded
    /\ mem' \in PartlyProgrammed(mem, PageData)
    /\ NextPage
SectorDone ==
    /\ pc = "program" /\ page >= EraseSize
    /\ pc' = "sector"
    /\ sector' = sector + 1
    /\ page' = 0
    /\ desired' = NoData
    /\ UNCHANGED <<reports, mem, status, req, base, verified>>

LoopDone ==
    /\ pc = "sector" /\ sector >= Last(req)
    /\ pc' = "verify"
    /\ UNCHANGED <<reports, mem, status, req, sector, page, desired, base, verified>>
\* The final read of the image range only, compared with the image.
\* Mutant: no comparison.
VerifyTrusts ==
    /\ pc = "verify"
    /\ pc' = "done" /\ verified' = Goal(req)
    /\ UNCHANGED <<reports, mem, status, req, sector, page, desired, base>>
Verify ==
    /\ pc = "verify"
    /\ IF ImageIn(req, mem)
       THEN pc' = "done" /\ verified' = Goal(req)
       ELSE pc' = "mismatch" /\ verified' = verified
    /\ UNCHANGED <<reports, mem, status, req, sector, page, desired, base>>

-----------------------------------------------------------------------------
(* The environment. *)

\* The process dies or the board loses power: an operation the device was
\* performing is cut off.
Crash ==
    /\ pc \in Running
    /\ pc' = "idle"
    /\ desired' = NoData
    /\ mem' \in CASE pc = "erase" -> PartlyErased(mem, sector)
                  [] pc = "program" /\ page < EraseSize -> PartlyProgrammed(mem, PageData)
                  [] OTHER -> {mem}
    /\ UNCHANGED <<reports, status, req, sector, page, base, verified>>
\* A power cycle, or the software reset SpiNor's constructor performs on an
\* unresponsive device, clears the latched error.
ClearError ==
    /\ pc \in Stopped
    /\ "error" \in status
    /\ status' = status \ {"error"}
    /\ UNCHANGED <<reports, mem, pc, req, sector, page, desired, base, verified>>

Step ==
    \/ PrepareSector \/ SkipSector \/ ReadThrows
    \/ Erase \/ EraseThrows \/ EraseFailsSilently
    \/ Program \/ SkipPage \/ ProgramThrows \/ ProgramFailsSilently
    \/ SectorDone \/ LoopDone \/ Verify
Next == Step \/ Crash \/ ClearError \/ \E r \in Requests : Start(r)

Spec == Init /\ [][Next]_vars

-----------------------------------------------------------------------------
TypeOK ==
    /\ reports \in BOOLEAN
    /\ mem \in Memory /\ base \in Memory
    /\ status \in SUBSET {"error", "protect"}
    /\ pc \in Running \cup Stopped
    /\ req \in Requests
    /\ sector \in Nat /\ page \in Nat
    /\ pc \in {"erase", "program"} => desired \in [SectorCells(sector) -> Value]
    /\ pc \notin {"erase", "program"} => desired = NoData
    /\ verified \in {None} \cup {Goal(r) : r \in Requests}

\* A successful update is exact: the image is in the array, and, if the
\* device reports its failures, every cell outside the image range is what it
\* was when programAndVerify was called, the rest of the first and the last
\* sector included, which no final read looks at.
SuccessIsExact ==
    pc = "done" => /\ ImageIn(req, mem)
                   /\ reports => mem = Merged(req, base)

\* At most one sector is ever at risk.  Whatever fails, and across a crash
\* too, the sectors the loop has passed hold their new contents (if the
\* device reports its failures) and those it has not reached their old ones;
\* a sector without a cell of the image is never touched.
OneSectorAtRisk ==
    \A a \in Addr :
        /\ reports /\ SectorOf(a) < sector => mem[a] = Merged(req, base)[a]
        /\ SectorOf(a) > sector => mem[a] = base[a]
        /\ SectorOf(a) \notin First(req) .. Last(req) - 1 => mem[a] = base[a]

\* The final verification never fails on a device that reports its failures:
\* skipping unchanged sectors and erased pages loses nothing.
MismatchMeansFault == pc = "mismatch" => ~reports

\* Repeating an update that completed, with nothing else written meanwhile,
\* erases nothing (unless all sectors are to be rewritten).
RepeatErasesNothing == pc \in {"erase", "program"} /\ ~req.rewrite => ~Same(req)

\* The help text's promise that the changed flash sectors are verified byte
\* for byte (fpgactl/src/cli.cpp, line 397): after a success every cell of
\* them is what programAndVerify meant to write.
ChangedSectorsVerified == pc = "done" => mem = Merged(req, base)
=============================================================================
