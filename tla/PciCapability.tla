---------------------------- MODULE PciCapability ----------------------------
(***************************************************************************)
(* decodePcieControl and setMrrs (fpgactl/src/pcie.cpp): refuse a PCI      *)
(* configuration space without a readable capability list, walk a list     *)
(* that may be cut short or malformed, then write the read-request size in *)
(* the Device Control register it leads to and read it back, while other   *)
(* software may write the same register.  Slot n is the four bytes from    *)
(* offset 4 * n.                                                           *)
(***************************************************************************)
EXTENDS Integers, FiniteSets

CONSTANTS
    Slots,    \* the slots a link can lead to; a link to 0 ends the list
    Sizes,    \* how many bytes of the space can be read
    MrrsCodes \* the codes of the MRRS field, as sets of bits

ASSUME SlotsAssumption == Slots \subseteq Nat \ {0} /\ IsFiniteSet(Slots)
ASSUME BytesAssumption == Sizes \subseteq Nat

VARIABLES
    size, listed,               \* the space: its bytes, and its status says it has a list,
    start, link, express,       \*   the list's head, its links, the PCIe capabilities
    control,                    \* Device Control: its MRRS field and its other fields
    wpc, pointer, visited,      \* the command: where it is, the walk,
    decoded,                    \*   Device Control as decoded,
    requested,                  \*   the code asked for,
    outside                     \* history: others have written Device Control since
space == <<size, listed, start, link, express>>
walk  == <<pointer, visited>>
pvars == <<space, control, wpc, walk, decoded, requested, outside>>

OtherFields == {"old", "new"}
HeaderSize == 64

PciInit ==
    /\ size \in Sizes /\ listed \in BOOLEAN /\ start \in Slots \cup {0}
    /\ link \in [Slots -> Slots \cup {0}] /\ express \in SUBSET Slots
    /\ control \in [mrrs : MrrsCodes, others : {"old"}]
    /\ wpc = "header" /\ pointer = start /\ visited = {}
    /\ decoded = control    \* readConfig reads the whole space at once
    /\ requested \in MrrsCodes
    /\ outside = FALSE

\* Mutant: one byte short.
WithinShort(slot, bytes) == 4 * slot + bytes < size
Within(slot, bytes) == 4 * slot + bytes <= size

Stop(verdict) ==
    /\ wpc' = verdict
    /\ UNCHANGED <<space, control, walk, decoded, requested, outside>>

\* A space without a whole header, or whose status shows no list, is refused.
CheckHeader ==
    /\ wpc = "header"
    /\ Stop(IF size < HeaderSize \/ ~listed THEN "unlisted" ELSE "walk")

\* The loop's ways out, in its order, and the next capability.
Missing   == wpc = "walk" /\ pointer = 0 /\ Stop("missing")
Truncated == wpc = "walk" /\ pointer # 0 /\ ~Within(pointer, 2) /\ Stop("truncated")
Entry     == wpc = "walk" /\ pointer # 0 /\ Within(pointer, 2)
Malformed == Entry /\ pointer \in visited /\ Stop("malformed")
Found ==
    /\ Entry /\ pointer \notin visited /\ pointer \in express
    /\ wpc' = IF Within(pointer, 10) THEN "found" ELSE "truncated"
    /\ visited' = visited \cup {pointer}
    /\ UNCHANGED <<space, control, pointer, decoded, requested, outside>>
\* Mutant: the slots already seen are not recorded.
ForwardUnmarked ==
    /\ Entry /\ pointer \notin visited /\ pointer \notin express
    /\ pointer' = link[pointer]
    /\ UNCHANGED <<space, control, wpc, visited, decoded, requested, outside>>
Forward ==
    /\ Entry /\ pointer \notin visited /\ pointer \notin express
    /\ visited' = visited \cup {pointer}
    /\ pointer' = link[pointer]
    /\ UNCHANGED <<space, control, wpc, decoded, requested, outside>>

\* Mutant: the field's old bits are not cleared.
UpdatedMerged == [decoded EXCEPT !.mrrs = @ \cup requested]
Updated == [decoded EXCEPT !.mrrs = requested]
\* pwrite: the endpoint takes the value, or all of it but a size it does not
\* support; a short write throws, after the readback.
Write ==
    /\ wpc = "found"
    /\ \/ control' \in {Updated, [Updated EXCEPT !.mrrs = control.mrrs]} /\ wpc' = "written"
       \/ control' = control /\ wpc' = "failed"
    /\ UNCHANGED <<space, walk, decoded, requested, outside>>
\* pread: only the field is compared.
Verify ==
    /\ wpc = "written"
    /\ wpc' = IF control.mrrs = Updated.mrrs THEN "done" ELSE "failed"
    /\ UNCHANGED <<space, control, walk, decoded, requested, outside>>
ReadbackFails ==
    /\ wpc = "written"
    /\ Stop("failed")

\* The kernel or another tool writes the register: after it was read (the
\* walk does not look at it, so the write may as well come at its end), or
\* before it is read back.
OtherWrites ==
    /\ wpc \in {"found", "written"}
    /\ control' \in [mrrs : MrrsCodes, others : OtherFields]
    /\ outside' = TRUE
    /\ UNCHANGED <<space, wpc, walk, decoded, requested>>

Command == CheckHeader \/ Missing \/ Truncated \/ Malformed \/ Found \/ Forward
           \/ Write \/ Verify \/ ReadbackFails
PciNext == Command \/ OtherWrites
PciSpec == PciInit /\ [][PciNext]_pvars /\ WF_pvars(Command)

-----------------------------------------------------------------------------
\* The reference: where the links lead after so many steps, and what is there.
Ends(p) == p = 0 \/ 4 * p + 2 > size \/ p \in express
Trail[n \in 0 .. Cardinality(Slots)] ==
    IF n = 0 THEN start ELSE IF Ends(Trail[n - 1]) THEN Trail[n - 1] ELSE link[Trail[n - 1]]
Reached == Trail[Cardinality(Slots)]
Expected ==
    IF ~(HeaderSize <= size /\ listed) THEN "unlisted"
    ELSE CASE ~Ends(Reached)               -> "malformed"
           [] Reached = 0                  -> "missing"
           [] Reached # 0 /\ Ends(Reached) -> IF 4 * Reached + 10 <= size THEN "found" ELSE "truncated"

\* decodePcieControl refuses a space without a readable list; in any other it
\* finds the first PCIe capability that the links lead to, and throws only where
\* there is none: a list is malformed if it never ends, truncated if it leaves
\* what can be read, whatever way its links cross.
VerdictIsRight ==
    /\ wpc \in {"unlisted", "missing", "truncated", "malformed", "found"} => wpc = Expected
    /\ wpc \in {"found", "written", "done"} => pointer = Reached

\* setMrrs announces a change only if, others staying away, the register has
\* the size asked for and its other fields are untouched: a read-modify-write
\* from a value that was read before the walk.
MrrsAsAsked ==
    wpc = "done" /\ ~outside => control = [decoded EXCEPT !.mrrs = requested]

\* The walk ends, also on a list that runs in a circle.
WalkEnds == wpc \in {"header", "walk"} ~> wpc \notin {"header", "walk"}
=============================================================================
