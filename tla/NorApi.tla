------------------------------- MODULE NorApi -------------------------------
(***************************************************************************)
(* What a flash session promises to its caller, whatever happens on the    *)
(* wire: a call that returns has done all it was asked for, a call that    *)
(* throws, or is cut off, may have done some of it, and may still be doing *)
(* it until the next session opens.  FlashProgram is written against this  *)
(* interface and SpiNor is shown to implement it.                          *)
(***************************************************************************)
EXTENDS NorFlash

CONSTANTS
    Calls   \* records of op, at (an address) and data (cells to program)

VARIABLES
    mem,      \* the flash array
    safe,     \* the bits of the configuration register that are set
    reports,  \* the device reports its failures: profile.error_mask # 0
    session,  \* "closed", "idle", or "busy" with a call
    call,     \* the last call, which a closed session may still be doing
    before    \* the array when it was made

vars == <<mem, safe, reports, session, call, before>>

Done(m, c) ==
    CASE c.op = "erase"   -> ErasedAt(m, SectorOf(c.at))
      [] c.op = "program" -> Programmed(m, c.data)
      [] OTHER            -> m
PartlyDone(m, c) ==
    CASE c.op = "erase"   -> PartlyErased(m, SectorOf(c.at))
      [] c.op = "program" -> PartlyProgrammed(m, c.data)
      [] OTHER            -> {m}
Repaired(bits, c) == IF c.op = "repair" THEN bits \cup {"boot"} ELSE bits

Init ==
    /\ mem \in Memory /\ safe \in SUBSET NvcrBits /\ reports \in BOOLEAN
    /\ session = "closed"
    /\ call \in Calls
    /\ before = mem

Open ==
    /\ session = "closed"
    /\ session' = "idle"
    /\ UNCHANGED <<mem, safe, reports, call, before>>
Begin(c) ==
    /\ session = "idle"
    /\ session' = "busy"
    /\ call' = c
    /\ before' = mem
    /\ UNCHANGED <<mem, safe, reports>>
Progress ==
    /\ session \in {"busy", "closed"}
    /\ mem' \in PartlyDone(before, call)
    /\ safe' \in {safe, Repaired(safe, call)}
    /\ UNCHANGED <<reports, session, call, before>>
Return ==
    /\ session = "busy"
    /\ reports => mem = Done(before, call)
    /\ safe = Repaired(safe, call)     \* read back, on every device
    /\ session' = "idle"
    /\ UNCHANGED <<mem, safe, reports, call, before>>
\* The call throws, the process dies, or the power fails.
Break ==
    /\ session \in {"idle", "busy"}
    /\ session' = "closed"
    /\ mem' \in {mem} \cup (IF session = "busy" THEN PartlyDone(before, call) ELSE {})
    /\ UNCHANGED <<safe, reports, call, before>>

Next == Open \/ Progress \/ Return \/ Break \/ \E c \in Calls : Begin(c)
Spec == Init /\ [][Next]_vars
=============================================================================
