---------------------------- MODULE SplitCounter ----------------------------
(***************************************************************************)
(* IpDriverLite::read64Stable (dev/src/ip_driver_lite.cpp): reading a      *)
(* counter that runs while its two words are read one at a time.           *)
(***************************************************************************)
EXTENDS Integers

CONSTANTS
    Word,   \* the values of a word: 2^32
    Speed,  \* the most the counter advances between two accesses
    Limit   \* bound: where a run of the model stops counting, below Word^2

ASSUME WordAssumption  == Word \in Nat \ {0}
ASSUME SpeedAssumption == Speed \in Nat /\ Limit \in Nat /\ Limit < Word * Word

VARIABLES
    counter,     \* the 64-bit counter
    pc,          \* the reader: where it is,
    first, low,  \*   what it has read in this attempt,
    result,      \*   what it returned,
    began,       \* history: the counter when the call began,
    attempts     \*   and how many times it has tried
vars == <<counter, pc, first, low, result, began, attempts>>

High(c) == c \div Word
Low(c) == c % Word

Init ==
    /\ counter \in 0 .. Limit
    /\ pc = "idle"
    /\ first = 0 /\ low = 0 /\ result = counter
    /\ began = counter /\ attempts = 0

\* The counter advances between two accesses of the reader.
Advance(n) == counter + n <= Limit /\ counter' = counter + n

Call ==
    /\ pc = "idle"
    /\ pc' = "first"
    /\ began' = counter
    /\ attempts' = 1
    /\ UNCHANGED <<first, low, result>>
ReadFirst ==
    /\ pc = "first"
    /\ first' = High(counter)
    /\ pc' = "low"
    /\ UNCHANGED <<low, result, began, attempts>>
ReadLow ==
    /\ pc = "low"
    /\ low' = Low(counter)
    /\ pc' = "second"
    /\ UNCHANGED <<first, result, began, attempts>>
\* Mutants: the high word is not compared; a new attempt keeps the old one.
ReadSecondTrusts ==
    /\ pc = "second"
    /\ result' = first * Word + low /\ pc' = "idle"
    /\ UNCHANGED <<first, low, began, attempts>>
ReadSecondKeeps ==
    /\ pc = "second"
    /\ IF High(counter) = first
       THEN result' = first * Word + low /\ pc' = "idle" /\ UNCHANGED attempts
       ELSE pc' = "low" /\ attempts' = attempts + 1 /\ UNCHANGED result
    /\ UNCHANGED <<first, low, began>>
ReadSecond ==
    /\ pc = "second"
    /\ IF High(counter) = first
       THEN result' = first * Word + low /\ pc' = "idle" /\ UNCHANGED attempts
       ELSE pc' = "first" /\ attempts' = attempts + 1 /\ UNCHANGED result
    /\ UNCHANGED <<first, low, began>>

Reader == Call \/ ReadFirst \/ ReadLow \/ ReadSecond
Next == Reader /\ \E n \in 0 .. Speed : Advance(n)
Spec == Init /\ [][Next]_vars

-----------------------------------------------------------------------------
TypeOK ==
    /\ counter \in Nat /\ began \in Nat /\ result \in Nat
    /\ first \in Nat /\ low \in Nat
    /\ pc \in {"idle", "first", "low", "second"}
    /\ attempts \in Nat

\* No tear: the value returned is one the counter had during the call, however
\* fast it runs and wherever the carry falls among the three accesses.
NoTear == pc = "idle" => began <= result /\ result <= counter

\* A call needs a second attempt at most if the carry cannot come twice while
\* it lasts.
SecondTryIsLast == 6 * Speed <= Word => attempts <= 2
=============================================================================
