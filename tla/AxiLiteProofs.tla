--------------------------- MODULE AxiLiteProofs ---------------------------
(***************************************************************************)
(* read64Stable never returns a torn value, for words of any size and a    *)
(* counter of any speed, as long as the whole counter does not wrap; a     *)
(* GPIO channel is pending exactly while it has an event to report; and    *)
(* both hold with the two threads at work over one XDMAUser.               *)
(***************************************************************************)
EXTENDS AxiLite, Quotients, TLAPS

\* What the reader has seen so far belongs to values the counter has had, in
\* order, since the call began.
SeenInv ==
    /\ began <= counter
    /\ pc \in {"low", "second"} => first <= High(counter)
    /\ pc = "second" => \E c \in Nat :
        /\ began <= c /\ c <= counter
        /\ first <= High(c)
        /\ low = Low(c)

IInv == TypeOK /\ SeenInv /\ NoTear

\* The two words of a value make it up again.
LEMMA WordsOfValue ==
    ASSUME NEW c \in Nat
    PROVE  /\ High(c) \in Nat /\ Low(c) \in Nat /\ Low(c) < Word
           /\ c = High(c) * Word + Low(c)
  BY QuotientRemainder, WordAssumption DEF High, Low

\* A carry only ever raises the high word.
LEMMA HighMonotone ==
    ASSUME NEW c \in Nat, NEW d \in Nat, c <= d
    PROVE  High(c) <= High(d)
  BY QuotientMonotone, WordAssumption DEF High

\* The invariant holds when the reader has not been called yet.
LEMMA InitInv == Init => IInv
  BY DEF Init, IInv, TypeOK, SeenInv, NoTear

\* Every access of the reader, and the counter running meanwhile, keeps it.
LEMMA StepInv == IInv /\ [Next]_vars => IInv'
  <1> SUFFICES ASSUME IInv, [Next]_vars PROVE IInv'
    OBVIOUS
  <1>1. CASE UNCHANGED vars
    BY <1>1 DEF IInv, TypeOK, SeenInv, NoTear, vars
  <1>2. CASE Next
    <2>1. counter \in Nat /\ counter' \in Nat /\ counter <= counter'
      BY <1>2, SpeedAssumption DEF Next, Advance, IInv, TypeOK
    <2>2. /\ High(counter) \in Nat /\ Low(counter) \in Nat
          /\ High(counter') \in Nat /\ High(counter) <= High(counter')
      BY <2>1, WordsOfValue, HighMonotone
    <2>3. CASE Call
      BY <2>1, <2>3 DEF Call, IInv, TypeOK, SeenInv, NoTear
    <2>4. CASE ReadFirst
      BY <2>1, <2>2, <2>4 DEF ReadFirst, IInv, TypeOK, SeenInv, NoTear
    <2>5. CASE ReadLow
      <3>1. /\ began <= counter /\ first <= High(counter)
            /\ began' = began /\ first' = first /\ low' = Low(counter) /\ pc' = "second"
        BY <2>5 DEF ReadLow, IInv, SeenInv
      <3>2. TypeOK' /\ NoTear'
        BY <2>1, <2>2, <2>5 DEF ReadLow, IInv, TypeOK, NoTear
      <3>3. first <= High(counter') /\ began <= counter'
        BY <2>1, <2>2, <3>1 DEF IInv, TypeOK
      <3>4. \E c \in Nat : /\ began <= c /\ c <= counter'
                           /\ first <= High(c) /\ low' = Low(c)
        BY <2>1, <3>1
      <3>5. SeenInv'
        BY <3>1, <3>3, <3>4 DEF SeenInv, High, Low
      <3> QED
        BY <3>2, <3>5 DEF IInv
    <2>6. CASE ReadSecond
      <3>1. CASE High(counter) = first
        <4>1. PICK c \in Nat : /\ began <= c /\ c <= counter
                               /\ first <= High(c) /\ low = Low(c)
          BY <2>6 DEF ReadSecond, IInv, SeenInv
        <4>2. High(c) = first
          <5>1. High(c) \in Nat /\ High(c) <= High(counter)
            BY <2>1, <4>1, HighMonotone, WordsOfValue
          <5> QED
            BY <2>2, <3>1, <4>1, <5>1
        <4>3. result' = c
          BY <2>6, <3>1, <4>1, <4>2, WordsOfValue DEF ReadSecond
        <4>4. /\ pc' = "idle" /\ attempts' = attempts
              /\ first' = first /\ low' = low /\ began' = began
          BY <2>6, <3>1 DEF ReadSecond
        <4>5. TypeOK'
          BY <2>1, <4>3, <4>4 DEF IInv, TypeOK
        <4>6. SeenInv' /\ NoTear'
          BY <2>1, <4>1, <4>3, <4>4 DEF IInv, TypeOK, SeenInv, NoTear
        <4> QED
          BY <4>5, <4>6 DEF IInv
      <3>2. CASE High(counter) # first
        BY <2>1, <2>6, <3>2 DEF ReadSecond, IInv, TypeOK, SeenInv, NoTear
      <3> QED
        BY <3>1, <3>2
    <2> QED
      BY <1>2, <2>3, <2>4, <2>5, <2>6 DEF Next, Reader
  <1> QED
    BY <1>1, <1>2

-----------------------------------------------------------------------------
(* The number of attempts. *)

\* A counter that is slow enough for the assumption carries between the two
\* high words of the first attempt at the earliest, and is then too far from
\* its next carry for the second attempt to see it.
Slow == 6 * Speed <= Word
AttemptInv ==
    /\ pc \in {"low", "second"} /\ attempts = 1 =>
        counter < first * Word + Word + (IF pc = "low" THEN Speed ELSE 2 * Speed)
    /\ attempts = 2 => CASE pc = "first"  -> Low(counter) < 3 * Speed
                         [] pc = "low"    -> Low(counter) < 4 * Speed /\ High(counter) = first
                         [] pc = "second" -> Low(counter) < 5 * Speed /\ High(counter) = first
                         [] OTHER         -> TRUE
TryInv == Slow => attempts <= 2 /\ AttemptInv

\* The counter moves by at most Speed, within its word if there is room.
LEMMA SlowAdvance ==
    ASSUME NEW n \in 0 .. Speed, counter \in Nat, Advance(n)
    PROVE  /\ counter' \in Nat /\ counter' <= counter + Speed
           /\ Low(counter) + Speed < Word =>
                High(counter') = High(counter) /\ Low(counter') <= Low(counter) + Speed
  <1>1. /\ n \in Nat /\ Speed \in Nat /\ n <= Speed /\ counter' = counter + n
        /\ Word \in Nat \ {0} /\ Low(counter) \in Nat
    BY SpeedAssumption, WordAssumption, WordsOfValue DEF Advance
  <1>2. ASSUME Low(counter) + Speed < Word
        PROVE  High(counter') = High(counter) /\ Low(counter') <= Low(counter) + Speed
    <2>1. (counter % Word) + n < Word
      BY <1>1, <1>2 DEF Low
    <2>2. (counter + n) \div Word = counter \div Word /\ (counter + n) % Word = (counter % Word) + n
      BY <1>1, <2>1, QuotientSame
    <2> QED
      BY <1>1, <2>2 DEF High, Low
  <1> QED
    BY <1>1, <1>2

\* Two high words that differ have a carry between them, a short while ago.
LEMMA JustCarried ==
    ASSUME counter \in Nat, first \in Nat, first <= High(counter), High(counter) # first,
           Slow, counter < first * Word + Word + 2 * Speed
    PROVE  Low(counter) < 2 * Speed
  <1>1. /\ Speed \in Nat /\ Word \in Nat \ {0} /\ 6 * Speed <= Word
        /\ High(counter) \in Nat /\ Low(counter) \in Nat
        /\ counter = High(counter) * Word + Low(counter)
    BY SpeedAssumption, WordAssumption, WordsOfValue DEF Slow
  <1> DEFINE h == High(counter)
             k == h - (first + 1)
  <1>2. k \in Nat /\ h = first + 1 + k
    BY <1>1
  <1> HIDE DEF k
  <1>3. h * Word = first * Word + Word + k * Word /\ k * Word \in Nat /\ first * Word \in Nat
    BY <1>1, <1>2
  <1> QED
    BY <1>1, <1>3

\* Every step keeps the invariant.
LEMMA TryStep == IInv /\ TryInv /\ [Next]_vars => TryInv'
  <1> SUFFICES ASSUME IInv, TryInv, [Next]_vars, Slow
               PROVE  (attempts <= 2 /\ AttemptInv)'
    BY DEF TryInv, Slow
  <1>1. CASE UNCHANGED vars
    BY <1>1 DEF TryInv, AttemptInv, vars, Low, High
  <1>2. CASE Next
    <2>1. PICK n \in 0 .. Speed : Advance(n)
      BY <1>2 DEF Next
    <2>2. /\ Speed \in Nat /\ Word \in Nat \ {0} /\ 6 * Speed <= Word
          /\ counter \in Nat /\ first \in Nat /\ attempts \in Nat
          /\ High(counter) \in Nat /\ Low(counter) \in Nat /\ Low(counter) < Word
          /\ counter = High(counter) * Word + Low(counter)
      BY SpeedAssumption, WordAssumption, WordsOfValue DEF Slow, IInv, TypeOK
    <2>3. /\ counter' \in Nat /\ counter' <= counter + Speed
          /\ High(counter') \in Nat /\ Low(counter') \in Nat
          /\ Low(counter) + Speed < Word =>
                High(counter') = High(counter) /\ Low(counter') <= Low(counter) + Speed
      BY <2>1, <2>2, SlowAdvance, WordsOfValue
    <2>4. attempts <= 2 /\ AttemptInv
      BY DEF TryInv
    <2>5. CASE Call
      BY <2>5 DEF Call, AttemptInv
    <2>6. CASE ReadFirst
      <3>1. pc = "first" /\ pc' = "low" /\ first' = High(counter) /\ attempts' = attempts
        BY <2>6 DEF ReadFirst
      <3>2. CASE attempts = 1
        <4>1. counter' < first' * Word + Word + Speed
          BY <2>2, <2>3, <3>1, first' * Word \in Nat
        <4> QED
          BY <3>1, <3>2, <4>1 DEF AttemptInv
      <3>3. CASE attempts = 2
        <4>1. Low(counter) < 3 * Speed
          BY <2>4, <3>1, <3>3 DEF AttemptInv
        <4>2. Low(counter') < 4 * Speed /\ High(counter') = first'
          BY <2>2, <2>3, <3>1, <4>1
        <4> QED
          BY <3>1, <3>3, <4>2 DEF AttemptInv, Low, High
      <3> QED
        BY <2>4, <3>1, <3>2, <3>3 DEF AttemptInv
    <2>7. CASE ReadLow
      <3>1. pc = "low" /\ pc' = "second" /\ first' = first /\ attempts' = attempts
        BY <2>7 DEF ReadLow
      <3>2. CASE attempts = 1
        <4>1. counter < first * Word + Word + Speed
          BY <2>4, <3>1, <3>2 DEF AttemptInv
        <4>2. counter' < first' * Word + Word + 2 * Speed
          BY <2>2, <2>3, <3>1, <4>1, first * Word \in Nat
        <4> QED
          BY <3>1, <3>2, <4>2 DEF AttemptInv
      <3>3. CASE attempts = 2
        <4>1. Low(counter) < 4 * Speed /\ High(counter) = first
          BY <2>4, <3>1, <3>3 DEF AttemptInv
        <4>2. Low(counter') < 5 * Speed /\ High(counter') = first'
          BY <2>2, <2>3, <3>1, <4>1
        <4> QED
          BY <3>1, <3>3, <4>2 DEF AttemptInv, Low, High
      <3> QED
        BY <2>4, <3>1, <3>2, <3>3 DEF AttemptInv
    <2>8. CASE ReadSecond
      <3>1. CASE High(counter) = first
        BY <2>4, <2>8, <3>1 DEF ReadSecond, AttemptInv
      <3>2. CASE High(counter) # first
        <4>1. pc = "second" /\ pc' = "first" /\ attempts' = attempts + 1
          BY <2>8, <3>2 DEF ReadSecond
        <4>2. attempts # 2
          BY <2>4, <3>2, <4>1 DEF AttemptInv
        <4>3. CASE attempts = 1
          <5>1. counter < first * Word + Word + 2 * Speed /\ first <= High(counter)
            BY <2>4, <4>1, <4>3 DEF AttemptInv, IInv, SeenInv
          <5>2. Low(counter) < 2 * Speed
            BY <2>2, <3>2, <5>1, JustCarried
          <5>3. Low(counter') < 3 * Speed
            BY <2>2, <2>3, <5>2
          <5> QED
            BY <4>1, <4>3, <5>3 DEF AttemptInv, Low
        <4>4. CASE attempts = 0
          BY <2>2, <4>1, <4>4 DEF AttemptInv
        <4> QED
          BY <2>2, <2>4, <4>2, <4>3, <4>4
      <3> QED
        BY <3>1, <3>2
    <2> QED
      BY <1>2, <2>5, <2>6, <2>7, <2>8 DEF Next, Reader
  <1> QED
    BY <1>1, <1>2

-----------------------------------------------------------------------------
\* A value returned by read64Stable is one the counter had during the call.
THEOREM StableReadIsAtomic == Spec => []NoTear
  <1>1. IInv => NoTear
    BY DEF IInv
  <1> QED
    BY InitInv, StepInv, <1>1, PTL DEF Spec

\* The variables of the reader keep their types.
THEOREM CounterTypes == Spec => []TypeOK
  <1>1. IInv => TypeOK
    BY DEF IInv
  <1> QED
    BY InitInv, StepInv, <1>1, PTL DEF Spec

\* A counter that cannot carry twice in a call is read in two attempts.
THEOREM SecondTryEnough == Spec => []SecondTryIsLast
  <1>1. Init => TryInv
    BY DEF Init, TryInv, AttemptInv
  <1>2. TryInv => SecondTryIsLast
    BY DEF TryInv, Slow, SecondTryIsLast
  <1> QED
    BY InitInv, StepInv, TryStep, <1>1, <1>2, PTL DEF Spec

-----------------------------------------------------------------------------
(* The GPIO driver. *)

\* Between the two accesses the bits to be toggled stay pending: only the
\* driver takes an event away.
ToggleInv == gpc = "write" => toggle \subseteq isr
GpioInv == GpioTypeOK /\ ToggleInv /\ PendingIsRaised

\* The invariant holds while no channel had an event.
LEMMA GpioInitInv == GpioInit => GpioInv
  BY DEF GpioInit, GpioInv, GpioTypeOK, ToggleInv, PendingIsRaised, supported

\* Events and the driver's accesses keep it.
LEMMA GpioStepInv == GpioInv /\ [GpioNext]_gpio => GpioInv'
  <1> SUFFICES ASSUME GpioInv, [GpioNext]_gpio PROVE GpioInv'
    OBVIOUS
  <1> USE DEF GpioInv, GpioTypeOK, ToggleInv, PendingIsRaised, supported
  <1>1. ASSUME NEW n \in {1, 2}, Event(n) PROVE GpioInv'
    BY <1>1 DEF Event
  <1>2. ASSUME NEW bits \in SUBSET MaskBits, Clear(bits) PROVE GpioInv'
    BY <1>2 DEF Clear
  <1>3. CASE ReadStatus
    BY <1>3 DEF ReadStatus, ClearPending
  <1>4. CASE WriteStatus
    BY <1>4 DEF WriteStatus
  <1>5. CASE AccessThrows
    BY <1>5 DEF AccessThrows
  <1>6. CASE UNCHANGED gpio
    BY <1>6 DEF gpio
  <1> QED
    BY <1>1, <1>2, <1>3, <1>4, <1>5, <1>6 DEF GpioNext

\* Clearing GPIO interrupts creates none and loses none.
THEOREM PendingExact == GpioSpec => []PendingIsRaised
  <1>1. GpioInv => PendingIsRaised
    BY DEF GpioInv
  <1> QED
    BY GpioInitInv, GpioStepInv, <1>1, PTL DEF GpioSpec

-----------------------------------------------------------------------------
(* Both threads. *)

\* The shape of the composition: a step of one thread leaves what the other
\* thread's driver sees alone, so the theorems about each one can be used here.
LEMMA ThreadsAreIndependent == LiteSpec => Spec /\ GpioSpec
  <1>1. LiteInit => Init /\ GpioInit
    BY DEF LiteInit
  <1>2. [LiteNext]_<<vars, gpio>> => [Next]_vars /\ [GpioNext]_gpio
    BY DEF LiteNext, CounterStep, GpioStep
  <1> QED
    BY <1>1, <1>2, PTL DEF LiteSpec, Spec, GpioSpec

\* What both drivers promise, of the specification that the run checks: the
\* two threads together tear no read, need no third attempt and lose or invent
\* no interrupt.
THEOREM LiteSafe == LiteSpec => [](NoTear /\ SecondTryIsLast /\ PendingIsRaised)
  BY ThreadsAreIndependent, StableReadIsAtomic, SecondTryEnough, PendingExact, PTL
=============================================================================
