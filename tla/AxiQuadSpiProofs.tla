-------------------------- MODULE AxiQuadSpiProofs --------------------------
(***************************************************************************)
(* The safety of the AXI Quad SPI driver, for any set of requests and any  *)
(* number of register accesses that fail.                                  *)
(***************************************************************************)
EXTENDS AxiQuadSpi, SequenceTheorems, TLAPS

Harmless == {"softreset", "fiforeset", "fifowait", "idle", "none", "readints", "ackints"}
Accesses == Harmless \cup {"fill", "readcontrol", "flash", "run", "poll", "drain", "discard"}
Flags == {"txempty", "cmderr"}

\* The access that is due when n of a script are left, its own included.
InPrepare(n) ==
    CASE n = 6 -> "fiforeset" [] n = 5 -> "fifowait" [] n = 4 -> "idle" [] n = 3 -> "none"
      [] n = 2 -> "readints" [] OTHER -> "ackints"
InPrime(n) ==
    CASE n = 6 -> "fill" [] n = 5 -> "readcontrol" [] n = 4 -> "run" [] n = 3 -> "readcontrol"
      [] n = 2 -> "idle" [] OTHER -> "discard"
InTransfer(n) ==
    CASE n \in 6 .. 11 -> InPrepare(n - 5)
      [] n = 5 -> "fill" [] n = 4 -> "readcontrol" [] n = 3 -> "flash" [] n = 2 -> "run"
      [] OTHER -> "poll"
InAnswer(n) ==
    CASE n = 5 -> "idle" [] n = 4 -> "drain" [] n = 3 -> "none" [] n = 2 -> "readints"
      [] OTHER -> "ackints"

left == Len(todo)
\* A transfer before its poll is over, and after it has found the reply.
Polling == phase = "transfer" /\ todo # <<>> /\ todo[left] = "poll"
Answering == phase = "transfer" /\ todo # <<>> /\ todo[left] # "poll" /\ exit = "none"

TypeOK ==
    /\ running \in BOOLEAN /\ selected \in BOOLEAN /\ resetting \in BOOLEAN
    /\ {tx, window, meant, request} \subseteq Seq(Bytes)
    /\ {rx, result} \subseteq Seq(Nat)
    /\ ints \subseteq Flags /\ seen \subseteq Flags
    /\ phase \in DOMAIN Phases \cup {"idle", "absent"}
    /\ exit \in {"none", "ok", "rejected", "late", "iofail"}
    /\ request # <<>>

\* What is left of a function is the end of its script.
PlaceInv ==
    /\ todo \in Seq(Accesses)
    /\ todo = <<>> <=> phase \in {"idle", "absent"}
    /\ phase = "prepare" => left \in 1 .. 6 /\ \A i \in 1 .. left : todo[i] = InPrepare(left + 1 - i)
    /\ phase = "prime" => left \in 1 .. 6 /\ \A i \in 1 .. left : todo[i] = InPrime(left + 1 - i)
    /\ Polling => /\ left \in 1 .. 11 /\ \A i \in 1 .. left : todo[i] = InTransfer(left + 1 - i)
                  /\ exit = "none"
    /\ Answering => left \in 1 .. 5 /\ \A i \in 1 .. left : todo[i] = InAnswer(left + 1 - i)
    /\ phase \in {"settle", "restore", "destroy"} \/ (phase = "transfer" /\ exit # "none") =>
           \A i \in 1 .. left : todo[i] \in Harmless
    /\ exit = "ok" => phase # "transfer"

\* The flash has a prefix of what was meant for it, and as long as the core
\* shifts into it, the FIFO holds the rest.
SameUpTo(s, t, k) == \A i \in 1 .. k : s[i] = t[i]
WindowInv ==
    /\ Len(window) <= Len(meant) /\ SameUpTo(window, meant, Len(window))
    /\ running /\ selected =>
         /\ Len(meant) = Len(window) + Len(tx)
         /\ \A i \in 1 .. Len(tx) : meant[Len(window) + i] = tx[i]

\* The clock of STARTUP runs with the flash not selected.
PrimeInv ==
    /\ phase = "prepare" /\ left <= 5 => tx = <<>> /\ ~running
    /\ phase = "prepare" /\ left <= 2 => ~selected
    /\ phase = "prime" => ~selected
    /\ phase = "prime" /\ left = 6 => Len(tx) < 3 /\ ~running

\* The numbers that stand for the replies, from one on.
Counts(s, from) == \A i \in 1 .. Len(s) : s[i] = from + i
PollInv ==
    Polling =>
        /\ result = <<>>
        /\ left \in 2 .. 10 => ~running /\ rx = <<>>
        /\ left \in 6 .. 10 => tx = <<>>
        /\ left \in 3 .. 7 => ~selected
        /\ left = 6 => seen = ints
        /\ left \in 2 .. 5 => ints = {}
        /\ left = 5 => Len(tx) < Len(request) /\ SameUpTo(tx, request, Len(tx))
        /\ left \in 2 .. 4 => tx = request
        /\ left = 2 => window = <<>>
        /\ left \in 1 .. 2 => selected /\ meant = request
        /\ left = 1 =>
             /\ running /\ Len(rx) = Len(window) /\ Counts(rx, 0)
             /\ "txempty" \in ints => tx = <<>>
AnswerInv ==
    Answering =>
        /\ window = request /\ tx = <<>> /\ Counts(result, 0)
        /\ left \in 4 .. 5 =>
             /\ Len(result) < Len(request)
             /\ Len(rx) = Len(request) - Len(result) /\ Counts(rx, Len(result))
        /\ left \in 1 .. 3 => Len(result) = Len(request)
        /\ left \in 1 .. 2 => ~selected
OkInv ==
    exit = "ok" => /\ ~selected /\ window = request
                   /\ Len(result) = Len(request) /\ Counts(result, 0)

SpiInv == TypeOK /\ PlaceInv /\ WindowInv /\ PrimeInv /\ PollInv /\ AnswerInv /\ OkInv

-----------------------------------------------------------------------------
(* The scripts. *)

\* The steps that every function begins with, in the order of InPrepare.
LEMMA PrepareScript ==
    /\ Prepare \in Seq(Accesses) /\ Len(Prepare) = 6
    /\ \A i \in 1 .. 6 : Prepare[i] = InPrepare(7 - i) /\ Prepare[i] \in Harmless
  <1>1. /\ Prepare \in Seq(Accesses) /\ Len(Prepare) = 6
        /\ Prepare[1] = "fiforeset" /\ Prepare[2] = "fifowait" /\ Prepare[3] = "idle"
        /\ Prepare[4] = "none" /\ Prepare[5] = "readints" /\ Prepare[6] = "ackints"
    BY DEF Prepare, ResetFifos, ClearInterrupts, Accesses, Harmless
  <1>2. ASSUME NEW i \in 1 .. 6
        PROVE  Prepare[i] = InPrepare(7 - i) /\ Prepare[i] \in Harmless
    BY <1>1 DEF InPrepare, Harmless
  <1> QED
    BY <1>1, <1>2

\* The steps of a transfer up to its poll, in the order of InTransfer.
LEMMA TransferScript ==
    /\ Transfer \in Seq(Accesses) /\ Len(Transfer) = 11
    /\ \A i \in 1 .. 11 : Transfer[i] = InTransfer(12 - i)
  <1> DEFINE P == Prepare
             E == <<"fill", "readcontrol", "flash", "run", "poll">>
  <1>1. E \in Seq(Accesses) /\ Len(E) = 5 /\ \A i \in 1 .. 5 : E[i] = InTransfer(6 - i)
    BY DEF InTransfer, Accesses
  <1>2. P \in Seq(Accesses) /\ Len(P) = 6 /\ \A i \in 1 .. 6 : P[i] = InPrepare(7 - i)
    BY PrepareScript
  <1>3. Transfer = P \o E
    BY DEF Transfer
  <1> HIDE DEF P, E
  <1>4. /\ P \o E \in Seq(Accesses) /\ Len(P \o E) = Len(P) + Len(E)
        /\ \A i \in 1 .. Len(P) + Len(E) : (P \o E)[i] = IF i <= Len(P) THEN P[i] ELSE E[i - Len(P)]
    BY <1>1, <1>2, ConcatProperties
  <1>5. ASSUME NEW i \in 1 .. 11 PROVE Transfer[i] = InTransfer(12 - i)
    <2>1. CASE i \in 1 .. 6
      <3>1. Transfer[i] = InPrepare(7 - i) /\ (12 - i) - 5 = 7 - i /\ 12 - i \in 6 .. 11
        BY <2>1, <1>1, <1>2, <1>3, <1>4
      <3> QED
        BY <3>1 DEF InTransfer
    <2>2. CASE i \in 7 .. 11
      <3>1. i - 6 \in 1 .. 5 /\ 6 - (i - 6) = 12 - i
        BY <2>2
      <3>2. Transfer[i] = E[i - 6]
        <4>1. i \in 1 .. Len(P) + Len(E) /\ ~(i <= Len(P)) /\ i - Len(P) = i - 6
          BY <2>2, <1>1, <1>2
        <4>2. (P \o E)[i] = E[i - Len(P)]
          BY <4>1, <1>4
        <4> QED
          BY <4>1, <4>2, <1>3
      <3> QED
        BY <3>1, <3>2, <1>1
    <2> QED
      BY <2>1, <2>2
  <1> QED
    BY <1>1, <1>2, <1>3, <1>4, <1>5

\* The clock and the draining, in their orders; the other scripts only stop the
\* core, select nothing and reset.
LEMMA OtherScripts ==
    /\ PrimeClock \in Seq(Accesses) /\ Len(PrimeClock) = 6
    /\ \A i \in 1 .. 6 : PrimeClock[i] = InPrime(7 - i)
    /\ OnTxEmpty \in Seq(Accesses) /\ Len(OnTxEmpty) = 5
    /\ \A i \in 1 .. 5 : OnTxEmpty[i] = InAnswer(6 - i)
    /\ \A s \in {OnRejected, OnDeadline, Settle, Settle \o Reset} :
           s \in Seq(Accesses) /\ s # <<>> /\ \A i \in 1 .. Len(s) : s[i] \in Harmless
  <1>1. /\ PrimeClock \in Seq(Accesses) /\ Len(PrimeClock) = 6
        /\ \A i \in 1 .. 6 : PrimeClock[i] = InPrime(7 - i)
    BY DEF PrimeClock, InPrime, Accesses, Harmless
  <1>2. /\ OnTxEmpty \in Seq(Accesses) /\ Len(OnTxEmpty) = 5
        /\ OnTxEmpty[1] = "idle" /\ OnTxEmpty[2] = "drain" /\ OnTxEmpty[3] = "none"
        /\ OnTxEmpty[4] = "readints" /\ OnTxEmpty[5] = "ackints"
    BY DEF OnTxEmpty, ClearInterrupts, Accesses, Harmless
  <1>3. ASSUME NEW i \in 1 .. 5 PROVE OnTxEmpty[i] = InAnswer(6 - i)
    BY <1>2 DEF InAnswer
  <1>4. ASSUME NEW s \in {OnRejected, OnDeadline, Settle}
        PROVE  s \in Seq(Accesses) /\ s # <<>> /\ \A i \in 1 .. Len(s) : s[i] \in Harmless
    <2>1. CASE s = OnRejected
      BY <2>1 DEF OnRejected, Accesses, Harmless
    <2>2. CASE s = OnDeadline
      BY <2>2 DEF OnDeadline, Accesses, Harmless
    <2>3. CASE s = Settle
      BY <2>3 DEF Settle, Accesses, Harmless
    <2> QED
      BY <2>1, <2>2, <2>3
  <1>5. /\ Settle \o Reset \in Seq(Accesses) /\ Settle \o Reset # <<>>
        /\ \A i \in 1 .. Len(Settle \o Reset) : (Settle \o Reset)[i] \in Harmless
    <2> DEFINE A == <<"softreset">>
               P == Prepare
               S == Settle
               R == A \o P
    <2>1. A \in Seq(Accesses) /\ Len(A) = 1 /\ A[1] \in Harmless
      BY DEF Accesses, Harmless
    <2>2. P \in Seq(Accesses) /\ Len(P) = 6 /\ \A i \in 1 .. 6 : P[i] \in Harmless
      BY PrepareScript
    <2>3. S \in Seq(Accesses) /\ Len(S) = 2 /\ \A i \in 1 .. 2 : S[i] \in Harmless
      BY DEF Settle, Accesses, Harmless
    <2>4. Settle \o Reset = S \o R
      BY DEF Reset
    <2> HIDE DEF A, P, S
    <2>5. R \in Seq(Accesses) /\ Len(R) = Len(A) + Len(P)
          /\ \A i \in 1 .. Len(A) + Len(P) : R[i] = IF i <= Len(A) THEN A[i] ELSE P[i - Len(A)]
      BY <2>1, <2>2, ConcatProperties
    <2>6. R \in Seq(Accesses) /\ Len(R) = 7 /\ \A i \in 1 .. 7 : R[i] \in Harmless
      BY <2>1, <2>2, <2>5
    <2> HIDE DEF R
    <2>7. S \o R \in Seq(Accesses) /\ Len(S \o R) = Len(S) + Len(R)
          /\ \A i \in 1 .. Len(S) + Len(R) : (S \o R)[i] = IF i <= Len(S) THEN S[i] ELSE R[i - Len(S)]
      BY <2>3, <2>6, ConcatProperties
    <2>8. Len(S \o R) = 9 /\ \A i \in 1 .. 9 : (S \o R)[i] \in Harmless
      <3>1. Len(S) + Len(R) = 9
        BY <2>3, <2>6
      <3>2. ASSUME NEW i \in 1 .. 9 PROVE (S \o R)[i] \in Harmless
        <4>1. CASE i <= 2
          BY <4>1, <3>1, <2>3, <2>7
        <4>2. CASE ~(i <= 2)
          <5>1. i - Len(S) \in 1 .. 7 /\ ~(i <= Len(S)) /\ i \in 1 .. Len(S) + Len(R)
            BY <4>2, <3>1, <2>3
          <5> QED
            BY <5>1, <2>6, <2>7
        <4> QED
          BY <4>1, <4>2
      <3> QED
        BY <3>1, <3>2, <2>7
    <2>9. S \o R # <<>>
      BY <2>8
    <2> QED
      BY <2>4, <2>7, <2>8, <2>9
  <1> QED
    BY <1>1, <1>2, <1>3, <1>4, <1>5

\* What a function leaves to do when it is entered, and what comes after it.
LEMMA Entering ==
    /\ DOMAIN Phases = {"prepare", "prime", "settle", "restore", "transfer", "destroy"}
    /\ Enter("prepare") => phase' = "prepare" /\ todo' = Prepare
    /\ Enter("prime") => phase' = "prime" /\ todo' = PrimeClock
    /\ Enter("settle") => phase' = "settle" /\ todo' = Settle \o Reset
    /\ Enter("restore") => phase' = "restore" /\ todo' = Settle
    /\ Enter("transfer") => phase' = "transfer" /\ todo' = Transfer
    /\ Enter("destroy") => phase' = "destroy" /\ todo' = Settle
    /\ \A q \in {"idle", "absent"} : Enter(q) => phase' = q /\ todo' = <<>>
    /\ After["prepare"] = "prime" /\ After["prime"] = "settle" /\ After["settle"] = "idle"
    /\ After["restore"] = "absent" /\ After["transfer"] = "idle" /\ After["destroy"] = "absent"
  <1>1. DOMAIN Phases = {"prepare", "prime", "settle", "restore", "transfer", "destroy"}
    BY DEF Phases
  <1>2. /\ Phases["prepare"] = Prepare /\ Phases["prime"] = PrimeClock
        /\ Phases["settle"] = Settle \o Reset /\ Phases["restore"] = Settle
        /\ Phases["transfer"] = Transfer /\ Phases["destroy"] = Settle
    BY DEF Phases
  <1>3. /\ After["prepare"] = "prime" /\ After["prime"] = "settle" /\ After["settle"] = "idle"
        /\ After["restore"] = "absent" /\ After["transfer"] = "idle" /\ After["destroy"] = "absent"
    BY DEF After
  <1> QED
    BY <1>1, <1>2, <1>3 DEF Enter

\* The beginning of each function satisfies the invariant.
LEMMA Beginnings ==
    /\ \A q \in {"idle", "absent"} : Enter(q) => PlaceInv'
    /\ \A q \in {"settle", "restore", "destroy"} : Enter(q) => PlaceInv'
    /\ Enter("prepare") \/ Enter("prime") => PlaceInv'
    /\ Enter("transfer") /\ exit' = "none" => PlaceInv' /\ Polling' /\ left' = 11
  <1>1. ASSUME NEW q \in {"idle", "absent"}, Enter(q) PROVE PlaceInv'
    <2>1. phase' = q /\ todo' = <<>>
      BY <1>1, Entering
    <2> QED
      BY <2>1 DEF PlaceInv, Polling, Answering, left
  <1>2. ASSUME NEW q \in {"settle", "restore", "destroy"}, Enter(q) PROVE PlaceInv'
    <2>1. phase' = q /\ todo' \in {Settle, Settle \o Reset}
      BY <1>2, Entering
    <2>2. todo' \in Seq(Accesses) /\ todo' # <<>> /\ \A i \in 1 .. Len(todo') : todo'[i] \in Harmless
      BY <2>1, OtherScripts
    <2> QED
      BY <2>1, <2>2 DEF PlaceInv, Polling, Answering, left
  <1>3. ASSUME Enter("prepare") PROVE PlaceInv'
    <2>1. phase' = "prepare" /\ todo' = Prepare
      BY <1>3, Entering
    <2>2. todo' \in Seq(Accesses) /\ Len(todo') = 6 /\ \A i \in 1 .. 6 : todo'[i] = InPrepare(7 - i)
      BY <2>1, PrepareScript
    <2> QED
      BY <2>1, <2>2 DEF PlaceInv, Polling, Answering, left
  <1>4. ASSUME Enter("prime") PROVE PlaceInv'
    <2>1. phase' = "prime" /\ todo' = PrimeClock
      BY <1>4, Entering
    <2>2. todo' \in Seq(Accesses) /\ Len(todo') = 6 /\ \A i \in 1 .. 6 : todo'[i] = InPrime(7 - i)
      BY <2>1, OtherScripts
    <2> QED
      BY <2>1, <2>2 DEF PlaceInv, Polling, Answering, left
  <1>5. ASSUME Enter("transfer"), exit' = "none" PROVE PlaceInv' /\ Polling' /\ left' = 11
    <2>1. phase' = "transfer" /\ todo' = Transfer
      BY <1>5, Entering
    <2>2. todo' \in Seq(Accesses) /\ Len(todo') = 11 /\ \A i \in 1 .. 11 : todo'[i] = InTransfer(12 - i)
      BY <2>1, TransferScript
    <2>3. todo'[11] = "poll"
      <3>1. 12 - 11 = 1 /\ 11 \in 1 .. 11 /\ InTransfer(1) = "poll"
        BY DEF InTransfer
      <3> QED
        BY <2>2, <3>1
    <2> QED
      BY <1>5, <2>1, <2>2, <2>3 DEF PlaceInv, Polling, Answering, left
  <1> QED
    BY <1>1, <1>2, <1>3, <1>4, <1>5

\* Which access is due at which place.
LEMMA Dues ==
    /\ \A k \in 1 .. 6 :
         /\ InPrepare(k) \in Harmless \ {"softreset"}
         /\ InPrepare(k) = "fiforeset" <=> k = 6
         /\ InPrepare(k) = "none"      <=> k = 3
         /\ InPrepare(k) = "readints"  <=> k = 2
         /\ InPrepare(k) = "ackints"   <=> k = 1
    /\ \A k \in 1 .. 6 :
         /\ InPrime(k) \in {"fill", "readcontrol", "run", "idle", "discard"}
         /\ InPrime(k) = "fill" <=> k = 6
    /\ \A k \in 1 .. 11 :
         /\ InTransfer(k) \notin {"drain", "discard", "softreset"}
         /\ InTransfer(k) = "fiforeset" <=> k = 11
         /\ InTransfer(k) = "fifowait"  <=> k = 10
         /\ InTransfer(k) = "idle"      <=> k = 9
         /\ InTransfer(k) = "none"      <=> k = 8
         /\ InTransfer(k) = "readints"  <=> k = 7
         /\ InTransfer(k) = "ackints"   <=> k = 6
         /\ InTransfer(k) = "fill"      <=> k = 5
         /\ InTransfer(k) = "readcontrol" <=> k = 4
         /\ InTransfer(k) = "flash"     <=> k = 3
         /\ InTransfer(k) = "run"       <=> k = 2
         /\ InTransfer(k) = "poll"      <=> k = 1
    /\ \A k \in 1 .. 5 :
         /\ InAnswer(k) \in {"idle", "drain", "none", "readints", "ackints"}
         /\ InAnswer(k) = "idle"     <=> k = 5
         /\ InAnswer(k) = "drain"    <=> k = 4
         /\ InAnswer(k) = "none"     <=> k = 3
         /\ InAnswer(k) = "readints" <=> k = 2
         /\ InAnswer(k) = "ackints"  <=> k = 1
  BY DEF InPrepare, InPrime, InTransfer, InAnswer, Harmless

\* Other: in a script that only stops the core, selects nothing and resets.
Other == phase \in {"settle", "restore", "destroy"} \/ (phase = "transfer" /\ exit # "none")
\* Where the driver may be, and which access is due there.
LEMMA Place ==
    ASSUME TypeOK, PlaceInv, todo # <<>>
    PROVE  /\ phase = "prepare" \/ phase = "prime" \/ Polling \/ Answering \/ Other
           /\ left \in Nat \ {0}
           /\ phase = "prepare" => left \in 1 .. 6 /\ Head(todo) = InPrepare(left)
           /\ phase = "prime" => left \in 1 .. 6 /\ Head(todo) = InPrime(left)
           /\ Polling => left \in 1 .. 11 /\ Head(todo) = InTransfer(left) /\ exit = "none"
           /\ Answering => left \in 1 .. 5 /\ Head(todo) = InAnswer(left) /\ exit = "none"
           /\ Other => Head(todo) \in Harmless
  <1>1. todo \in Seq(Accesses) /\ left \in Nat \ {0} /\ Head(todo) = todo[1]
    BY DEF PlaceInv, left
  <1> HIDE DEF left
  <1>2. 1 \in 1 .. left /\ left + 1 - 1 = left
    BY <1>1
  <1>3. phase = "prepare" \/ phase = "prime" \/ Polling \/ Answering \/ Other
    BY Entering DEF TypeOK, PlaceInv, Polling, Answering, Other
  <1> QED
    BY <1>1, <1>2, <1>3 DEF PlaceInv, Answering, Other

\* One access further in the same script.
LEMMA GoFurther ==
    ASSUME TypeOK, PlaceInv, todo # <<>>, Go, left # 1
    PROVE  /\ PlaceInv' /\ phase' = phase /\ exit' = exit /\ left' = left - 1
           /\ (Polling' <=> Polling) /\ (Answering' <=> Answering)
  <1>1. phase' = phase /\ exit' = exit /\ todo' = Tail(todo) /\ todo \in Seq(Accesses)
    BY DEF Go, left, PlaceInv
  <1>2. /\ todo' \in Seq(Accesses) /\ left \in Nat \ {0, 1} /\ left' = left - 1
        /\ \A i \in 1 .. left - 1 : todo'[i] = todo[i + 1]
    BY <1>1 DEF left
  <1>3. todo' # <<>>
    BY <1>2 DEF left
  <1> HIDE DEF left
  <1>4. todo'[left'] = todo[left]
    <2>1. left - 1 \in 1 .. left - 1 /\ (left - 1) + 1 = left
      BY <1>2
    <2> QED
      BY <1>2, <2>1
  <1>5. (Polling' <=> Polling) /\ (Answering' <=> Answering)
    BY <1>1, <1>3, <1>4 DEF Polling, Answering
  <1>6. ASSUME NEW i \in 1 .. left'
        PROVE  i + 1 \in 1 .. left /\ todo'[i] = todo[i + 1] /\ left' + 1 - i = left + 1 - (i + 1)
    BY <1>2
  <1>7. phase = "prepare" => left' \in 1 .. 6 /\ \A i \in 1 .. left' : todo'[i] = InPrepare(left' + 1 - i)
    BY <1>2, <1>6 DEF PlaceInv
  <1>8. phase = "prime" => left' \in 1 .. 6 /\ \A i \in 1 .. left' : todo'[i] = InPrime(left' + 1 - i)
    BY <1>2, <1>6 DEF PlaceInv
  <1>9. Polling => left' \in 1 .. 11 /\ \A i \in 1 .. left' : todo'[i] = InTransfer(left' + 1 - i)
    BY <1>2, <1>6 DEF PlaceInv
  <1>10. Answering => left' \in 1 .. 5 /\ \A i \in 1 .. left' : todo'[i] = InAnswer(left' + 1 - i)
    BY <1>2, <1>6 DEF PlaceInv
  <1>11. phase \in {"settle", "restore", "destroy"} \/ (phase = "transfer" /\ exit # "none") =>
           \A i \in 1 .. left' : todo'[i] \in Harmless
    BY <1>6 DEF PlaceInv
  <1>12. PlaceInv'
    BY <1>1, <1>2, <1>3, <1>5, <1>7, <1>8, <1>9, <1>10, <1>11 DEF PlaceInv
  <1> QED
    BY <1>1, <1>2, <1>5, <1>12

\* The last access of a function.
LEMMA GoOver ==
    ASSUME TypeOK, PlaceInv, todo # <<>>, Go, left = 1
    PROVE  /\ PlaceInv' /\ ~Polling' /\ ~Answering' /\ phase' # "transfer" /\ phase' # "prepare"
           /\ phase' = "prime" => phase = "prepare" /\ left' = 6
           /\ exit' = IF phase = "transfer" /\ exit = "none" THEN "ok" ELSE exit
           /\ phase = "transfer" => phase' = "idle"
  <1>1. Enter(After[phase]) /\ exit' = IF phase = "transfer" /\ exit = "none" THEN "ok" ELSE exit
    BY DEF Go, left
  <1>2. phase \in {"prepare", "prime", "settle", "restore", "transfer", "destroy"}
    BY Entering DEF TypeOK, PlaceInv
  <1>3. CASE phase = "prepare"
    <2>1. Enter("prime") /\ phase' = "prime" /\ todo' = PrimeClock
      BY <1>1, <1>3, Entering
    <2> QED
      BY <1>1, <1>3, <2>1, OtherScripts, Beginnings DEF left, Polling, Answering
  <1>4. CASE phase = "prime"
    <2>1. Enter("settle") /\ phase' = "settle"
      BY <1>1, <1>4, Entering
    <2> QED
      BY <1>1, <1>4, <2>1, Beginnings DEF Polling, Answering
  <1>5. CASE phase \in {"settle", "restore", "transfer", "destroy"}
    <2>1. PICK q \in {"idle", "absent"} : Enter(q) /\ phase' = q /\ (phase = "transfer" => q = "idle")
      BY <1>1, <1>5, Entering
    <2> QED
      BY <1>1, <1>5, <2>1, Beginnings DEF Polling, Answering
  <1> QED
    BY <1>2, <1>3, <1>4, <1>5

\* A function that throws leaves its script.
LEMMA Thrown ==
    ASSUME NEW how, Throw(how), how \in {"late", "iofail"}
    PROVE  /\ PlaceInv' /\ ~Polling' /\ ~Answering' /\ exit' = how
           /\ phase' \in {"restore", "idle", "absent"}
  <1>1. PICK q \in {"restore", "idle", "absent"} : Enter(q) /\ exit' = how
    BY DEF Throw
  <1>2. phase' = q
    BY <1>1, Entering
  <1> QED
    BY <1>1, <1>2, Beginnings DEF Polling, Answering

Spots == DOMAIN Phases \cup {"idle", "absent"}
Exits == {"none", "ok", "rejected", "late", "iofail"}
\* Where the driver was before an access that went on.
LEMMA Advance ==
    ASSUME TypeOK, PlaceInv, todo # <<>>, Go, Head(todo) # "poll"
    PROVE  /\ PlaceInv' /\ phase' \in Spots /\ exit' \in Exits
           /\ phase' = "prepare" => phase = "prepare" /\ left' = left - 1 /\ left \in 2 .. 6
           /\ phase' = "prime" => \/ phase = "prime" /\ left' = left - 1 /\ left \in 2 .. 6
                                  \/ phase = "prepare" /\ left = 1 /\ left' = 6
           /\ Polling' => Polling /\ left' = left - 1 /\ left \in 2 .. 11
           /\ Answering' => Answering /\ left' = left - 1 /\ left \in 2 .. 5
           /\ exit' = "ok" => exit = "ok" \/ (Answering /\ left = 1)
  <1>1. CASE left # 1
    <2>1. phase' \in Spots /\ exit' \in Exits
      BY <1>1, GoFurther DEF TypeOK, Spots, Exits
    <2> QED
      BY <1>1, <2>1, GoFurther, Place
  <1>2. CASE left = 1
    <2>1. phase \in {"prepare", "prime", "settle", "restore", "transfer", "destroy"}
      BY Entering DEF TypeOK, PlaceInv
    <2>2. Enter(After[phase])
      BY <1>2 DEF Go, left
    <2>3. phase' \in Spots
      BY <2>1, <2>2, Entering DEF Spots
    <2>4. exit' \in Exits
      BY <1>2, GoOver DEF TypeOK, Exits
    <2>5. ~Polling
      <3>1. 1 \in 1 .. 11 /\ InTransfer(1) = "poll"
        BY Dues
      <3> QED
        BY <1>2, <3>1, Place
    <2>6. phase = "transfer" /\ exit = "none" => Answering
      BY <2>5 DEF Polling, Answering
    <2> QED
      BY <1>2, <2>3, <2>4, <2>6, GoOver
  <1> QED
    BY <1>1, <1>2

\* The accesses and what they are: what is due is done, and the driver goes on
\* but after a byte of a loop, at a deadline, and at the end of the poll.
Going == Fiforeset \/ Idle \/ Run \/ SelectNone \/ SelectFlash \/ ReadInts \/ AckInts
           \/ ReadControl \/ Discard \/ SoftReset \/ (Fill /\ Go) \/ (Drain /\ Go) \/ (FifoWait /\ Go)
Staying == (Fill \/ Drain) /\ UNCHANGED <<phase, todo, exit>>
Failing == AccessFails \/ (FifoWait /\ Throw("late"))
Calling == Construct \/ Destroy \/ Kill \/ \E r \in Requests : BeginTransfer(r)
\* Every step is one of these.
LEMMA Steps ==
    /\ Next => Going \/ Staying \/ Failing \/ Poll \/ Calling \/ Core
    /\ Going => Go /\ todo # <<>> /\ Head(todo) # "poll"
  <1>1. Access => Going \/ Staying \/ Failing \/ Poll
    BY DEF Access, Going, Staying, Failing, Fill, Drain, FifoWait
  <1>2. Next => Access \/ AccessFails \/ Core \/ Calling
    BY DEF Next, Calling
  <1>3. Going => Go /\ todo # <<>> /\ Head(todo) # "poll"
    BY DEF Going, Fiforeset, Idle, Run, SelectNone, SelectFlash, ReadInts, AckInts, ReadControl,
           Discard, SoftReset, Fill, Drain, FifoWait, At
  <1> QED
    BY <1>1, <1>2, <1>3 DEF Failing

\* What a call, a kill or a failure leaves.
LEMMA CallsPlace ==
    ASSUME TypeOK, PlaceInv, Calling \/ Failing
    PROVE  /\ PlaceInv' /\ phase' \in Spots /\ exit' \in Exits /\ UNCHANGED <<core, seen>>
           /\ phase' # "prime" /\ ~Answering'
           /\ phase' = "prepare" => left' = 6
           /\ Polling' => left' = 11 /\ result' = <<>>
           /\ exit' = "ok" => exit = "ok" /\ UNCHANGED <<request, result>>
           /\ request' \in Seq(Bytes) /\ request' # <<>> /\ result' \in Seq(Nat)
  <1> USE DEF Spots, Exits
  <1>n. request \in Seq(Bytes) /\ request # <<>> /\ result \in Seq(Nat) /\ exit \in Exits
    BY DEF TypeOK
  <1>1. CASE Construct
    <2>1. phase' = "prepare" /\ todo' = Prepare /\ Enter("prepare")
      BY <1>1, Entering DEF Construct
    <2>2. PlaceInv' /\ left' = 6
      BY <2>1, Beginnings, PrepareScript DEF left
    <2> QED
      BY <1>1, <1>n, <2>1, <2>2, Entering DEF Construct, Polling, Answering
  <1>2. CASE Destroy
    <2>1. phase' = "destroy" /\ Enter("destroy")
      BY <1>2, Entering DEF Destroy
    <2> QED
      BY <1>2, <1>n, <2>1, Beginnings, Entering DEF Destroy, Polling, Answering
  <1>3. CASE Kill
    <2>1. phase' = "absent" /\ Enter("absent")
      BY <1>3, Entering DEF Kill
    <2> QED
      BY <1>3, <1>n, <2>1, Beginnings, Entering DEF Kill, Polling, Answering
  <1>4. ASSUME NEW r \in Requests, BeginTransfer(r)
        PROVE  /\ PlaceInv' /\ phase' = "transfer" /\ exit' = "none" /\ UNCHANGED <<core, seen>>
               /\ Polling' /\ left' = 11 /\ result' = <<>> /\ ~Answering'
               /\ request' \in Seq(Bytes) /\ request' # <<>>
    <2>1. Enter("transfer") /\ exit' = "none"
      BY <1>4 DEF BeginTransfer
    <2> QED
      BY <1>4, <2>1, Beginnings, Entering, RequestsAssumption DEF BeginTransfer, Polling, Answering
  <1>5. CASE Failing
    <2>1. PICK how \in {"late", "iofail"} : Throw(how)
      BY <1>5 DEF Failing, AccessFails
    <2>2. UNCHANGED <<core, seen, request, result>>
      BY <1>5 DEF Failing, AccessFails, FifoWait
    <2> QED
      BY <1>n, <2>1, <2>2, Thrown, Entering
  <1>6. <<>> \in Seq(Nat)
    OBVIOUS
  <1>7. ASSUME NEW r \in Requests, BeginTransfer(r) PROVE phase' \in Spots /\ result' \in Seq(Nat)
    BY <1>4, <1>6, <1>7, Entering
  <1> QED
    BY <1>1, <1>2, <1>3, <1>4, <1>5, <1>7 DEF Calling

\* What the end of a poll leaves.
LEMMA PollPlace ==
    ASSUME TypeOK, PlaceInv, Poll
    PROVE  /\ Polling /\ left = 1 /\ phase' = "transfer" /\ UNCHANGED <<core, request, result>>
           /\ PlaceInv' /\ ~Polling' /\ exit' \in Exits \ {"ok"}
           /\ Answering' => left' = 5 /\ "txempty" \in ints
  <1>1. todo # <<>> /\ Head(todo) = "poll"
    BY DEF Poll, At
  <1>2. Polling /\ left = 1
    <2>1. ~(phase = "prepare") /\ ~(phase = "prime") /\ ~Answering /\ ~Other
      BY <1>1, Place, Dues DEF Harmless
    <2> QED
      BY <1>1, <2>1, Place, Dues
  <1>3. phase' = "transfer" /\ exit = "none" /\ UNCHANGED <<core, request, result>>
    BY <1>1, <1>2, Place DEF Poll, Polling
  <1>4. CASE todo' = OnTxEmpty /\ "txempty" \in ints /\ exit' = exit
    <2>1. /\ todo' \in Seq(Accesses) /\ Len(todo') = 5 /\ \A i \in 1 .. 5 : todo'[i] = InAnswer(6 - i)
          /\ todo' # <<>> /\ left' = 5
      <3>1. todo' \in Seq(Accesses) /\ Len(todo') = 5 /\ \A i \in 1 .. 5 : todo'[i] = InAnswer(6 - i)
        BY <1>4, OtherScripts
      <3>2. todo' # <<>>
        BY <3>1
      <3> QED
        BY <3>1, <3>2 DEF left
    <2>2. todo'[5] = "ackints"
      <3>1. 5 \in 1 .. 5 /\ 6 - 5 = 1 /\ 1 \in 1 .. 5
        OBVIOUS
      <3> QED
        BY <2>1, <3>1, Dues
    <2> QED
      BY <1>2, <1>3, <1>4, <2>1, <2>2 DEF PlaceInv, Polling, Answering, Exits, left
  <1>5. CASE todo' \in {OnRejected, OnDeadline} /\ exit' \in {"rejected", "late"}
    <2>1. /\ todo' \in Seq(Accesses) /\ todo' # <<>> /\ left' \in 1 .. left'
          /\ \A i \in 1 .. left' : todo'[i] \in Harmless
      BY <1>5, OtherScripts DEF left
    <2>2. todo'[left'] # "poll"
      BY <2>1 DEF Harmless
    <2> QED
      BY <1>2, <1>3, <1>5, <2>1, <2>2 DEF PlaceInv, Polling, Answering, Exits
  <1> QED
    BY <1>2, <1>3, <1>4, <1>5 DEF Poll

\* The place is kept by every step.
LEMMA PlaceStep ==
    ASSUME TypeOK, PlaceInv, [Next]_vars
    PROVE  PlaceInv' /\ phase' \in Spots /\ exit' \in Exits
  <1>u. ASSUME UNCHANGED <<phase, todo, exit>> PROVE PlaceInv' /\ phase' \in Spots /\ exit' \in Exits
    BY <1>u DEF PlaceInv, Polling, Answering, left, TypeOK, Spots, Exits
  <1>1. CASE Going
    BY <1>1, Steps, Advance
  <1>2. CASE Staying
    BY <1>2, <1>u DEF Staying
  <1>3. CASE Poll
    BY <1>3, PollPlace, Entering DEF Spots
  <1>4. CASE Calling \/ Failing
    BY <1>4, CallsPlace
  <1>5. CASE Core \/ UNCHANGED vars
    <2>1. UNCHANGED <<phase, todo, exit>>
      BY <1>5 DEF Core, Shift, Refuse, FifosReset, vars, driver
    <2> QED
      BY <2>1, <1>u
  <1> QED
    BY <1>1, <1>2, <1>3, <1>4, <1>5, Steps

\* Where the bytes that are written to the FIFO come from.
LEMMA Filled ==
    ASSUME TypeOK, PlaceInv, PrimeInv, PollInv, Fill
    PROVE  /\ tx' = Append(tx, Filling[Len(tx) + 1]) /\ Filling[Len(tx) + 1] \in Bytes
           /\ Len(tx) < Len(Filling) /\ Len(Filling) \in Nat
           /\ \/ phase = "prime" /\ left = 6 /\ Len(Filling) = 3 /\ ~Polling
              \/ Polling /\ left = 5 /\ Filling = request
           /\ UNCHANGED <<running, selected, rx, ints, window, meant, seen, request, result>>
  <1>1. todo # <<>> /\ Head(todo) = "fill" /\ tx \in Seq(Bytes) /\ request \in Seq(Bytes)
    BY DEF Fill, At, TypeOK
  <1>2. (phase = "prime" /\ left = 6 /\ ~Polling) \/ (Polling /\ left = 5 /\ phase # "prime")
    <2>1. ~(phase = "prepare") /\ ~Answering /\ ~Other
      BY <1>1, Place, Dues DEF Harmless
    <2> QED
      BY <1>1, <2>1, Place, Dues DEF Polling
  <1>3. CASE phase = "prime" /\ left = 6 /\ ~Polling
    <2>1. Filling = <<"9f", "00", "00">> /\ Len(tx) < 3 /\ Len(tx) \in Nat
      BY <1>1, <1>3 DEF Filling, PrimeInv
    <2>2. Len(Filling) = 3 /\ Len(tx) + 1 \in 1 .. 3
      BY <2>1
    <2>3. Filling[Len(tx) + 1] \in {"9f", "00"}
      BY <2>1, <2>2
    <2> QED
      BY <1>3, <2>1, <2>2, <2>3, BytesAssumption DEF Fill
  <1>4. CASE Polling /\ left = 5 /\ phase # "prime"
    <2>1. Filling = request /\ Len(tx) < Len(request) /\ Len(tx) \in Nat /\ Len(request) \in Nat
      BY <1>1, <1>4 DEF Filling, PollInv
    <2>2. Len(tx) + 1 \in 1 .. Len(request)
      BY <2>1
    <2>3. Filling[Len(tx) + 1] \in Bytes
      BY <1>1, <2>1, <2>2
    <2> QED
      BY <1>4, <2>1, <2>3 DEF Fill
  <1> QED
    BY <1>2, <1>3, <1>4

\* The types.
LEMMA TypeStep ==
    ASSUME TypeOK, PlaceInv, PrimeInv, PollInv, [Next]_vars
    PROVE  TypeOK'
  <1>p. phase' \in DOMAIN Phases \cup {"idle", "absent"} /\ exit' \in {"none", "ok", "rejected", "late", "iofail"}
    BY PlaceStep DEF Spots, Exits
  <1>e. <<>> \in Seq(Bytes) /\ <<>> \in Seq(Nat)
    OBVIOUS
  <1> DEFINE Wires == running' \in BOOLEAN /\ selected' \in BOOLEAN /\ resetting' \in BOOLEAN
             Flagged == ints' \subseteq Flags /\ seen' \subseteq Flags
             Sent == tx' \in Seq(Bytes) /\ window' \in Seq(Bytes) /\ meant' \in Seq(Bytes)
                     /\ request' \in Seq(Bytes) /\ request' # <<>>
             Received == rx' \in Seq(Nat) /\ result' \in Seq(Nat)
  <1>q. SUFFICES Wires /\ Flagged /\ Sent /\ Received
    BY <1>p DEF TypeOK
  <1>1. CASE Fill
    BY <1>1, Filled DEF Fill, TypeOK
  <1>2. CASE Drain
    <2>1. PopRx[1] \in Nat /\ PopRx[2] \in Seq(Nat)
      BY DEF PopRx, TypeOK
    <2>2. Received
      BY <1>2, <2>1 DEF Drain, TypeOK
    <2> QED
      BY <1>2, <2>2 DEF Drain, TypeOK
  <1>3. CASE Discard
    <2>1. SubSeq(rx, 3, Len(rx)) \in Seq(Nat)
      BY DEF TypeOK
    <2> QED
      BY <1>3, <2>1 DEF Discard, TypeOK
  <1>4. CASE Shift
    <2>1. Head(tx) \in Bytes /\ Tail(tx) \in Seq(Bytes) /\ Len(window) + 1 \in Nat
      BY <1>4 DEF Shift, TypeOK
    <2>2. Wires /\ Received
      BY <1>4, <2>1 DEF Shift, driver, TypeOK
    <2>3. Sent
      BY <1>4, <2>1 DEF Shift, driver, TypeOK
    <2>4. Flagged
      BY <1>4 DEF Shift, driver, TypeOK, Flags
    <2> QED
      BY <2>2, <2>3, <2>4
  <1>5. CASE Fiforeset \/ SoftReset \/ SelectFlash \/ Idle \/ Run \/ SelectNone \/ FifosReset
    <2>1. Wires
      BY <1>5 DEF Fiforeset, SoftReset, SelectFlash, Idle, Run, SelectNone, FifosReset, TypeOK
    <2>2. Sent
      BY <1>5, <1>e DEF Fiforeset, SoftReset, SelectFlash, Idle, Run, SelectNone, FifosReset, driver, TypeOK
    <2>3. Received
      BY <1>5, <1>e DEF Fiforeset, SoftReset, SelectFlash, Idle, Run, SelectNone, FifosReset, driver, TypeOK
    <2>4. Flagged
      BY <1>5 DEF Fiforeset, SoftReset, SelectFlash, Idle, Run, SelectNone, FifosReset, driver, TypeOK
    <2> QED
      BY <2>1, <2>2, <2>3, <2>4
  <1>6. CASE ReadInts \/ AckInts \/ Refuse \/ Poll
    <2>1. Wires /\ Sent /\ Received
      BY <1>6, PollPlace DEF ReadInts, AckInts, Refuse, driver, core, TypeOK
    <2>2. Flagged
      BY <1>6 DEF ReadInts, AckInts, Refuse, Poll, Toggle, driver, core, TypeOK, Flags
    <2> QED
      BY <2>1, <2>2
  <1>7. CASE ReadControl \/ FifoWait \/ UNCHANGED vars
    BY <1>7 DEF ReadControl, FifoWait, core, vars, driver, TypeOK
  <1>8. CASE Calling \/ Failing
    BY <1>8, CallsPlace DEF core, TypeOK
  <1> QED
    BY <1>1, <1>2, <1>3, <1>4, <1>5, <1>6, <1>7, <1>8 DEF Next, Access, Core, Calling, Failing

\* Only the clock of STARTUP and a transfer start the core.
LEMMA Started ==
    ASSUME TypeOK, PlaceInv, Run
    PROVE  phase = "prime" \/ (Polling /\ left = 2)
  <1>1. todo # <<>> /\ Head(todo) = "run"
    BY DEF Run, At
  <1>2. ~(phase = "prepare") /\ ~Answering /\ ~Other
    BY <1>1, Place, Dues DEF Harmless
  <1> QED
    BY <1>1, <1>2, Place, Dues
\* Only a transfer selects the flash.
LEMMA Chosen ==
    ASSUME TypeOK, PlaceInv, SelectFlash
    PROVE  Polling /\ left = 3
  <1>1. todo # <<>> /\ Head(todo) = "flash"
    BY DEF SelectFlash, At
  <1>2. ~(phase = "prepare") /\ ~(phase = "prime") /\ ~Answering /\ ~Other
    BY <1>1, Place, Dues DEF Harmless
  <1> QED
    BY <1>1, <1>2, Place, Dues

\* The flash receives what it was selected for.
LEMMA WindowStep ==
    ASSUME SpiInv, [Next]_vars
    PROVE  WindowInv'
  <1> USE DEF SpiInv
  <1>n. /\ tx \in Seq(Bytes) /\ window \in Seq(Bytes) /\ meant \in Seq(Bytes) /\ request \in Seq(Bytes)
        /\ Len(window) <= Len(meant) /\ SameUpTo(window, meant, Len(window))
    BY DEF TypeOK, WindowInv
  <1>s. ASSUME UNCHANGED <<window, meant>>, ~(running' /\ selected') \/ UNCHANGED <<running, selected, tx>>
        PROVE  WindowInv'
    BY <1>s DEF WindowInv, SameUpTo
  <1>1. CASE Shift
    <2>1. CASE selected
      <3>1. /\ running /\ selected /\ tx # <<>> /\ tx' = Tail(tx) /\ window' = Append(window, Head(tx))
            /\ UNCHANGED <<running, selected, meant>>
        BY <1>1, <2>1 DEF Shift
      <3>2. /\ Len(meant) = Len(window) + Len(tx)
            /\ \A i \in 1 .. Len(tx) : meant[Len(window) + i] = tx[i]
        BY <3>1 DEF WindowInv
      <3> DEFINE w == Len(window)
                 t == Len(tx)
      <3>3. /\ w \in Nat /\ t \in Nat \ {0} /\ Len(window') = w + 1 /\ Len(tx') = t - 1
            /\ Head(tx) = tx[1] /\ \A i \in 1 .. t - 1 : tx'[i] = tx[i + 1]
            /\ \A i \in 1 .. w : window'[i] = window[i]
            /\ window'[w + 1] = tx[1]
        BY <1>n, <3>1
      <3>4. /\ Len(meant) = w + t /\ \A i \in 1 .. t : meant[w + i] = tx[i]
            /\ \A i \in 1 .. w : window[i] = meant[i]
        BY <3>2, <1>n DEF SameUpTo
      <3> HIDE DEF w, t
      <3>5. \A i \in 1 .. w + 1 : window'[i] = meant[i]
        <4> TAKE i \in 1 .. w + 1
        <4>1. CASE i \in 1 .. w
          BY <4>1, <3>3, <3>4
        <4>2. CASE i = w + 1
          BY <4>2, <3>3, <3>4
        <4> QED
          BY <4>1, <4>2, <3>3
      <3>6. \A i \in 1 .. t - 1 : meant[(w + 1) + i] = tx'[i]
        <4> TAKE i \in 1 .. t - 1
        <4>1. i + 1 \in 1 .. t /\ w + (i + 1) = (w + 1) + i
          BY <3>3
        <4>2. meant[w + (i + 1)] = tx[i + 1] /\ tx'[i] = tx[i + 1]
          BY <4>1, <3>3, <3>4
        <4> QED
          BY <4>1, <4>2
      <3> QED
        BY <3>1, <3>3, <3>4, <3>5, <3>6 DEF WindowInv, SameUpTo
    <2>2. CASE ~selected
      BY <1>1, <2>2, <1>s DEF Shift
    <2> QED
      BY <2>1, <2>2
  <1>2. CASE Run
    <2>1. CASE phase = "prime"
      BY <1>2, <2>1, <1>s DEF Run, PrimeInv
    <2>2. CASE Polling /\ left = 2
      <3>1. window = <<>> /\ meant = request /\ tx = request
        BY <2>2 DEF PollInv
      <3>2. UNCHANGED <<window, meant, tx>> /\ Len(window) = 0
        BY <1>2, <3>1 DEF Run
      <3> QED
        BY <1>n, <3>1, <3>2 DEF WindowInv, SameUpTo
    <2> QED
      BY <1>2, <2>1, <2>2, Started
  <1>3. CASE SelectFlash
    <2>1. ~running /\ ~selected
      BY <1>3, Chosen DEF PollInv
    <2>2. window' = <<>> /\ Len(window') = 0 /\ meant' = request /\ running' = running
      BY <1>3, <2>1 DEF SelectFlash
    <2> QED
      BY <1>n, <2>1, <2>2 DEF WindowInv, SameUpTo
  <1>4. CASE Fill
    BY <1>4, <1>s, Filled DEF PrimeInv, PollInv
  <1>5. CASE Fiforeset \/ SoftReset \/ Idle \/ SelectNone
    BY <1>5, <1>s DEF Fiforeset, SoftReset, Idle, SelectNone
  <1>6. CASE FifoWait \/ ReadInts \/ AckInts \/ ReadControl \/ Drain \/ Discard \/ Refuse \/ FifosReset \/ UNCHANGED vars
    BY <1>6, <1>s DEF FifoWait, ReadInts, AckInts, ReadControl, Drain, Discard, Refuse, FifosReset, core, vars
  <1>7. CASE Poll \/ Calling \/ Failing
    BY <1>7, <1>s, PollPlace, CallsPlace DEF core
  <1> QED
    BY <1>1, <1>2, <1>3, <1>4, <1>5, <1>6, <1>7 DEF Next, Access, Core, Calling, Failing

\* An access that goes on is the one that is due.
LEMMA Doing ==
    ASSUME Going
    PROVE  /\ Head(todo) = "fiforeset"   => Fiforeset
           /\ Head(todo) = "fifowait"    => FifoWait /\ UNCHANGED core
           /\ Head(todo) = "idle"        => Idle
           /\ Head(todo) = "none"        => SelectNone
           /\ Head(todo) = "readints"    => ReadInts
           /\ Head(todo) = "ackints"     => AckInts
           /\ Head(todo) = "fill"        => Fill
           /\ Head(todo) = "readcontrol" => ReadControl
           /\ Head(todo) = "flash"       => SelectFlash
           /\ Head(todo) = "run"         => Run
           /\ Head(todo) = "drain"       => Drain
           /\ Head(todo) = "discard"     => Discard
  BY DEF Going, Fiforeset, FifoWait, Idle, Run, SelectNone, SelectFlash, ReadInts, AckInts, Fill,
         ReadControl, Drain, Discard, SoftReset, At

\* The preparation of a function, in one of its first steps or in the next.
LEMMA Prepared ==
    ASSUME TypeOK, Going, NEW k \in 1 .. 6, Head(todo) = InPrepare(k)
    PROVE  /\ k = 6 => tx' = <<>> /\ rx' = <<>> /\ ~running'
           /\ k # 6 => /\ UNCHANGED <<tx, rx>> /\ (~running => ~running')
           /\ k = 3 => ~selected'
           /\ k # 3 => UNCHANGED selected
           /\ k = 2 => seen' = ints
           /\ k = 1 => ints' = (ints \ seen) \cup (seen \ ints)
           /\ k # 1 => UNCHANGED ints
           /\ UNCHANGED <<window, meant, request, result>>
  <1>1. CASE k = 6
    BY <1>1, Doing, Dues DEF Fiforeset
  <1>2. CASE k = 5
    BY <1>2, Doing DEF InPrepare, FifoWait, core
  <1>3. CASE k = 4
    BY <1>3, Doing DEF InPrepare, Idle
  <1>4. CASE k = 3
    BY <1>4, Doing DEF InPrepare, SelectNone
  <1>5. CASE k = 2
    BY <1>5, Doing, Dues DEF ReadInts, core
  <1>6. CASE k = 1
    BY <1>6, Doing, Dues DEF AckInts, Toggle
  <1> QED
    BY <1>1, <1>2, <1>3, <1>4, <1>5, <1>6

\* The clock runs with the flash not selected.
LEMMA PrimeStep ==
    ASSUME SpiInv, [Next]_vars
    PROVE  PrimeInv'
  <1> USE DEF SpiInv
  <1>1. CASE Going
    <2>g. Go /\ todo # <<>> /\ Head(todo) # "poll"
      BY <1>1, Steps
    <2>1. CASE phase' = "prepare"
      <3>1. phase = "prepare" /\ left \in 2 .. 6 /\ left' = left - 1 /\ Head(todo) = InPrepare(left)
        BY <2>1, <2>g, Advance, Place
      <3> DEFINE k == left
      <3>2. /\ k = 6 => tx' = <<>> /\ ~running'
            /\ k # 6 => UNCHANGED tx /\ (~running => ~running')
            /\ k = 3 => ~selected'
            /\ k # 3 => UNCHANGED selected
        <4>1. k \in 1 .. 6 /\ Head(todo) = InPrepare(k)
          BY <3>1
        <4> HIDE DEF k
        <4> QED
          BY <4>1, <1>1, Prepared
      <3>3. (k <= 5 => tx = <<>> /\ ~running) /\ (k <= 2 => ~selected)
        BY <3>1 DEF PrimeInv
      <3>4. k \in 2 .. 6 /\ left' = k - 1
        BY <3>1
      <3> HIDE DEF k
      <3>5. CASE k = 6
        BY <2>1, <3>2, <3>4, <3>5 DEF PrimeInv
      <3>6. CASE k \in 2 .. 5
        BY <2>1, <3>2, <3>3, <3>4, <3>6 DEF PrimeInv
      <3> QED
        BY <3>4, <3>5, <3>6
    <2>2. CASE phase' = "prime" /\ phase = "prepare" /\ left = 1 /\ left' = 6
      <3>1. Head(todo) = InPrepare(1) /\ 1 \in 1 .. 6
        BY <2>2, <2>g, Place
      <3>2. UNCHANGED <<tx, selected>> /\ (~running => ~running')
        BY <3>1, <1>1, Prepared
      <3>3. tx = <<>> /\ ~running /\ ~selected
        BY <2>2 DEF PrimeInv
      <3>4. Len(tx') = 0
        BY <3>2, <3>3
      <3> QED
        BY <2>2, <3>2, <3>3, <3>4 DEF PrimeInv
    <2>3. CASE phase' = "prime" /\ phase = "prime" /\ left \in 2 .. 6 /\ left' = left - 1
      <3>1. Head(todo) \in {"fill", "readcontrol", "run", "idle", "discard"}
        BY <2>3, <2>g, Place, Dues
      <3>2. selected' = selected
        BY <3>1, <1>1, Doing DEF Fill, ReadControl, Run, Idle, Discard, core
      <3>3. ~selected /\ left' # 6
        BY <2>3 DEF PrimeInv
      <3> QED
        BY <2>3, <3>2, <3>3 DEF PrimeInv
    <2>4. CASE phase' \notin {"prepare", "prime"}
      BY <2>4 DEF PrimeInv
    <2> QED
      BY <2>1, <2>2, <2>3, <2>4, <2>g, Advance
  <1>2. CASE Staying /\ Fill
    <2>1. phase' = phase /\ left' = left /\ todo' = todo
      BY <1>2 DEF Staying, left
    <2>2. CASE phase = "prime"
      <3>1. /\ left = 6 /\ Len(Filling) = 3 /\ Len(tx) < 3 /\ tx' = Append(tx, Filling[Len(tx) + 1])
            /\ UNCHANGED <<running, selected>>
        BY <1>2, <2>2, Filled DEF Polling
      <3>2. Len(tx') = Len(tx) + 1 /\ Len(tx) \in Nat
        BY <3>1 DEF TypeOK
      <3>3. Len(tx) + 1 # 3
        <4> SUFFICES ASSUME Len(tx) + 1 = Len(Filling) PROVE FALSE
          BY <3>1
        <4>1. Go
          BY <1>2 DEF Fill
        <4>2. todo # <<>> /\ left # 1
          BY <1>2, <3>1 DEF Fill, At
        <4>3. left' = left - 1
          BY <4>1, <4>2, GoFurther
        <4> QED
          BY <2>1, <3>1, <4>3
      <3> QED
        BY <2>1, <2>2, <3>1, <3>2, <3>3 DEF PrimeInv
    <2>3. CASE phase # "prime"
      <3>1. phase' \notin {"prepare", "prime"}
        BY <1>2, <2>1, <2>3, Filled DEF Polling
      <3> QED
        BY <3>1 DEF PrimeInv
    <2> QED
      BY <2>2, <2>3
  <1>3. CASE Drain
    <2>1. todo # <<>> /\ Head(todo) = "drain"
      BY <1>3 DEF Drain, At
    <2>2. Answering
      BY <2>1, Place, Dues DEF Harmless
    <2>3. phase' \notin {"prepare", "prime"}
      <3>1. CASE Go
        BY <2>1, <2>2, <3>1, Advance DEF Answering
      <3>2. CASE UNCHANGED <<phase, todo, exit>>
        BY <2>2, <3>2 DEF Answering
      <3> QED
        BY <1>3, <3>1, <3>2 DEF Drain
    <2> QED
      BY <2>3 DEF PrimeInv
  <1>4. CASE Poll
    BY <1>4, PollPlace DEF PrimeInv
  <1>5. CASE Calling \/ Failing
    BY <1>5, CallsPlace DEF PrimeInv
  <1>6. CASE Shift
    <2>1. running /\ UNCHANGED <<running, selected, phase, todo>> /\ left' = left
      BY <1>6 DEF Shift, driver, left
    <2> QED
      BY <2>1 DEF PrimeInv
  <1>7. CASE Refuse \/ FifosReset \/ UNCHANGED vars
    <2>1. UNCHANGED <<running, selected, tx, phase, todo>> /\ left' = left
      BY <1>7 DEF Refuse, FifosReset, vars, core, driver, left
    <2> QED
      BY <2>1 DEF PrimeInv
  <1> QED
    BY <1>1, <1>2, <1>3, <1>4, <1>5, <1>6, <1>7, Steps DEF Staying, Core

\* The byte that completes a request.
LEMMA RequestFilled ==
    ASSUME TypeOK, PlaceInv, PrimeInv, PollInv, Fill, Polling
    PROVE  /\ tx' \in Seq(Bytes) /\ Len(tx') = Len(tx) + 1 /\ Len(tx) \in Nat
           /\ SameUpTo(tx', request, Len(tx')) /\ Filling = request /\ left = 5
           /\ Len(tx') = Len(request) => tx' = request
  <1> DEFINE t == Len(tx)
  <1>1. /\ tx' = Append(tx, request[t + 1]) /\ request[t + 1] \in Bytes /\ Filling = request /\ left = 5
        /\ tx \in Seq(Bytes) /\ request \in Seq(Bytes)
    BY Filled DEF TypeOK
  <1>2. \A i \in 1 .. t : tx[i] = request[i]
    BY <1>1 DEF PollInv, SameUpTo
  <1>3. /\ t \in Nat /\ Len(tx') = t + 1 /\ tx' \in Seq(Bytes)
        /\ \A i \in 1 .. t : tx'[i] = tx[i]
        /\ tx'[t + 1] = request[t + 1]
    BY <1>1
  <1>4. Len(tx') = Len(tx) + 1 /\ Len(tx) \in Nat
    BY <1>3
  <1> HIDE DEF t
  <1>5. \A i \in 1 .. t + 1 : tx'[i] = request[i]
    <2> TAKE i \in 1 .. t + 1
    <2>1. CASE i \in 1 .. t
      BY <2>1, <1>2, <1>3
    <2>2. CASE i = t + 1
      BY <2>2, <1>3
    <2> QED
      BY <2>1, <2>2, <1>3
  <1>6. SameUpTo(tx', request, Len(tx'))
    BY <1>3, <1>5 DEF SameUpTo
  <1>7. Len(tx') = Len(request) => tx' = request
    BY <1>1, <1>3, <1>6, SeqEqual DEF SameUpTo
  <1> QED
    BY <1>1, <1>3, <1>4, <1>6, <1>7

\* A byte goes out and its reply comes in.
LEMMA Shifted ==
    ASSUME TypeOK, Shift, selected, Len(rx) = Len(window), Counts(rx, 0)
    PROVE  /\ Len(rx') = Len(window') /\ Counts(rx', 0)
           /\ "txempty" \in ints' => "txempty" \in ints \/ tx' = <<>>
  <1> DEFINE w == Len(window)
  <1>1. /\ rx' = Append(rx, w + 1) /\ window' = Append(window, Head(tx)) /\ tx # <<>> /\ tx' = Tail(tx)
        /\ rx \in Seq(Nat) /\ window \in Seq(Bytes) /\ tx \in Seq(Bytes) /\ w \in Nat
    BY DEF Shift, TypeOK
  <1>2. /\ w + 1 \in Nat /\ Len(rx) = w /\ Len(window') = w + 1 /\ Len(rx') = w + 1
        /\ rx'[w + 1] = w + 1 /\ \A i \in 1 .. w : rx'[i] = rx[i]
    BY <1>1
  <1>3. \A i \in 1 .. w : rx[i] = 0 + i
    BY <1>2 DEF Counts
  <1> HIDE DEF w
  <1>4. \A i \in 1 .. w + 1 : rx'[i] = 0 + i
    <2> TAKE i \in 1 .. w + 1
    <2>1. CASE i \in 1 .. w
      BY <2>1, <1>2, <1>3
    <2>2. CASE i = w + 1
      BY <2>2, <1>2
    <2> QED
      BY <2>1, <2>2, <1>2
  <1>5. "txempty" \in ints' => "txempty" \in ints \/ tx' = <<>>
    <2>1. CASE Len(tx) = 1
      BY <2>1, <1>1
    <2>2. CASE Len(tx) # 1
      BY <2>2 DEF Shift
    <2> QED
      BY <2>1, <2>2
  <1> QED
    BY <1>2, <1>4, <1>5 DEF Counts

\* A transfer until its poll ends.
LEMMA PollStep ==
    ASSUME SpiInv, [Next]_vars
    PROVE  PollInv'
  <1> USE DEF SpiInv
  <1> SUFFICES ASSUME Polling' PROVE PollInv'
    BY DEF PollInv
  <1>1. CASE Going
    <2>g. Go /\ todo # <<>> /\ Head(todo) # "poll"
      BY <1>1, Steps
    <2> DEFINE k == left
    <2>1. Polling /\ k \in 2 .. 11 /\ left' = k - 1 /\ Head(todo) = InTransfer(k)
      BY <2>g, Advance, Place
    <2>2. /\ result = <<>> /\ request \in Seq(Bytes) /\ request # <<>>
          /\ k <= 10 => ~running /\ rx = <<>>
          /\ k \in 6 .. 10 => tx = <<>>
          /\ k \in 3 .. 7 => ~selected
          /\ k = 6 => seen = ints
          /\ k \in 2 .. 5 => ints = {}
          /\ k \in 2 .. 4 => tx = request
          /\ k = 2 => window = <<>> /\ selected /\ meant = request
      <3>1. request \in Seq(Bytes) /\ request # <<>>
        BY DEF TypeOK
      <3>2. /\ result = <<>>
            /\ k \in 2 .. 10 => ~running /\ rx = <<>>
            /\ k \in 6 .. 10 => tx = <<>>
            /\ k \in 3 .. 7 => ~selected
        BY <2>1 DEF PollInv
      <3>3. /\ k = 6 => seen = ints
            /\ k \in 2 .. 5 => ints = {}
            /\ k \in 2 .. 4 => tx = request
            /\ k = 2 => window = <<>>
            /\ k \in 1 .. 2 => selected /\ meant = request
        BY <2>1 DEF PollInv
      <3>4. k \in 2 .. 11
        BY <2>1
      <3> HIDE DEF k
      <3> QED
        BY <3>1, <3>2, <3>3, <3>4
    <2>f. Fill => UNCHANGED <<running, selected, rx, ints, result, request>> /\ (Go => tx' = request)
      <3> SUFFICES ASSUME Fill PROVE UNCHANGED <<running, selected, rx, ints, result, request>> /\ tx' = request
        BY <2>g
      <3>1. Filling = request /\ Len(tx') = Len(tx) + 1 /\ (Len(tx') = Len(request) => tx' = request)
        BY <2>1, RequestFilled
      <3>2. Len(tx) + 1 = Len(request)
        <4> SUFFICES ASSUME Len(tx) + 1 # Len(Filling) PROVE FALSE
          BY <3>1
        <4>1. left' = left
          BY DEF Fill, left
        <4> QED
          BY <4>1, <2>1
      <3> QED
        BY <3>1, <3>2, Filled
    <2> SUFFICES
          /\ result' = <<>>
          /\ k - 1 \in 2 .. 10 => ~running' /\ rx' = <<>>
          /\ k - 1 \in 6 .. 10 => tx' = <<>>
          /\ k - 1 \in 3 .. 7 => ~selected'
          /\ k - 1 = 6 => seen' = ints'
          /\ k - 1 \in 2 .. 5 => ints' = {}
          /\ k - 1 = 5 => tx' = <<>> /\ request' = request
          /\ k - 1 \in 2 .. 4 => tx' = request'
          /\ k - 1 = 2 => window' = <<>>
          /\ k - 1 \in 1 .. 2 => selected' /\ meant' = request'
          /\ k - 1 = 1 => running' /\ rx' = <<>> /\ window' = <<>> /\ ints' = {}
      <3>1. k - 1 = 5 => Len(tx') < Len(request') /\ SameUpTo(tx', request', Len(tx'))
        BY <2>2 DEF SameUpTo
      <3>2. k - 1 = 1 => Len(rx') = Len(window') /\ Counts(rx', 0)
        BY DEF Counts
      <3> QED
        BY <2>1, <3>1, <3>2 DEF PollInv
    <2> HIDE DEF k
    <2>3. CASE k \in 6 .. 11
      <3> DEFINE j == k - 5
      <3>1. j \in 1 .. 6 /\ Head(todo) = InPrepare(j)
        BY <2>1, <2>3 DEF InTransfer
      <3>2. /\ k = 11 => tx' = <<>> /\ rx' = <<>> /\ ~running'
            /\ k # 11 => UNCHANGED <<tx, rx>> /\ (~running => ~running')
            /\ k = 8 => ~selected'
            /\ k # 8 => UNCHANGED selected
            /\ k = 7 => seen' = ints
            /\ k = 6 => ints' = (ints \ seen) \cup (seen \ ints)
            /\ k # 6 => UNCHANGED ints
            /\ UNCHANGED <<window, meant, request, result>>
        <4>1. (j = 6 <=> k = 11) /\ (j = 3 <=> k = 8) /\ (j = 2 <=> k = 7) /\ (j = 1 <=> k = 6)
          BY <2>3
        <4> HIDE DEF j
        <4> QED
          BY <1>1, <3>1, <4>1, Prepared
      <3>3. CASE k = 11
        BY <2>2, <3>2, <3>3
      <3>4. CASE k = 6
        <4>1. ints' = {}
          BY <2>2, <3>2, <3>4
        <4> QED
          BY <2>2, <3>2, <3>4, <4>1
      <3>5. CASE k \in 7 .. 10
        BY <2>2, <3>2, <3>5
      <3> QED
        BY <2>3, <3>3, <3>4, <3>5
    <2>4. CASE k = 5
      <3>1. Fill
        BY <1>1, <2>1, <2>4, Doing, Dues
      <3> QED
        BY <3>1, <2>2, <2>4, <2>f, <2>g
    <2>5. CASE k = 4
      <3>1. UNCHANGED <<core, request, result>>
        BY <1>1, <2>1, <2>5, Doing, Dues DEF ReadControl
      <3> QED
        BY <3>1, <2>2, <2>5 DEF core
    <2>6. CASE k = 3
      <3>1. SelectFlash
        BY <1>1, <2>1, <2>6, Doing, Dues
      <3> QED
        BY <3>1, <2>2, <2>6 DEF SelectFlash
    <2>7. CASE k = 2
      <3>1. Run
        BY <1>1, <2>1, <2>7, Doing, Dues
      <3> QED
        BY <3>1, <2>2, <2>7 DEF Run
    <2> QED
      BY <2>1, <2>3, <2>4, <2>5, <2>6, <2>7
  <1>2. CASE Staying /\ Fill
    <2>1. Polling /\ left' = left
      BY <1>2 DEF Staying, Polling, left
    <2>2. left = 5 /\ Len(tx') = Len(tx) + 1 /\ SameUpTo(tx', request, Len(tx')) /\ Len(tx) < Len(request)
      BY <1>2, <2>1, RequestFilled, Filled
    <2>3. Len(tx') # Len(request)
      <3> SUFFICES ASSUME Len(tx) + 1 = Len(Filling) PROVE FALSE
        BY <1>2, <2>1, <2>2, RequestFilled
      <3>1. Go /\ todo # <<>> /\ left # 1
        BY <1>2, <2>2 DEF Fill, At
      <3> QED
        BY <2>1, <2>2, <3>1, GoFurther
    <2>4. UNCHANGED <<running, selected, rx, ints, window, meant, seen, request, result>>
      BY <1>2 DEF Fill
    <2>5. Len(tx') < Len(request')
      BY <2>2, <2>3, <2>4 DEF TypeOK
    <2> QED
      BY <2>1, <2>2, <2>4, <2>5 DEF PollInv
  <1>3. CASE Staying /\ Drain
    <2>1. Polling /\ todo # <<>> /\ Head(todo) = "drain"
      BY <1>3 DEF Staying, Polling, Drain, At, left
    <2> QED
      BY <2>1, Place, Dues
  <1>4. CASE Poll
    BY <1>4, PollPlace
  <1>5. CASE Calling \/ Failing
    BY <1>5, CallsPlace DEF PollInv
  <1>6. CASE Core \/ UNCHANGED vars
    <2>1. Polling /\ left' = left /\ UNCHANGED <<running, selected, meant, request, result, seen>>
      BY <1>6 DEF Core, Shift, Refuse, FifosReset, vars, core, driver, Polling, left
    <2>2. CASE Shift
      <3>1. running /\ tx # <<>>
        BY <2>2 DEF Shift
      <3>2. left = 11 \/ left = 1
        BY <2>1, <3>1, Place DEF PollInv, PlaceInv
      <3>3. CASE left = 11
        BY <2>1, <3>3 DEF PollInv
      <3>4. CASE left = 1
        <4>1. /\ result = <<>> /\ selected /\ meant = request /\ running /\ "txempty" \notin ints
              /\ Len(rx) = Len(window) /\ Counts(rx, 0)
          <5>1. /\ left = 1 =>
                     /\ running /\ Len(rx) = Len(window) /\ Counts(rx, 0)
                     /\ "txempty" \in ints => tx = <<>>
                /\ left \in 1 .. 2 => selected /\ meant = request
                /\ result = <<>>
            BY <2>1 DEF PollInv
          <5>4. 1 \in 1 .. 2
            OBVIOUS
          <5>2. /\ result = <<>> /\ selected /\ meant = request /\ running
                /\ Len(rx) = Len(window) /\ Counts(rx, 0)
            BY <3>4, <5>1, <5>4
          <5>3. "txempty" \in ints => tx = <<>>
            BY <3>4, <5>1, <5>4
          <5> QED
            BY <3>1, <5>2, <5>3
        <4> QED
          BY <2>1, <2>2, <3>4, <4>1, Shifted DEF PollInv
      <3> QED
        BY <3>2, <3>3, <3>4
    <2>3. CASE Refuse
      <3>1. running /\ ints' = ints \cup {"cmderr"} /\ UNCHANGED <<tx, rx, window>>
        BY <2>3 DEF Refuse
      <3>2. left = 11 \/ left = 1
        BY <2>1, <3>1, Place DEF PollInv, PlaceInv
      <3>3. CASE left = 11
        BY <2>1, <3>3 DEF PollInv
      <3>4. CASE left = 1
        BY <2>1, <3>1, <3>4 DEF PollInv, Counts
      <3> QED
        BY <3>2, <3>3, <3>4
    <2>4. CASE UNCHANGED <<tx, rx, ints, window>>
      BY <2>1, <2>4 DEF PollInv, Counts, SameUpTo
    <2> QED
      BY <1>6, <2>2, <2>3, <2>4 DEF Core, FifosReset, vars, core
  <1> QED
    BY <1>1, <1>2, <1>3, <1>4, <1>5, <1>6, Steps DEF Staying

\* The byte that is drained is the next reply.
LEMMA Drained ==
    ASSUME TypeOK, PlaceInv, AnswerInv, Drain
    PROVE  /\ Answering /\ left = 4 /\ tx = <<>> /\ window = request
           /\ Len(result') = Len(result) + 1 /\ Len(result) \in Nat /\ Len(request) \in Nat
           /\ Len(result) < Len(request) /\ Counts(result', 0)
           /\ Len(rx') = Len(request) - Len(result') /\ Counts(rx', Len(result'))
           /\ UNCHANGED <<running, selected, tx, window, request>>
  <1>1. todo # <<>> /\ Head(todo) = "drain"
    BY DEF Drain, At
  <1>2. Answering /\ left = 4
    <2>1. ~(phase = "prepare") /\ ~(phase = "prime") /\ ~Polling /\ ~Other
      BY <1>1, Place, Dues DEF Harmless
    <2> QED
      BY <1>1, <2>1, Place, Dues
  <1> DEFINE r == Len(result)
             q == Len(request)
  <1>3. 4 \in 4 .. 5
    OBVIOUS
  <1>4. /\ window = request /\ tx = <<>> /\ Counts(result, 0)
        /\ r < q /\ Len(rx) = q - r /\ Counts(rx, r)
    BY <1>2, <1>3 DEF AnswerInv
  <1>5. /\ rx \in Seq(Nat) /\ result \in Seq(Nat) /\ r \in Nat /\ q \in Nat
    BY DEF TypeOK
  <1>6. rx # <<>>
    BY <1>4, <1>5
  <1>7. result' = Append(result, Head(rx)) /\ rx' = Tail(rx)
    BY <1>6 DEF Drain, PopRx
  <1>8. /\ Len(result') = r + 1 /\ result'[r + 1] = rx[1] /\ \A i \in 1 .. r : result'[i] = result[i]
        /\ Len(rx') = Len(rx) - 1 /\ \A i \in 1 .. Len(rx) - 1 : rx'[i] = rx[i + 1]
    BY <1>5, <1>6, <1>7
  <1>9. \A i \in 1 .. r : result[i] = 0 + i
    BY <1>4 DEF Counts
  <1>10. \A i \in 1 .. q - r : rx[i] = r + i
    BY <1>4 DEF Counts
  <1>11. UNCHANGED <<running, selected, tx, window, request>>
    BY DEF Drain
  <1> HIDE DEF r, q
  <1>12. Counts(result', 0)
    <2> SUFFICES ASSUME NEW i \in 1 .. r + 1 PROVE result'[i] = 0 + i
      BY <1>8 DEF Counts
    <2>1. CASE i \in 1 .. r
      BY <2>1, <1>8, <1>9
    <2>2. CASE i = r + 1
      <3>1. 1 \in 1 .. q - r
        BY <1>4, <1>5
      <3> QED
        BY <2>2, <3>1, <1>5, <1>8, <1>10
    <2> QED
      BY <2>1, <2>2, <1>5
  <1>13. Len(rx') = q - (r + 1) /\ Counts(rx', r + 1)
    <2>1. Len(rx') = q - (r + 1)
      BY <1>4, <1>5, <1>8
    <2>2. ASSUME NEW i \in 1 .. q - (r + 1) PROVE rx'[i] = (r + 1) + i
      <3>1. i + 1 \in 1 .. q - r /\ i \in 1 .. Len(rx) - 1 /\ r + (i + 1) = (r + 1) + i
        BY <1>4, <1>5
      <3> QED
        BY <3>1, <1>8, <1>10
    <2> QED
      BY <2>1, <2>2 DEF Counts
  <1> QED
    BY <1>2, <1>4, <1>5, <1>8, <1>11, <1>12, <1>13 DEF r, q

\* The draining of the reply and the cleaning up.
LEMMA AnswerStep ==
    ASSUME SpiInv, [Next]_vars
    PROVE  AnswerInv'
  <1> USE DEF SpiInv
  <1> SUFFICES ASSUME Answering' PROVE AnswerInv'
    BY DEF AnswerInv
  <1>1. CASE Going
    <2>g. Go /\ todo # <<>> /\ Head(todo) # "poll"
      BY <1>1, Steps
    <2>1. Answering /\ left \in 2 .. 5 /\ left' = left - 1 /\ Head(todo) = InAnswer(left)
      BY <2>g, Advance, Place
    <2>2. window = request /\ tx = <<>> /\ Counts(result, 0)
      BY <2>1 DEF AnswerInv
    <2>3. CASE left = 5
      <3>1. UNCHANGED <<tx, rx, window, request, result>>
        <4>1. Idle
          BY <1>1, <2>1, <2>3, Doing, Dues
        <4> QED
          BY <4>1 DEF Idle
      <3>2. /\ Len(result) < Len(request)
            /\ Len(rx) = Len(request) - Len(result) /\ Counts(rx, Len(result))
        BY <2>1, <2>3 DEF AnswerInv
      <3> QED
        BY <2>1, <2>2, <2>3, <3>1, <3>2 DEF AnswerInv, Counts
    <2>4. CASE left = 4
      <3>1. Drain
        BY <1>1, <2>1, <2>4, Doing, Dues
      <3>2. Len(result) + 1 = Len(request)
        <4> SUFFICES ASSUME ~AllReplies PROVE FALSE
          BY DEF AllReplies
        <4>1. left' = left
          BY <3>1 DEF Drain, left
        <4> QED
          BY <2>1, <4>1
      <3> QED
        BY <2>1, <2>4, <3>1, <3>2, Drained DEF AnswerInv
    <2>5. CASE left = 3
      <3>1. ~selected' /\ UNCHANGED <<tx, window, request, result>>
        <4>1. SelectNone
          BY <1>1, <2>1, <2>5, Doing, Dues
        <4> QED
          BY <4>1 DEF SelectNone
      <3>2. Len(result) = Len(request)
        BY <2>1, <2>5 DEF AnswerInv
      <3> QED
        BY <2>1, <2>2, <2>5, <3>1, <3>2 DEF AnswerInv, Counts
    <2>6. CASE left = 2
      <3>1. UNCHANGED <<core, request, result>>
        BY <1>1, <2>1, <2>6, Doing, Dues DEF ReadInts
      <3>2. Len(result) = Len(request) /\ ~selected
        BY <2>1, <2>6 DEF AnswerInv
      <3> QED
        BY <2>1, <2>2, <2>6, <3>1, <3>2 DEF AnswerInv, Counts, core
    <2> QED
      BY <2>1, <2>3, <2>4, <2>5, <2>6
  <1>2. CASE Staying /\ Drain
    <2>1. left' = left
      BY <1>2 DEF Staying, left
    <2>2. Len(result) + 1 # Len(request)
      <3> SUFFICES ASSUME AllReplies PROVE FALSE
        BY DEF AllReplies
      <3>1. Go /\ todo # <<>> /\ left # 1
        BY <1>2, Drained DEF Drain, At
      <3> QED
        BY <1>2, <2>1, <3>1, GoFurther, Drained
    <2>3. left' = 4 /\ Len(result') < Len(request')
      BY <1>2, <2>1, <2>2, Drained
    <2> QED
      BY <1>2, <2>3, Drained DEF AnswerInv
  <1>3. CASE Staying /\ Fill
    <2>1. Answering
      BY <1>3 DEF Staying, Answering, left
    <2> QED
      BY <1>3, <2>1, Filled DEF Answering, Polling
  <1>4. CASE Poll
    <2>1. Polling /\ left = 1 /\ left' = 5 /\ "txempty" \in ints /\ UNCHANGED <<core, request, result>>
      BY <1>4, PollPlace
    <2>2. /\ result = <<>>
          /\ left \in 1 .. 2 => selected /\ meant = request
          /\ left = 1 =>
               /\ running /\ Len(rx) = Len(window) /\ Counts(rx, 0)
               /\ "txempty" \in ints => tx = <<>>
      BY <2>1 DEF PollInv
    <2>3. selected /\ meant = request /\ running /\ Len(rx) = Len(window) /\ Counts(rx, 0) /\ tx = <<>>
      <3>1. 1 \in 1 .. 2
        OBVIOUS
      <3> QED
        BY <2>1, <2>2, <3>1
    <2>4. /\ window \in Seq(Bytes) /\ request \in Seq(Bytes) /\ request # <<>>
          /\ Len(request) = Len(window) + Len(tx) /\ Len(tx) = 0
          /\ \A i \in 1 .. Len(window) : window[i] = request[i]
      BY <2>3 DEF TypeOK, WindowInv, SameUpTo
    <2>5. Len(request) = Len(window)
      BY <2>4
    <2>6. window = request
      BY <2>4, <2>5, SeqEqual
    <2>7. Len(result) = 0 /\ Len(request) \in Nat \ {0} /\ Counts(result, 0)
      BY <2>2, <2>4 DEF Counts
    <2>8. Len(rx) = Len(request) - Len(result) /\ Counts(rx, Len(result)) /\ Len(result) < Len(request)
      BY <2>3, <2>5, <2>7
    <2> QED
      BY <2>1, <2>3, <2>6, <2>7, <2>8 DEF AnswerInv, Counts, core
  <1>5. CASE Calling \/ Failing
    BY <1>5, CallsPlace
  <1>6. CASE Core \/ UNCHANGED vars
    <2>1. Answering /\ left' = left /\ UNCHANGED <<selected, request, result>>
      BY <1>6 DEF Core, Shift, Refuse, FifosReset, vars, core, driver, Answering, left
    <2>2. tx = <<>>
      BY <2>1 DEF AnswerInv
    <2>3. UNCHANGED <<tx, rx, window>>
      BY <1>6, <2>2 DEF Core, Shift, Refuse, FifosReset, vars, core
    <2> QED
      BY <2>1, <2>3 DEF AnswerInv, Counts
  <1> QED
    BY <1>1, <1>2, <1>3, <1>4, <1>5, <1>6, Steps DEF Staying

\* What a transfer has returned stays true until the next one.
LEMMA OkStep ==
    ASSUME SpiInv, [Next]_vars
    PROVE  OkInv'
  <1> USE DEF SpiInv
  <1> SUFFICES ASSUME exit' = "ok" PROVE OkInv'
    BY DEF OkInv
  <1>u. ASSUME exit = "ok", UNCHANGED <<window, request, result>>, ~selected => ~selected'
        PROVE  OkInv'
    BY <1>u DEF OkInv, Counts
  <1>o. exit = "ok" => ~Polling /\ ~Answering /\ ~selected
    BY DEF OkInv, PlaceInv, Polling, Answering
  <1>1. CASE Going
    <2>1. CASE exit = "ok"
      <3>1. ~SelectFlash /\ ~Drain
        BY <1>o, <2>1, Chosen, Drained
      <3>2. UNCHANGED <<window, request, result>> /\ (~selected => ~selected')
        BY <1>1, <3>1 DEF Going, Fiforeset, FifoWait, Idle, Run, SelectNone, ReadInts, AckInts, Fill,
                          ReadControl, Discard, SoftReset, core
      <3> QED
        BY <1>u, <2>1, <3>2
    <2>2. CASE Answering /\ left = 1
      <3>1. AckInts
        BY <1>1, <2>2, Steps, Place, Doing, Dues
      <3>2. UNCHANGED <<selected, window, request, result>>
        BY <3>1 DEF AckInts
      <3>3. /\ window = request /\ Counts(result, 0)
            /\ left \in 1 .. 3 => Len(result) = Len(request)
            /\ left \in 1 .. 2 => ~selected
        BY <2>2 DEF AnswerInv
      <3>4. left \in 1 .. 3 /\ left \in 1 .. 2
        BY <2>2
      <3> QED
        BY <3>2, <3>3, <3>4 DEF OkInv, Counts
    <2> QED
      BY <1>1, <2>1, <2>2, Steps, Advance
  <1>2. CASE Staying
    <2>1. exit = "ok" /\ Fill
      BY <1>2, <1>o, Drained DEF Staying
    <2> QED
      BY <1>u, <2>1 DEF Fill
  <1>3. CASE Poll
    BY <1>3, PollPlace
  <1>4. CASE Calling \/ Failing
    BY <1>4, <1>u, CallsPlace DEF core
  <1>5. CASE Core \/ UNCHANGED vars
    <2>1. exit = "ok" /\ UNCHANGED <<selected, request, result>>
      BY <1>5 DEF Core, Shift, Refuse, FifosReset, vars, core, driver
    <2>2. window' = window
      BY <1>5, <1>o, <2>1 DEF Core, Shift, Refuse, FifosReset, vars, core
    <2> QED
      BY <1>u, <2>1, <2>2
  <1> QED
    BY <1>1, <1>2, <1>3, <1>4, <1>5, Steps

-----------------------------------------------------------------------------
\* The inductive invariant: where the driver is in its scripts, what the FIFOs
\* and the interrupts can be there, and what the flash has received.
THEOREM SpiInvariant == Spec => []SpiInv
  <1>1. Init => SpiInv
    <2> SUFFICES ASSUME Init PROVE SpiInv
      OBVIOUS
    <2>1. /\ running = FALSE /\ selected = FALSE /\ resetting = FALSE /\ tx = <<>> /\ rx = <<>>
          /\ ints \in {{}, {"txempty"}} /\ window = <<>> /\ meant = <<>> /\ phase = "absent"
          /\ todo = <<>> /\ seen = {} /\ exit = "none" /\ request \in Requests /\ result = <<>>
      BY DEF Init
    <2>2. <<>> \in Seq(Bytes) /\ <<>> \in Seq(Nat) /\ <<>> \in Seq(Accesses) /\ Len(<<>>) = 0
      OBVIOUS
    <2>3. request \in Seq(Bytes) /\ request # <<>>
      BY <2>1, RequestsAssumption
    <2>4. TypeOK
      <3>1. {tx, window, meant, request} \subseteq Seq(Bytes) /\ {rx, result} \subseteq Seq(Nat)
        BY <2>1, <2>2, <2>3
      <3>2. ints \subseteq Flags /\ seen \subseteq Flags
        BY <2>1 DEF Flags
      <3> QED
        BY <2>1, <2>3, <3>1, <3>2 DEF TypeOK
    <2>5. PlaceInv /\ ~Polling /\ ~Answering
      BY <2>1, <2>2 DEF PlaceInv, Polling, Answering
    <2>6. WindowInv
      BY <2>1, <2>2 DEF WindowInv, SameUpTo
    <2> QED
      BY <2>1, <2>4, <2>5, <2>6 DEF SpiInv, PrimeInv, PollInv, AnswerInv, OkInv
  <1>2. SpiInv /\ [Next]_vars => SpiInv'
    BY TypeStep, PlaceStep, WindowStep, PrimeStep, PollStep, AnswerStep, OkStep DEF SpiInv
  <1> QED
    BY <1>1, <1>2, PTL DEF Spec

\* What the flash sees between two selections is a prefix of one request:
\* never a byte left over from an earlier transfer, a priming byte, or a
\* second command.
THEOREM OneCommand == Spec => []OneCommandPerSelection
  <1>1. SpiInv => OneCommandPerSelection
    <2> SUFFICES ASSUME SpiInv PROVE IsPrefix(window, meant)
      BY DEF OneCommandPerSelection
    <2>1. /\ window \in Seq(Bytes) /\ meant \in Seq(Bytes) /\ Len(window) <= Len(meant)
          /\ \A i \in 1 .. Len(window) : window[i] = meant[i]
      BY DEF SpiInv, TypeOK, WindowInv, SameUpTo
    <2>2. SubSeq(window, 1, Len(window)) = SubSeq(meant, 1, Len(window))
      <3> DEFINE k == Len(window)
                 a == SubSeq(window, 1, k)
                 b == SubSeq(meant, 1, k)
      <3>1. a \in Seq(Bytes) /\ Len(a) = k /\ \A i \in 1 .. k : a[i] = window[i]
        BY <2>1
      <3>2. b \in Seq(Bytes) /\ Len(b) = k /\ \A i \in 1 .. k : b[i] = meant[i]
        BY <2>1
      <3> HIDE DEF a, b
      <3> QED
        BY <2>1, <3>1, <3>2, SeqEqual DEF a, b
    <2> QED
      BY <2>1, <2>2 DEF IsPrefix
  <1> QED
    BY <1>1, SpiInvariant, PTL

\* A transfer that returns has sent the whole request and holds the reply to
\* each of its bytes.
THEOREM TransferWhole == Spec => []TransferIsWhole
  <1>1. SpiInv => TransferIsWhole
    <2> SUFFICES ASSUME SpiInv, exit = "ok"
                 PROVE  result = [i \in 1 .. Len(request) |-> i] /\ window = request
      BY DEF TransferIsWhole
    <2>1. /\ result \in Seq(Nat) /\ window = request /\ Len(result) = Len(request)
          /\ \A i \in 1 .. Len(result) : result[i] = 0 + i
      BY DEF SpiInv, TypeOK, OkInv, Counts
    <2> DEFINE q == Len(request)
               c == [i \in 1 .. q |-> i]
    <2>2. q \in Nat
      BY <2>1
    <2> HIDE DEF q
    <2>3. c \in Seq(Nat) /\ Len(c) = q /\ \A i \in 1 .. q : c[i] = i
      BY <2>2
    <2> HIDE DEF c
    <2>4. \A i \in 1 .. q : result[i] = i
      BY <2>1, <2>2 DEF q
    <2>5. result = c
      BY <2>1, <2>3, <2>4, SeqEqual DEF q
    <2> QED
      BY <2>1, <2>5 DEF c, q
  <1> QED
    BY <1>1, SpiInvariant, PTL
=============================================================================
