--------------------------- MODULE IpDriverProofs ---------------------------
(***************************************************************************)
(* Theorems about two of the IP drivers' jobs: the warm boot command       *)
(* (HwIcap), for any addresses, any FIFO vacancy and cores of any depth,   *)
(* and writing and reading the board memory (BoardMemory), for any calls,  *)
(* and cores and streams of any size.                                      *)
(***************************************************************************)
EXTENDS HwIcap, BoardMemory, Quotients, SequenceTheorems, TLAPS

-----------------------------------------------------------------------------
(* -------------------------------- HwIcap ------------------------------- *)

\* What the driver does with the core, one register access each.
Accesses == {"ready", "control", "vacancy", "reset", "release", "idle", "empty", "room",
             "word", "write"}
\* The access that is due when n of them are left, its own included.
Due(n) == CASE n = 18 -> "ready"  [] n = 17 -> "control" [] n = 16 -> "vacancy"
            [] n = 15 -> "reset"  [] n = 14 -> "release" [] n = 13 -> "idle"
            [] n = 12 -> "ready"  [] n = 11 -> "empty"   [] n = 10 -> "room"
            [] n \in 2 .. 9 -> "word" [] OTHER -> "write"

TypeOK ==
    /\ present \in BOOLEAN /\ ready \in BOOLEAN /\ active \in BOOLEAN
    /\ depth \in Nat \ {0} /\ fifo \in Seq(Int) /\ port \in Int /\ wbstar \in Int
    /\ todo \in Seq(Accesses) /\ addr \in Addresses

\* The accesses that are left are the end of the two functions.
TodoInv ==
    IF BootAddress(addr)
    THEN Len(todo) <= 18 /\ \A i \in 1 .. Len(todo) : todo[i] = Due(Len(todo) + 1 - i)
    ELSE \A i \in 1 .. Len(todo) : todo[i] \in {"ready", "control", "vacancy"}

\* After its reset the core is at rest and empty, until it has the words so far.
PacketInv ==
    BootAddress(addr) =>
        /\ Len(todo) \in 10 .. 14 /\ present => fifo = <<>> /\ ~active
        /\ Len(todo) \in 1 .. 12 => present /\ ~active
        /\ Len(todo) \in 1 .. 9 =>
             /\ depth >= 8 /\ Len(fifo) = 9 - Len(todo)
             /\ \A i \in 1 .. Len(fifo) : fifo[i] = Packet(addr)[i]

\* What an active core has left is the end of a packet, and the port has had
\* what comes before it.
Writing(a, k) ==
    /\ Len(fifo) = 8 - k
    /\ \A i \in 1 .. 8 - k : fifo[i] = Packet(a)[i + k]
    /\ k > 0 => port = Packet(a)[k]
    /\ k > 4 => wbstar = a \div 256
WriteInv ==
    present /\ active =>
        \E a \in Addresses : BootAddress(a) /\ \E k \in 0 .. 8 : Writing(a, k)

BootInv == TypeOK /\ TodoInv /\ PacketInv /\ WriteInv

-----------------------------------------------------------------------------
\* What a concatenation of known lengths holds.
LEMMA Joined ==
    \A a, b \in Seq(Accesses) :
        /\ a \o b \in Seq(Accesses) /\ Len(a \o b) = Len(a) + Len(b)
        /\ \A i \in 1 .. Len(a) + Len(b) :
               (a \o b)[i] = IF i <= Len(a) THEN a[i] ELSE b[i - Len(a)]
  BY ConcatProperties

\* The script of the two functions, in the order of Due.
LEMMA ScriptIsDue ==
    /\ Validate \in Seq(Accesses) /\ Len(Validate) = 3
    /\ \A i \in 1 .. 3 : Validate[i] \in {"ready", "control", "vacancy"}
    /\ Validate \o Trigger \in Seq(Accesses) /\ Len(Validate \o Trigger) = 18
    /\ \A i \in 1 .. 18 : (Validate \o Trigger)[i] = Due(19 - i)
  <1> DEFINE words == [i \in 1 .. 8 |-> "word"]
             r == Reset
             v == Validate
  <1>1. v \in Seq(Accesses) /\ Len(v) = 3 /\ v[1] = "ready" /\ v[2] = "control" /\ v[3] = "vacancy"
    BY DEF Validate, Accesses
  <1>2. /\ r \in Seq(Accesses) /\ Len(r) = 5 /\ r[1] = "reset" /\ r[2] = "release"
        /\ r[3] = "idle" /\ r[4] = "ready" /\ r[5] = "empty"
    BY DEF Reset, Accesses
  <1>3. words \in Seq(Accesses) /\ Len(words) = 8 /\ \A i \in 1 .. 8 : words[i] = "word"
    BY DEF Accesses
  <1> DEFINE one == <<"room">>
             end == <<"write">>
  <1>4. one \in Seq(Accesses) /\ Len(one) = 1 /\ one[1] = "room"
    BY DEF Accesses
  <1>5. end \in Seq(Accesses) /\ Len(end) = 1 /\ end[1] = "write"
    BY DEF Accesses
  <1> HIDE DEF words, r, v, one, end
  <1> DEFINE A == r \o one
             B == A \o words
             T == B \o end
             S == v \o T
  <1>6. /\ A \in Seq(Accesses) /\ Len(A) = 6
        /\ \A i \in 1 .. 6 : A[i] = IF i <= 5 THEN r[i] ELSE one[i - 5]
    <2>1. r \in Seq(Accesses) /\ one \in Seq(Accesses) /\ Len(r) = 5 /\ Len(r) + Len(one) = 6
      BY <1>2, <1>4
    <2>2. /\ r \o one \in Seq(Accesses) /\ Len(r \o one) = Len(r) + Len(one)
          /\ \A i \in 1 .. Len(r) + Len(one) :
                 (r \o one)[i] = IF i <= Len(r) THEN r[i] ELSE one[i - Len(r)]
      BY <2>1, Joined
    <2> QED
      BY <2>1, <2>2
  <1> HIDE DEF A
  <1>7. /\ B \in Seq(Accesses) /\ Len(B) = 14
        /\ \A i \in 1 .. 14 : B[i] = IF i <= 6 THEN A[i] ELSE words[i - 6]
    <2>1. A \in Seq(Accesses) /\ words \in Seq(Accesses) /\ Len(A) = 6 /\ Len(A) + Len(words) = 14
      BY <1>3, <1>6
    <2>2. /\ A \o words \in Seq(Accesses) /\ Len(A \o words) = Len(A) + Len(words)
          /\ \A i \in 1 .. Len(A) + Len(words) :
                 (A \o words)[i] = IF i <= Len(A) THEN A[i] ELSE words[i - Len(A)]
      BY <2>1, Joined
    <2> QED
      BY <2>1, <2>2
  <1> HIDE DEF B
  <1>8. /\ T \in Seq(Accesses) /\ Len(T) = 15
        /\ \A i \in 1 .. 15 : T[i] = IF i <= 14 THEN B[i] ELSE end[i - 14]
    <2>1. B \in Seq(Accesses) /\ end \in Seq(Accesses) /\ Len(B) = 14 /\ Len(B) + Len(end) = 15
      BY <1>5, <1>7
    <2>2. /\ B \o end \in Seq(Accesses) /\ Len(B \o end) = Len(B) + Len(end)
          /\ \A i \in 1 .. Len(B) + Len(end) :
                 (B \o end)[i] = IF i <= Len(B) THEN B[i] ELSE end[i - Len(B)]
      BY <2>1, Joined
    <2> QED
      BY <2>1, <2>2
  <1> HIDE DEF T
  <1>9. /\ S \in Seq(Accesses) /\ Len(S) = 18
        /\ \A i \in 1 .. 18 : S[i] = IF i <= 3 THEN v[i] ELSE T[i - 3]
    <2>1. v \in Seq(Accesses) /\ T \in Seq(Accesses) /\ Len(v) = 3 /\ Len(v) + Len(T) = 18
      BY <1>1, <1>8
    <2>2. /\ v \o T \in Seq(Accesses) /\ Len(v \o T) = Len(v) + Len(T)
          /\ \A i \in 1 .. Len(v) + Len(T) :
                 (v \o T)[i] = IF i <= Len(v) THEN v[i] ELSE T[i - Len(v)]
      BY <2>1, Joined
    <2> QED
      BY <2>1, <2>2
  <1>10. S = Validate \o Trigger
    BY DEF S, T, B, A, v, r, one, end, words, Trigger
  <1> HIDE DEF S
  <1>11. ASSUME NEW i \in 1 .. 18 PROVE S[i] = Due(19 - i)
    <2>1. CASE i <= 3
      <3>1. i = 1 \/ i = 2 \/ i = 3
        BY <2>1
      <3>2. S[1] = v[1] /\ S[2] = v[2] /\ S[3] = v[3]
        BY <1>9
      <3>3. Due(18) = "ready" /\ Due(17) = "control" /\ Due(16) = "vacancy"
        BY DEF Due
      <3>4. 19 - 1 = 18 /\ 19 - 2 = 17 /\ 19 - 3 = 16
        OBVIOUS
      <3> QED
        BY <3>1, <3>2, <3>3, <3>4, <1>1
    <2>2. CASE i \in 4 .. 8
      <3>1. i = 4 \/ i = 5 \/ i = 6 \/ i = 7 \/ i = 8
        BY <2>2
      <3>2. i - 3 \in 1 .. 5 /\ i \in 1 .. 18
        BY <2>2
      <3>3. S[i] = T[i - 3]
        BY <2>2, <1>9
      <3>4. T[i - 3] = B[i - 3]
        BY <3>2, <1>8
      <3>5. B[i - 3] = A[i - 3]
        BY <3>2, <1>7
      <3>6. A[i - 3] = r[i - 3]
        BY <3>2, <1>6
      <3> QED
        BY <3>1, <3>3, <3>4, <3>5, <3>6, <1>2 DEF Due
    <2>3. CASE i = 9
      BY <2>3, <1>4, <1>6, <1>7, <1>8, <1>9 DEF Due
    <2>4. CASE i \in 10 .. 17
      BY <2>4, <1>3, <1>7, <1>8, <1>9 DEF Due
    <2>5. CASE i = 18
      BY <2>5, <1>5, <1>8, <1>9 DEF Due
    <2> QED
      BY <2>1, <2>2, <2>3, <2>4, <2>5
  <1>12. \A i \in 1 .. 3 : v[i] \in {"ready", "control", "vacancy"}
    BY <1>1
  <1> QED
    BY <1>1, <1>9, <1>10, <1>11, <1>12 DEF v

\* The words of a packet.
LEMMA PacketWords ==
    ASSUME NEW a \in Nat
    PROVE  /\ Packet(a) \in Seq(Int) /\ Len(Packet(a)) = 8 /\ a \div 256 \in Nat
           /\ Packet(a)[5] = a \div 256
           /\ \A i \in 1 .. 8 : Packet(a)[i] \in Int
           /\ \A i \in 1 .. 8 : Packet(a)[i] = Wbstar <=> i = 4
           /\ \A i \in 1 .. 8 : Packet(a)[i] = Command <=> i = 6
           /\ \A i \in 1 .. 8 : Packet(a)[i] = IprogWord <=> i = 7
  BY DEF Packet, Dummy, Sync, Noop, Wbstar, Command, IprogWord

\* Going on leaves the end of what was left.
LEMMA GoOn ==
    ASSUME TypeOK, TodoInv, todo # <<>>, Go, addr' = addr
    PROVE  /\ todo' \in Seq(Accesses) /\ Len(todo') = Len(todo) - 1 /\ TodoInv'
           /\ BootAddress(addr) => Head(todo) = Due(Len(todo))
  <1>1. todo \in Seq(Accesses) /\ todo' = Tail(todo) /\ Len(todo) \in Nat \ {0}
    BY DEF TypeOK, Go
  <1>2. /\ todo' \in Seq(Accesses) /\ Len(todo') = Len(todo) - 1 /\ Head(todo) = todo[1]
        /\ \A i \in 1 .. Len(todo) - 1 : todo'[i] = todo[i + 1]
    BY <1>1
  <1> QED
    BY <1>1, <1>2 DEF TodoInv, BootAddress

\* A step of the process goes on or stops, and keeps the address.
LEMMA OnOrStop ==
    ASSUME TypeOK, TodoInv, Step \/ Break
    PROVE  /\ todo # <<>> /\ addr' = addr /\ (Go \/ Stop)
           /\ (Break => Stop)
           /\ (ResetCore \/ Release \/ Word \/ StartWrite => Go)
  BY DEF Step, Check, WaitIdle, ResetCore, Release, Word, StartWrite, Break, At, Go, Stop, core

\* The types, and the place in the two functions.
LEMMA PlaceStep == TypeOK /\ TodoInv /\ [Next]_vars => TypeOK' /\ TodoInv'
  <1> SUFFICES ASSUME TypeOK, TodoInv, [Next]_vars PROVE TypeOK' /\ TodoInv'
    OBVIOUS
  <1>n. Addresses \subseteq Nat /\ addr \in Nat
    BY AddressesAssumption DEF TypeOK
  <1>1. CASE Drain
    <2>1. CASE fifo = <<>>
      BY <1>1, <2>1 DEF Drain, TypeOK, TodoInv, BootAddress
    <2>2. CASE fifo # <<>>
      <3>1. fifo \in Seq(Int) /\ Tail(fifo) \in Seq(Int) /\ Head(fifo) \in Int
        BY <2>2 DEF TypeOK
      <3> QED
        BY <1>1, <2>2, <3>1 DEF Drain, TypeOK, TodoInv, BootAddress
    <2> QED
      BY <2>1, <2>2
  <1>2. CASE Boot
    <2>1. /\ present' = TRUE /\ ready' \in BOOLEAN /\ active' = FALSE /\ fifo' = <<>>
          /\ port' = -1 /\ UNCHANGED <<depth, wbstar, todo, addr>>
      BY <1>2 DEF Boot, Dummy
    <2>2. TypeOK'
      <3>1. <<>> \in Seq(Int)
        OBVIOUS
      <3>2. fifo' \in Seq(Int) /\ port' \in Int /\ wbstar' \in Int /\ todo' \in Seq(Accesses)
        BY <2>1, <3>1 DEF TypeOK
      <3>3. /\ present' \in BOOLEAN /\ ready' \in BOOLEAN /\ active' \in BOOLEAN
            /\ depth' \in Nat \ {0} /\ addr' \in Addresses
        BY <2>1 DEF TypeOK
      <3> QED
        BY <3>2, <3>3 DEF TypeOK
    <2>3. TodoInv'
      BY <2>1 DEF TodoInv, BootAddress
    <2> QED
      BY <2>2, <2>3
  <1>3. ASSUME NEW a \in Addresses, Start(a) PROVE TypeOK' /\ TodoInv'
    <2>1. CASE BootAddress(a)
      <3>1. todo' = Validate \o Trigger /\ addr' = a /\ UNCHANGED core
        BY <1>3, <2>1 DEF Start
      <3>2. todo' \in Seq(Accesses) /\ Len(todo') = 18 /\ \A i \in 1 .. 18 : todo'[i] = Due(19 - i)
        BY <3>1, ScriptIsDue
      <3>3. TypeOK'
        BY <3>1, <3>2 DEF TypeOK, core
      <3>4. TodoInv'
        <4>1. BootAddress(addr)'
          BY <2>1, <3>1 DEF BootAddress
        <4>2. ASSUME NEW i \in 1 .. Len(todo') PROVE todo'[i] = Due(Len(todo') + 1 - i)
          <5>1. i \in 1 .. 18 /\ Len(todo') + 1 - i = 19 - i
            BY <3>2
          <5> QED
            BY <3>2, <5>1
        <4> QED
          BY <3>2, <4>1, <4>2 DEF TodoInv
      <3> QED
        BY <3>3, <3>4
    <2>2. CASE ~BootAddress(a)
      <3>1. todo' = Validate \o <<>> /\ addr' = a /\ UNCHANGED core
        BY <1>3, <2>2 DEF Start
      <3>2. Validate \o <<>> = Validate
        BY ScriptIsDue, ConcatEmptySeq
      <3>3. TypeOK'
        BY <3>1, <3>2, ScriptIsDue DEF TypeOK, core
      <3>4. TodoInv'
        BY <2>2, <3>1, <3>2, ScriptIsDue DEF TodoInv, BootAddress
      <3> QED
        BY <3>3, <3>4
    <2> QED
      BY <2>1, <2>2
  <1>4. CASE Step \/ Break
    <2>1. /\ todo' \in Seq(Accesses) /\ TodoInv' /\ addr' = addr
      <3>1. CASE Go
        BY <1>4, <3>1, OnOrStop, GoOn
      <3>2. CASE Stop
        BY <1>4, <3>2, OnOrStop DEF Stop, TodoInv
      <3> QED
        BY <1>4, <3>1, <3>2, OnOrStop
    <2>2. /\ present' \in BOOLEAN /\ ready' \in BOOLEAN /\ active' \in BOOLEAN
          /\ depth' \in Nat \ {0} /\ port' \in Int /\ wbstar' \in Int
      BY <1>4 DEF Step, Check, WaitIdle, ResetCore, Release, Word, StartWrite, Break, TypeOK, core
    <2>3. fifo' \in Seq(Int)
      <3>1. CASE Word
        <4>1. CASE BootAddress(addr)
          <5>1. Len(todo) \in 2 .. 9
            BY <3>1, <4>1, OnOrStop, GoOn DEF Word, At, TypeOK, TodoInv, Due
          <5>2. 10 - Len(todo) \in 1 .. 8
            <6> DEFINE n == Len(todo)
            <6>1. n \in 2 .. 9
              BY <5>1
            <6> HIDE DEF n
            <6>2. 10 - n \in 1 .. 8
              BY <6>1
            <6> QED
              BY <6>2 DEF n
          <5>3. Packet(addr)[10 - Len(todo)] \in Int
            BY <1>n, <5>2, PacketWords
          <5> QED
            BY <3>1, <5>3 DEF Word, TypeOK
        <4>2. CASE ~BootAddress(addr)
          BY <3>1, <4>2 DEF Word, At, TypeOK, TodoInv
        <4> QED
          BY <4>1, <4>2
      <3>2. CASE ~Word
        <4>1. fifo' = fifo \/ fifo' = <<>>
          BY <1>4, <3>2 DEF Step, Check, WaitIdle, ResetCore, Release, StartWrite, Break, core
        <4> QED
          <5>1. <<>> \in Seq(Int)
            OBVIOUS
          <5> QED
            BY <4>1, <5>1 DEF TypeOK
      <3> QED
        BY <3>1, <3>2
    <2> QED
      BY <2>1, <2>2, <2>3 DEF TypeOK
  <1>5. CASE UNCHANGED vars
    BY <1>5 DEF vars, core, TypeOK, TodoInv, BootAddress
  <1> QED
    BY <1>1, <1>2, <1>3, <1>4, <1>5 DEF Next

\* Which access is due at which place.
LEMMA Places ==
    ASSUME NEW n \in 1 .. 18
    PROVE  /\ Due(n) = "reset"   => n = 15
           /\ Due(n) = "release" => n = 14
           /\ Due(n) = "idle"    => n = 13
           /\ Due(n) = "empty"   => n = 11
           /\ Due(n) = "room"    => n = 10
           /\ Due(n) = "word"    => n \in 2 .. 9
           /\ Due(n) = "write"   => n = 1
           /\ Due(n) \in {"ready", "control", "vacancy"} => n \in {12, 16, 17, 18}
  <1>2. CASE n \in 2 .. 9
    BY <1>2 DEF Due
  <1>1. CASE n = 1
    BY <1>1 DEF Due
  <1>10. CASE n = 10
    BY <1>10 DEF Due
  <1>11. CASE n = 11
    BY <1>11 DEF Due
  <1>12. CASE n = 12
    BY <1>12 DEF Due
  <1>13. CASE n = 13
    BY <1>13 DEF Due
  <1>14. CASE n = 14
    BY <1>14 DEF Due
  <1>15. CASE n = 15
    BY <1>15 DEF Due
  <1>16. CASE n = 16
    BY <1>16 DEF Due
  <1>17. CASE n = 17
    BY <1>17 DEF Due
  <1>18. CASE n = 18
    BY <1>18 DEF Due
  <1> QED
    BY <1>1, <1>2, <1>10, <1>11, <1>12, <1>13, <1>14, <1>15, <1>16, <1>17, <1>18

\* The write to the control register comes last, for a bootable address only.
LEMMA WritesWhole ==
    ASSUME TypeOK, TodoInv, At("write")
    PROVE  BootAddress(addr) /\ Len(todo) = 1
  <1>1. todo # <<>> /\ todo \in Seq(Accesses) /\ todo[1] = "write" /\ Len(todo) > 0
    BY DEF At, TypeOK
  <1>2. BootAddress(addr)
    BY <1>1 DEF TodoInv
  <1>3. Len(todo) <= 18 /\ Len(todo) \in Nat /\ todo[1] = Due(Len(todo) + 1 - 1)
    BY <1>1, <1>2 DEF TodoInv
  <1> DEFINE n == Len(todo)
  <1>4. n \in Nat /\ n > 0 /\ n <= 18 /\ Due(n + 1 - 1) = "write"
    BY <1>1, <1>3
  <1> HIDE DEF n
  <1>5. n \in 1 .. 18 /\ n + 1 - 1 = n
    BY <1>4
  <1>6. n = 1
    BY <1>4, <1>5, Places
  <1> QED
    BY <1>2, <1>6 DEF n

\* The core before and during the writing of the packet.
LEMMA PacketStep == TypeOK /\ TodoInv /\ PacketInv /\ [Next]_vars => PacketInv'
  <1> SUFFICES ASSUME TypeOK, TodoInv, PacketInv, [Next]_vars, BootAddress(addr)'
               PROVE  PacketInv'
    BY DEF PacketInv
  <1> DEFINE n == Len(todo)
  <1>n. n \in Nat /\ addr \in Nat
    BY AddressesAssumption DEF TypeOK
  <1>1. CASE Drain
    BY <1>1, <1>n DEF Drain, PacketInv, BootAddress, TypeOK
  <1>2. CASE Boot
    BY <1>2, <1>n DEF Boot, PacketInv, BootAddress, TypeOK
  <1>3. ASSUME NEW a \in Addresses, Start(a) PROVE PacketInv'
    <2>1. todo' = Validate \o Trigger
      BY <1>3 DEF Start, BootAddress
    <2>2. Len(todo') = 18
      BY <2>1, ScriptIsDue
    <2> QED
      BY <2>2 DEF PacketInv
  <1>4. CASE (Step \/ Break) /\ Stop
    <2>1. Len(todo') = 0
      BY <1>4 DEF Stop
    <2> QED
      BY <2>1 DEF PacketInv
  <1>5. CASE Step /\ Go
    <2>1. /\ n \in 1 .. 18 /\ Len(todo') = n - 1 /\ Head(todo) = Due(n)
          /\ addr' = addr /\ BootAddress(addr)
      <3>1. todo # <<>> /\ addr' = addr
        BY <1>5, OnOrStop
      <3>2. BootAddress(addr)
        BY <3>1 DEF BootAddress
      <3>3. n <= 18 /\ n > 0 /\ n \in Nat
        BY <3>1, <3>2 DEF TodoInv, TypeOK
      <3>4. Len(todo') = n - 1 /\ Head(todo) = Due(n)
        BY <1>5, <3>1, <3>2, GoOn
      <3> HIDE DEF n
      <3> QED
        BY <3>1, <3>2, <3>3, <3>4
    <2>2. /\ n \in 10 .. 14 /\ present => fifo = <<>> /\ ~active
          /\ n \in 1 .. 12 => present /\ ~active
          /\ n \in 1 .. 9 =>
               /\ depth >= 8 /\ Len(fifo) = 9 - n
               /\ \A i \in 1 .. Len(fifo) : fifo[i] = Packet(addr)[i]
      BY <2>1 DEF PacketInv
    <2>3. SUFFICES
            /\ n - 1 \in 10 .. 14 /\ present' => fifo' = <<>> /\ ~active'
            /\ n - 1 \in 1 .. 12 => present' /\ ~active'
            /\ n - 1 \in 1 .. 9 =>
                 /\ depth' >= 8 /\ Len(fifo') = 9 - (n - 1)
                 /\ \A i \in 1 .. Len(fifo') : fifo'[i] = Packet(addr)[i]
      BY <2>1 DEF PacketInv
    <2>w. Word /\ present /\ Free > 0 => fifo' = Append(fifo, Packet(addr)[10 - n])
      BY DEF Word
    <2>r. Check /\ present /\ n = 10 => Free >= 8
      <3>1. Due(10) = "room"
        BY DEF Due
      <3>2. n = 10 => todo' # <<>> /\ Head(todo) = "room"
        BY <2>1, <3>1
      <3> QED
        BY <3>2 DEF Check, At, Stop
    <2>h. Free = depth - Len(fifo) /\ depth \in Nat /\ Len(fifo) \in Nat /\ fifo \in Seq(Int)
      BY DEF Free, TypeOK
    <2> HIDE DEF n
    <2>4. CASE Check
      <3>1. UNCHANGED core
        BY <2>4 DEF Check
      <3>2. CASE n = 10
        <4>1. present /\ fifo = <<>> /\ ~active
          BY <3>2, <2>2, <2>4, <2>r
        <4>2. Free >= 8 /\ Len(fifo) = 0
          BY <3>2, <2>4, <2>r, <4>1
        <4>3. fifo' = <<>> /\ depth' >= 8 /\ present' /\ ~active'
          BY <3>1, <4>1, <4>2, <2>h DEF core
        <4> QED
          BY <3>2, <4>3
      <3>3. CASE n # 10
        <4>1. Due(n) \in {"ready", "control", "vacancy", "empty"}
          BY <2>4, <2>1, <3>3, Places DEF Check, At
        <4>2. n \in {11, 12, 16, 17, 18}
          BY <2>1, <4>1, Places
        <4>3. n \in {11, 12} => fifo' = <<>> /\ present' /\ ~active'
          BY <2>2, <3>1 DEF core
        <4> QED
          BY <4>2, <4>3
      <3> QED
        BY <3>2, <3>3
    <2>5. CASE WaitIdle
      <3>1. n = 13 /\ UNCHANGED core
        BY <2>5, <2>1, Places DEF WaitIdle, At
      <3>2. n = 13 => todo' # <<>>
        BY <2>1
      <3>3. present /\ ~active
        BY <2>5, <3>1, <3>2 DEF WaitIdle, Stop
      <3> QED
        BY <2>2, <3>1, <3>3 DEF core
    <2>6. CASE ResetCore
      <3>1. n = 15 /\ UNCHANGED <<present, depth>>
        BY <2>6, <2>1, Places DEF ResetCore, At
      <3>2. present' => fifo' = <<>> /\ ~active'
        <4>1. present' <=> present
          BY <3>1
        <4>2. present => fifo' = <<>>
          BY <2>6 DEF ResetCore
        <4>3. present => ~active'
          BY <2>6, Zenon DEF ResetCore
        <4> QED
          BY <4>1, <4>2, <4>3, Zenon
      <3> QED
        BY <3>1, <3>2
    <2>7. CASE Release
      BY <2>7, <2>1, <2>2, Places DEF Release, At, core
    <2>8. CASE Word
      <3>1. n \in 2 .. 9
        BY <2>8, <2>1, Places DEF Word, At
      <3>2. present /\ ~active /\ depth >= 8 /\ Len(fifo) = 9 - n /\ Free > 0
        BY <3>1, <2>2, <2>h
      <3>3. fifo' = Append(fifo, Packet(addr)[10 - n]) /\ UNCHANGED <<present, active, depth>>
        BY <2>8, <2>w, <3>2 DEF Word
      <3>4. Packet(addr)[10 - n] \in Int
        <4>1. 10 - n \in 1 .. 8
          BY <3>1
        <4> QED
          BY <1>n, <4>1, PacketWords
      <3>5. /\ Len(fifo') = 10 - n
            /\ \A i \in 1 .. 9 - n : fifo'[i] = fifo[i]
            /\ fifo'[10 - n] = Packet(addr)[10 - n]
        BY <3>1, <3>2, <3>3, <3>4, <2>h
      <3> QED
        BY <3>1, <3>2, <3>3, <3>5, <2>2
    <2>9. CASE StartWrite
      BY <2>9, <2>1, Places DEF StartWrite, At
    <2> QED
      BY <1>5, <2>4, <2>5, <2>6, <2>7, <2>8, <2>9 DEF Step
  <1>6. CASE UNCHANGED vars
    BY <1>6 DEF vars, core, PacketInv, BootAddress
  <1> QED
    BY <1>1, <1>2, <1>3, <1>4, <1>5, <1>6, OnOrStop DEF Next

\* A core that writes has the end of one packet: a process changes nothing of
\* it but to stop it and to start it with a whole packet.
LEMMA WriteStep ==
    TypeOK /\ TodoInv /\ PacketInv /\ WriteInv /\ [Next]_vars => WriteInv'
  <1> SUFFICES ASSUME TypeOK, TodoInv, PacketInv, WriteInv, [Next]_vars, present', active'
               PROVE  \E a \in Addresses : BootAddress(a) /\ \E k \in 0 .. 8 : Writing(a, k)'
    BY DEF WriteInv
  <1>u. ASSUME present, active, UNCHANGED <<fifo, port, wbstar>>
        PROVE  \E a \in Addresses : BootAddress(a) /\ \E k \in 0 .. 8 : Writing(a, k)'
    BY <1>u DEF WriteInv, Writing
  <1>1. CASE Drain
    <2>1. present /\ active /\ fifo # <<>>
      BY <1>1 DEF Drain
    <2>2. PICK a \in Addresses : BootAddress(a) /\ \E k \in 0 .. 8 : Writing(a, k)
      BY <2>1 DEF WriteInv
    <2>3. PICK k \in 0 .. 8 : Writing(a, k)
      BY <2>2
    <2>4. /\ fifo \in Seq(Int) /\ fifo' = Tail(fifo) /\ port' = Head(fifo)
          /\ wbstar' = IF port = Wbstar THEN Head(fifo) ELSE wbstar
      BY <1>1, <2>1 DEF Drain, TypeOK
    <2>5. a \in Nat
      BY AddressesAssumption
    <2>6. /\ Len(fifo) > 0 /\ Head(fifo) = fifo[1] /\ Len(fifo') = Len(fifo) - 1
          /\ \A i \in 1 .. Len(fifo) - 1 : fifo'[i] = fifo[i + 1]
      BY <2>1, <2>4
    <2>7. /\ Len(fifo) = 8 - k /\ \A i \in 1 .. 8 - k : fifo[i] = Packet(a)[i + k]
          /\ k > 0 => port = Packet(a)[k]
          /\ k > 4 => wbstar = a \div 256
      BY <2>3 DEF Writing
    <2>8. k + 1 \in 1 .. 8
      BY <2>6, <2>7
    <2>9. Head(fifo) = Packet(a)[k + 1]
      BY <2>6, <2>7, <2>8
    <2>10. \A i \in 1 .. 8 - (k + 1) : fifo'[i] = Packet(a)[i + (k + 1)]
      <3> TAKE i \in 1 .. 8 - (k + 1)
      <3>1. i \in 1 .. Len(fifo) - 1 /\ i + 1 \in 1 .. 8 - k /\ (i + 1) + k = i + (k + 1)
        BY <2>7, <2>8
      <3>2. fifo'[i] = fifo[i + 1] /\ fifo[i + 1] = Packet(a)[(i + 1) + k]
        BY <3>1, <2>6, <2>7
      <3> QED
        BY <3>1, <3>2
    <2>11. k + 1 > 4 => wbstar' = a \div 256
      <3>1. CASE k = 4
        <4>1. 4 \in 1 .. 8 /\ Packet(a)[4] = Wbstar /\ Packet(a)[5] = a \div 256
          BY <2>5, PacketWords
        <4>2. port = Packet(a)[4] /\ Head(fifo) = Packet(a)[5]
          BY <3>1, <2>7, <2>9
        <4> QED
          BY <4>1, <4>2, <2>4
      <3>2. CASE k > 4
        <4>1. k \in 1 .. 8 /\ k # 4
          BY <3>2
        <4>2. port # Wbstar
          <5>1. Packet(a)[k] # Wbstar
            BY <4>1, <2>5, PacketWords
          <5> QED
            BY <3>2, <5>1, <2>7
        <4> QED
          BY <3>2, <4>2, <2>4, <2>7
      <3> QED
        BY <3>1, <3>2
    <2>12. Writing(a, k + 1)'
      <3>1. Len(fifo') = 8 - (k + 1)
        BY <2>6, <2>7
      <3>2. port' = Packet(a)[k + 1]
        BY <2>4, <2>9
      <3> QED
        BY <3>1, <3>2, <2>10, <2>11 DEF Writing
    <2> QED
      BY <2>2, <2>8, <2>12
  <1>2. CASE Boot
    BY <1>2 DEF Boot
  <1>3. ASSUME NEW a \in Addresses, Start(a) PROVE present /\ active /\ UNCHANGED <<fifo, port, wbstar>>
    BY <1>3 DEF Start, core
  <1>4. CASE Check \/ WaitIdle \/ Release \/ Break
    <2>1. UNCHANGED core
      BY <1>4 DEF Check, WaitIdle, Release, Break
    <2> QED
      BY <2>1, <1>u DEF core
  <1>5. CASE ResetCore
    <2>1. ~(present /\ active')
      BY <1>5, Zenon DEF ResetCore
    <2> QED
      BY <1>5, <2>1 DEF ResetCore
  <1>6. CASE Word
    <2>1. present /\ UNCHANGED <<present, active, port, wbstar>>
      BY <1>6 DEF Word
    <2>2. ~BootAddress(addr)
      <3> SUFFICES ASSUME BootAddress(addr) PROVE FALSE
        OBVIOUS
      <3>1. todo # <<>> /\ Head(todo) = "word" /\ Go /\ addr' = addr
        BY <1>6 DEF Word, At
      <3>2. Due(Len(todo)) = "word"
        BY <3>1, GoOn
      <3>3. Len(todo) \in 1 .. 18
        <4> DEFINE n == Len(todo)
        <4>1. n \in Nat /\ n > 0 /\ n <= 18
          BY <3>1 DEF TypeOK, TodoInv
        <4> HIDE DEF n
        <4>2. n \in 1 .. 18
          BY <4>1
        <4> QED
          BY <4>2 DEF n
      <3>4. Len(todo) \in 2 .. 9
        BY <3>2, <3>3, Places
      <3> QED
        BY <3>4, <2>1 DEF PacketInv
    <2>3. todo[1] = "word" /\ Len(todo) > 0
      BY <1>6 DEF Word, At, TypeOK
    <2> QED
      BY <2>2, <2>3 DEF TodoInv, TypeOK
  <1>7. CASE StartWrite
    <2>1. present /\ todo # <<>> /\ Head(todo) = "write" /\ UNCHANGED <<fifo, port, wbstar>>
      BY <1>7 DEF StartWrite, At
    <2>2. BootAddress(addr) /\ Len(todo) = 1
      BY <1>7, WritesWhole DEF StartWrite
    <2>3. Len(fifo) = 9 - Len(todo) /\ \A i \in 1 .. Len(fifo) : fifo[i] = Packet(addr)[i]
      BY <2>2 DEF PacketInv
    <2>4. Len(fifo) = 8
      BY <2>2, <2>3
    <2>5. PICK a \in Addresses : a = addr
      BY DEF TypeOK
    <2>6. Writing(a, 0)'
      <3>1. \A i \in 1 .. 8 : fifo'[i] = Packet(a)[i]
        BY <2>1, <2>3, <2>4, <2>5
      <3>2. \A i \in 1 .. 8 : i + 0 = i
        OBVIOUS
      <3>3. Len(fifo') = 8 - 0 /\ 8 - 0 = 8
        BY <2>1, <2>4
      <3> QED
        BY <3>1, <3>2, <3>3 DEF Writing
    <2> QED
      BY <2>2, <2>5, <2>6
  <1>8. CASE UNCHANGED vars
    BY <1>8, <1>u DEF vars, core
  <1> QED
    BY <1>u, <1>1, <1>2, <1>3, <1>4, <1>5, <1>6, <1>7, <1>8 DEF Next, Step

-----------------------------------------------------------------------------
\* The inductive invariant: where the process is in its two functions, what the
\* core has of its packet, and what a core that writes has left of one.
THEOREM BootInvariant == Spec => []BootInv
  <1>1. Init => BootInv
    <2> SUFFICES ASSUME Init PROVE BootInv
      OBVIOUS
    <2>1. /\ fifo = <<>> /\ todo = <<>> /\ active = FALSE /\ present = TRUE /\ ready \in BOOLEAN
          /\ depth \in Depths /\ port = -1 /\ wbstar = 0 /\ addr \in Addresses
      BY DEF Init, Dummy
    <2>2. fifo \in Seq(Int) /\ todo \in Seq(Accesses) /\ Len(todo) = 0
      BY <2>1
    <2>3. TypeOK
      <3>1. depth \in Nat \ {0} /\ port \in Int /\ wbstar \in Int /\ addr \in Addresses
        BY <2>1, DepthsAssumption
      <3>2. present \in BOOLEAN /\ ready \in BOOLEAN /\ active \in BOOLEAN
        BY <2>1
      <3> QED
        BY <2>2, <3>1, <3>2 DEF TypeOK
    <2>4. TodoInv /\ PacketInv /\ WriteInv
      BY <2>1, <2>2 DEF TodoInv, PacketInv, WriteInv
    <2> QED
      BY <2>3, <2>4 DEF BootInv
  <1>2. BootInv /\ [Next]_vars => BootInv'
    BY PlaceStep, PacketStep, WriteStep DEF BootInv
  <1> QED
    BY <1>1, <1>2, PTL DEF Spec

\* The command is atomic: a write to the port starts with the whole packet of
\* the address asked for, and nothing that another process left.
THEOREM PacketWhole == Spec => PacketIsWhole
  <1>1. BootInv /\ [Next]_vars => [StartWrite /\ present => fifo = Packet(addr)]_vars
    <2> SUFFICES ASSUME BootInv, StartWrite, present PROVE fifo = Packet(addr)
      OBVIOUS
    <2>1. BootAddress(addr) /\ Len(todo) = 1
      BY WritesWhole DEF BootInv, StartWrite
    <2>2. Len(fifo) = 9 - Len(todo) /\ \A i \in 1 .. Len(fifo) : fifo[i] = Packet(addr)[i]
      BY <2>1 DEF BootInv, PacketInv
    <2>3. Len(fifo) = 8
      BY <2>1, <2>2
    <2>4. fifo \in Seq(Int) /\ Packet(addr) \in Seq(Int) /\ Len(Packet(addr)) = 8
      BY AddressesAssumption, PacketWords DEF BootInv, TypeOK
    <2> QED
      BY <2>2, <2>3, <2>4, SeqEqual
  <1> QED
    BY <1>1, BootInvariant, PTL DEF Spec, PacketIsWhole

\* The device never boots from an address nobody asked for, nor from one that
\* its 24-bit configuration mode cannot reach.
THEOREM BootWhereAsked == Spec => BootsWhereAsked
  <1>1. ASSUME BootInv, Next, present, ~present'
        PROVE  \E a \in Addresses : a <= MaxFlashAddress /\ a % 256 = 0 /\ wbstar' = a \div 256
    <2>1. Drain /\ active /\ fifo # <<>> /\ port = Command /\ Head(fifo) = IprogWord
      BY <1>1 DEF Next, Drain, Boot, Step, Check, WaitIdle, ResetCore, Release, Word, StartWrite,
                  Break, Start, core
    <2>2. PICK a \in Addresses : BootAddress(a) /\ \E k \in 0 .. 8 : Writing(a, k)
      BY <1>1, <2>1 DEF BootInv, WriteInv
    <2>3. PICK k \in 0 .. 8 : Writing(a, k)
      BY <2>2
    <2>4. a \in Nat /\ fifo \in Seq(Int)
      BY <1>1, AddressesAssumption DEF BootInv, TypeOK
    <2>5. k < 8 /\ Head(fifo) = Packet(a)[1 + k]
      BY <2>1, <2>3, <2>4 DEF Writing
    <2>6. 1 + k \in 1 .. 8 /\ Packet(a)[1 + k] = IprogWord
      BY <2>1, <2>5
    <2>7. 1 + k = 7
      BY <2>4, <2>6, PacketWords
    <2>8. wbstar = a \div 256 /\ port # Wbstar
      BY <2>1, <2>3, <2>7 DEF Writing, Wbstar, Command
    <2>9. wbstar' = wbstar
      BY <2>1, <2>8 DEF Drain
    <2> QED
      BY <2>2, <2>8, <2>9 DEF BootAddress
  <1>2. BootInv /\ [Next]_vars =>
            [present /\ ~present' => \E a \in Addresses :
                 a <= MaxFlashAddress /\ a % 256 = 0 /\ wbstar' = a \div 256]_vars
    BY <1>1
  <1> QED
    BY <1>2, BootInvariant, PTL DEF Spec, BootsWhereAsked

-----------------------------------------------------------------------------
(* ----------------------------- BoardMemory ----------------------------- *)

\* The memory with the first n beats of a call written.
Over(m, c, n) ==
    [a \in 0 .. MemSize - 1 |->
        IF a - c.address \in 0 .. n - 1 THEN c.data[a - c.address + 1] ELSE m[a]]
\* What a client was told covers the memory.
ImageInv == image = [a \in 0 .. MemSize - 1 |-> image[a]]

\* The core was set up for the call; the beats the driver has sent are in the
\* memory or under way, in their order.  The rest of the memory is as it was told.
WriterInv ==
    /\ wPc \in {"idle", "address", "length", "start", "write", "wait", "status", "failed"}
    /\ wCall \in Writes
    /\ wPc \in {"idle", "address", "length", "start"} => ~wBusy /\ wStream = <<>> /\ mem = image
    /\ wPc \in {"address", "length", "start"} => wSent = 0
    /\ wPc \in {"length", "start", "write", "wait", "status"} => wAddress = wCall.address
    /\ wPc \in {"start", "write", "wait", "status"} => wLength = Len(wCall.data)
    /\ wPc \in {"write", "wait", "status"} =>
         /\ wSent \in 0 .. Len(wCall.data) /\ taken \in 0 .. wSent
         /\ wStream = [i \in 1 .. wSent - taken |->
                         [data |-> wCall.data[taken + i], last |-> taken + i = Len(wCall.data)]]
         /\ mem = Over(image, wCall, taken)
         /\ ~wBusy /\ "error" \notin wStatus => taken = wLength
    /\ wPc \in {"wait", "status"} => wSent = Len(wCall.data)
    /\ wPc = "status" => ~wBusy

\* n bytes of the memory.
Piece(a, n) == [x \in 1 .. n |-> Bytes(mem)[a + x - 1]]
\* The core was set up for the call; what it has sent, whole beats, was
\* collected or is under way.
Delivered(o, q) ==
    /\ rSent = q * Beat /\ o <= q
    /\ out = Piece(rCall.address, o * Beat)
    /\ rStream = [j \in 1 .. q - o |-> Piece(rCall.address + (o + j - 1) * Beat, Beat)]
ReaderInv ==
    /\ rPc \in {"idle", "address", "length", "start", "collect", "wait", "status", "failed"}
    /\ rCall \in Reads
    /\ rPc \in {"idle", "address", "length", "start"} => ~rBusy /\ rStream = <<>>
    /\ rPc \in {"address", "length", "start"} => out = <<>>
    /\ rPc \in {"length", "start", "collect", "wait", "status"} => rAddress = rCall.address
    /\ rPc \in {"start", "collect", "wait", "status"} => rLength = Reader!Transport(rCall)
    /\ rPc \in {"collect", "wait", "status"} =>
         /\ \E o, q \in Nat : Delivered(o, q)
         /\ rSent <= rLength
         /\ complete => ~rBusy /\ rSent >= rLength
    /\ rPc \in {"wait", "status"} => Len(out) >= Reader!Transport(rCall)
    /\ rPc = "status" => ~rBusy

\* One call at a time.
TurnInv == wPc = "idle" \/ rPc = "idle"

MemoryInv == ImageInv /\ WriterInv /\ ReaderInv /\ TurnInv

-----------------------------------------------------------------------------
(* Sequences that are written as functions. *)

\* They are sequences, and as long as they say.
LEMMA FunSeq ==
    ASSUME NEW n \in Nat, NEW s, s = [i \in 1 .. n |-> s[i]]
    PROVE  s \in Seq({s[i] : i \in 1 .. n}) /\ Len(s) = n
  <1> DEFINE S == {s[i] : i \in 1 .. n}
  <1>1. s \in [1 .. n -> S]
    OBVIOUS
  <1> HIDE DEF S
  <1>2. s \in Seq(S) /\ Len(s) = n
    BY <1>1
  <1> QED
    BY <1>2 DEF S

\* The head and the tail of one.
LEMMA FunTail ==
    ASSUME NEW n \in Nat, NEW s, s = [i \in 1 .. n |-> s[i]], s # <<>>
    PROVE  /\ n > 0 /\ Head(s) = s[1]
           /\ Tail(s) = [i \in 1 .. n - 1 |-> s[i + 1]]
  <1> DEFINE S == {s[i] : i \in 1 .. n}
  <1>1. s \in Seq(S) /\ Len(s) = n
    BY FunSeq
  <1> HIDE DEF S
  <1>2. n > 0 /\ Head(s) = s[1]
    BY <1>1
  <1>3. Tail(s) \in Seq(S) /\ Len(Tail(s)) = n - 1 /\ \A i \in 1 .. n - 1 : Tail(s)[i] = s[i + 1]
    BY <1>1, <1>2
  <1>4. Tail(s) = [i \in 1 .. n - 1 |-> s[i + 1]]
    BY <1>2, <1>3
  <1> QED
    BY <1>2, <1>4
\* One with an element more,
LEMMA FunAppend ==
    ASSUME NEW n \in Nat, NEW s, s = [i \in 1 .. n |-> s[i]], NEW e
    PROVE  Append(s, e) = [i \in 1 .. n + 1 |-> IF i = n + 1 THEN e ELSE s[i]]
  <1> DEFINE S == {s[i] : i \in 1 .. n}
             T == S \cup {e}
  <1>1. s \in Seq(S) /\ Len(s) = n
    BY FunSeq
  <1> HIDE DEF S
  <1>2. s \in Seq(T) /\ e \in T
    BY <1>1
  <1> HIDE DEF T
  <1>3. /\ Append(s, e) \in Seq(T) /\ Len(Append(s, e)) = n + 1
        /\ \A i \in 1 .. n + 1 : Append(s, e)[i] = IF i = n + 1 THEN e ELSE s[i]
    BY <1>1, <1>2
  <1> QED
    BY <1>3
\* the two parts of one,
LEMMA FunRest ==
    ASSUME NEW n \in Nat, NEW s, s = [i \in 1 .. n |-> s[i]], NEW k \in 0 .. n
    PROVE  /\ SubSeq(s, k + 1, n) = [i \in 1 .. n - k |-> s[i + k]]
           /\ SubSeq(s, 1, k) = [i \in 1 .. k |-> s[i]]
  <1> DEFINE S == {s[i] : i \in 1 .. n}
  <1>1. s \in Seq(S) /\ Len(s) = n
    BY FunSeq
  <1> HIDE DEF S
  <1> QED
    BY <1>1
\* and one after another.
LEMMA FunConcat ==
    ASSUME NEW n \in Nat, NEW s, s = [i \in 1 .. n |-> s[i]],
           NEW m \in Nat, NEW t, t = [i \in 1 .. m |-> t[i]]
    PROVE  s \o t = [i \in 1 .. n + m |-> IF i <= n THEN s[i] ELSE t[i - n]]
  <1> DEFINE S == {s[i] : i \in 1 .. n}
             T == {t[i] : i \in 1 .. m}
             U == S \cup T
  <1>1. s \in Seq(S) /\ Len(s) = n /\ t \in Seq(T) /\ Len(t) = m
    BY FunSeq
  <1> HIDE DEF S, T
  <1>2. s \in Seq(U) /\ t \in Seq(U)
    BY <1>1
  <1> HIDE DEF U
  <1>3. /\ s \o t \in Seq(U) /\ Len(s \o t) = n + m
        /\ \A i \in 1 .. n + m : (s \o t)[i] = IF i <= n THEN s[i] ELSE t[i - n]
    BY <1>1, <1>2
  <1> QED
    BY <1>3

-----------------------------------------------------------------------------
(* The writer. *)

\* A write fits the memory.
LEMMA CallRanges ==
    ASSUME WriterInv
    PROVE  /\ wCall.address \in Nat /\ Len(wCall.data) \in Nat
           /\ wCall.address + Len(wCall.data) <= MemSize /\ MemSize \in Nat
  BY WritesAssumption, SizesAssumption DEF WriterInv

\* Nothing was written yet; everything was.
LEMMA OverNothing ==
    ASSUME ImageInv, NEW c, c.address \in Nat
    PROVE  Over(image, c, 0) = image
  <1>1. \A a \in 0 .. MemSize - 1 : ~ (a - c.address \in 0 .. 0 - 1)
    OBVIOUS
  <1>2. Over(image, c, 0) = [a \in 0 .. MemSize - 1 |-> image[a]]
    BY <1>1 DEF Over
  <1> QED
    BY <1>2 DEF ImageInv

\* The core takes the next beat of the packet and puts it in its place.
LEMMA TakeKeeps ==
    ASSUME ImageInv, WriterInv, Writer!Take, image' = image
    PROVE  WriterInv'
  <1>1. /\ wBusy /\ taken < wLength /\ wStream # <<>>
        /\ mem' = [mem EXCEPT ![wAddress + taken] = Head(wStream).data]
        /\ taken' = taken + 1
        /\ wStatus' = IF Head(wStream).last = (taken' = wLength) THEN wStatus
                      ELSE wStatus \cup {"tlast_not_synchronized"}
        /\ wStream' = Tail(wStream)
        /\ UNCHANGED <<wAddress, wLength, wBusy, wPc, wCall, wSent, wLate>>
    BY DEF Writer!Take
  <1>2. CASE wPc \notin {"write", "wait", "status"}
    BY <1>1, <1>2 DEF WriterInv
  <1>3. CASE wPc \in {"write", "wait", "status"}
    <2> DEFINE d == wCall.data
               n == wSent - taken
               under == [i \in 1 .. n |-> [data |-> d[taken + i], last |-> taken + i = Len(d)]]
    <2>1. /\ wSent \in 0 .. Len(d) /\ taken \in 0 .. wSent
          /\ wStream = under /\ mem = Over(image, wCall, taken)
          /\ wAddress = wCall.address /\ wLength = Len(d)
          /\ Len(d) \in Nat /\ wCall.address \in Nat /\ wCall.address + Len(d) <= MemSize
          /\ MemSize \in Nat
      BY <1>3, CallRanges DEF WriterInv
    <2>2. n \in Nat
      BY <2>1
    <2> HIDE DEF n
    <2>3. /\ n > 0 /\ Head(wStream) = wStream[1]
          /\ Tail(wStream) = [i \in 1 .. n - 1 |-> wStream[i + 1]]
      <3>1. wStream = [i \in 1 .. n |-> wStream[i]]
        BY <2>1
      <3> QED
        BY <1>1, <2>2, <3>1, FunTail
    <2>4. Head(wStream).data = d[taken + 1]
      BY <2>1, <2>2, <2>3
    <2>5. taken' \in 0 .. wSent /\ wSent - taken' = n - 1
      <3>1. taken \in Nat /\ wSent \in Nat /\ n = wSent - taken /\ n > 0 /\ taken' = taken + 1
        BY <1>1, <2>1, <2>3 DEF n
      <3> QED
        BY <3>1
    <2>6. wStream' = [i \in 1 .. n - 1 |->
                        [data |-> d[taken' + i], last |-> taken' + i = Len(d)]]
      <3>1. \A i \in 1 .. n - 1 :
              wStream[i + 1] = [data |-> d[taken' + i], last |-> taken' + i = Len(d)]
        <4> TAKE i \in 1 .. n - 1
        <4>1. i + 1 \in 1 .. n /\ taken + (i + 1) = taken' + i
          BY <1>1, <2>1, <2>2
        <4>2. wStream[i + 1] = [data |-> d[taken + (i + 1)], last |-> taken + (i + 1) = Len(d)]
          BY <2>1, <4>1
        <4> QED
          BY <4>1, <4>2
      <3> QED
        BY <1>1, <2>3, <3>1
    <2>7. mem' = Over(image, wCall, taken')
      <3>1. mem' = [a \in 0 .. MemSize - 1 |->
                      IF a = wCall.address + taken THEN d[taken + 1] ELSE mem[a]]
        BY <1>1, <2>1, <2>4 DEF Over
      <3>2. ASSUME NEW a \in 0 .. MemSize - 1
            PROVE  (IF a = wCall.address + taken THEN d[taken + 1] ELSE mem[a])
                     = IF a - wCall.address \in 0 .. taken' - 1
                       THEN d[a - wCall.address + 1] ELSE image[a]
        <4>1. mem[a] = IF a - wCall.address \in 0 .. taken - 1
                       THEN d[a - wCall.address + 1] ELSE image[a]
          BY <2>1 DEF Over
        <4>2. CASE a = wCall.address + taken
          <5> DEFINE base == wCall.address
          <5>1. a = base + taken /\ base \in Nat /\ taken \in Nat /\ taken' = taken + 1
            BY <1>1, <2>1, <4>2
          <5> HIDE DEF base
          <5>2. a - base = taken /\ a - base \in 0 .. taken' - 1
            BY <5>1
          <5> QED
            BY <4>2, <5>2 DEF base
        <4>3. CASE a # wCall.address + taken
          <5>1. (a - wCall.address \in 0 .. taken' - 1) <=> (a - wCall.address \in 0 .. taken - 1)
            BY <1>1, <2>1, <4>3
          <5> QED
            BY <4>1, <4>3, <5>1
        <4> QED
          BY <4>2, <4>3
      <3> QED
        BY <3>1, <3>2 DEF Over
    <2> QED
      BY <1>1, <1>3, <2>1, <2>5, <2>6, <2>7 DEF WriterInv
  <1> QED
    BY <1>2, <1>3

\* The kernel sends the next beat, the last one with TLAST.
LEMMA SendKeeps ==
    ASSUME WriterInv, Writer!SendBeat, image' = image
    PROVE  WriterInv'
  <1> DEFINE d == wCall.data
             n == wSent - taken
             under == [i \in 1 .. n |-> [data |-> d[taken + i], last |-> taken + i = Len(d)]]
             beat == [data |-> d[wSent'], last |-> wSent' = Len(d)]
  <1>1. /\ wPc = "write" /\ wSent < Len(d) /\ wSent' = wSent + 1
        /\ wStream' = Append(wStream, beat)
        /\ UNCHANGED <<mem, wAddress, wLength, wBusy, taken, wStatus, wPc, wCall, wLate>>
    BY DEF Writer!SendBeat, Writer!core
  <1>2. /\ wSent \in 0 .. Len(d) /\ taken \in 0 .. wSent /\ wStream = under
        /\ Len(d) \in Nat
    BY <1>1, CallRanges DEF WriterInv
  <1>3. n \in Nat
    BY <1>2
  <1> HIDE DEF n
  <1>4. wStream' = [i \in 1 .. n + 1 |-> IF i = n + 1 THEN beat ELSE wStream[i]]
    <2>1. wStream = [i \in 1 .. n |-> wStream[i]]
      BY <1>2
    <2> QED
      BY <1>1, <1>3, <2>1, FunAppend
  <1>5. wSent' - taken = n + 1 /\ wSent' = taken + (n + 1)
    BY <1>1, <1>2 DEF n
  <1>6. wStream' = [i \in 1 .. n + 1 |-> [data |-> d[taken + i], last |-> taken + i = Len(d)]]
    <2>1. \A i \in 1 .. n + 1 :
            (IF i = n + 1 THEN beat ELSE wStream[i])
              = [data |-> d[taken + i], last |-> taken + i = Len(d)]
      <3> TAKE i \in 1 .. n + 1
      <3>1. CASE i = n + 1
        BY <1>5, <3>1
      <3>2. CASE i # n + 1
        BY <1>2, <1>3, <3>2
      <3> QED
        BY <3>1, <3>2
    <2> QED
      BY <1>4, <2>1
  <1>7. wSent' \in 0 .. Len(d) /\ taken \in 0 .. wSent'
    BY <1>1, <1>2
  <1> QED
    BY <1>1, <1>5, <1>6, <1>7, <1>2 DEF WriterInv, Over

\* Every step of the writer or of its core.
LEMMA WriterKeeps ==
    ASSUME ImageInv, WriterInv, Writer!Next, Told
    PROVE  ImageInv' /\ WriterInv'
  <1> USE DEF Writer!core
  <1>1. ASSUME image' = image
        PROVE  ImageInv'
    BY <1>1 DEF ImageInv
  <1>2. ~ (wPc = "status" /\ wPc' = "idle") => image' = image
    BY DEF Told
  <1>3. CASE Writer!Take
    <2>1. wPc' = wPc
      BY <1>3 DEF Writer!Take
    <2> QED
      BY <1>1, <1>2, <1>3, <2>1, TakeKeeps
  <1>4. CASE Writer!SendBeat
    <2>1. wPc' = wPc
      BY <1>4 DEF Writer!SendBeat
    <2> QED
      BY <1>1, <1>2, <1>4, <2>1, SendKeeps
  <1>5. CASE Writer!Stop
    <2>1. /\ wBusy /\ wBusy' = FALSE
          /\ taken = wLength \/ "error" \in wStatus'
          /\ UNCHANGED <<mem, wAddress, wLength, taken, wStream, wPc, wCall, wSent, wLate>>
      BY <1>5 DEF Writer!Stop
    <2>2. image' = image
      BY <1>2, <2>1
    <2> QED
      BY <1>1, <2>1, <2>2 DEF WriterInv, Over
  <1>6. CASE Writer!AccessThrows \/ (Writer!Throw /\ wCall' = wCall)
    <2>1. wPc' = "failed" /\ wCall' = wCall
      BY <1>6 DEF Writer!AccessThrows, Writer!Throw
    <2>2. image' = image
      BY <1>2, <2>1
    <2> QED
      BY <1>1, <2>1, <2>2 DEF WriterInv
  <1>7. ASSUME NEW c \in Writes, Writer!Call(c)
        PROVE  ImageInv' /\ WriterInv'
    <2>1. /\ wPc = "idle" /\ wPc' = "address" /\ wCall' = c /\ wSent' = 0
          /\ UNCHANGED <<mem, wAddress, wLength, wBusy, taken, wStatus, wStream>>
      BY <1>7 DEF Writer!Call
    <2>2. image' = image
      BY <1>2, <2>1
    <2> QED
      BY <1>1, <2>1, <2>2 DEF WriterInv
  <1>8. CASE Writer!SetAddress
    <2>1. /\ wPc = "address" /\ wPc' = "length"
          /\ wAddress' = IF wBusy THEN wAddress ELSE wCall.address
          /\ UNCHANGED <<mem, wLength, wBusy, taken, wStatus, wStream, wCall, wSent>>
      BY <1>8 DEF Writer!SetAddress
    <2>2. image' = image
      BY <1>2, <2>1
    <2> QED
      BY <1>1, <2>1, <2>2 DEF WriterInv
  <1>9. CASE Writer!SetLength
    <2>1. /\ wPc = "length" /\ wPc' = "start"
          /\ wLength' = IF wBusy THEN wLength ELSE Len(wCall.data)
          /\ UNCHANGED <<mem, wAddress, wBusy, taken, wStatus, wStream, wCall, wSent>>
      BY <1>9 DEF Writer!SetLength
    <2>2. image' = image
      BY <1>2, <2>1
    <2> QED
      BY <1>1, <2>1, <2>2 DEF WriterInv
  <1>10. CASE Writer!Start
    <2>1. /\ wPc = "start" /\ wPc' = "write"
          /\ ~wBusy => wBusy' = TRUE /\ taken' = 0
          /\ UNCHANGED <<mem, wAddress, wLength, wStream, wCall, wSent>>
      BY <1>10 DEF Writer!Start
    <2>2. image' = image
      BY <1>2, <2>1
    <2>3. /\ ~wBusy /\ wStream = <<>> /\ mem = image /\ wSent = 0 /\ taken' = 0
          /\ wBusy' /\ wAddress = wCall.address /\ wLength = Len(wCall.data)
      BY <2>1 DEF WriterInv
    <2>4. mem = Over(image, wCall, 0)
      BY <2>3, OverNothing, CallRanges
    <2>5. wStream = [i \in 1 .. wSent - taken' |->
                       [data |-> wCall.data[taken' + i], last |-> taken' + i = Len(wCall.data)]]
      <3>1. wSent - taken' = 0 /\ 1 .. 0 = {}
        BY <2>3
      <3> QED
        BY <2>3, <3>1
    <2>6. wSent \in 0 .. Len(wCall.data) /\ taken' \in 0 .. wSent
      BY <2>3, CallRanges
    <2>7. WriterInv'
      BY <2>1, <2>2, <2>3, <2>4, <2>5, <2>6 DEF WriterInv, Over
    <2> QED
      BY <1>1, <2>2, <2>7
  <1>11. CASE Writer!WriteReturns
    <2>1. CASE Writer!Throw
      BY <1>6, <1>11, <2>1 DEF Writer!WriteReturns
    <2>2. CASE ~Writer!Throw
      <3>1. /\ wPc = "write" /\ wSent = Len(wCall.data) /\ wPc' = "wait"
            /\ UNCHANGED <<mem, wAddress, wLength, wBusy, taken, wStatus, wStream, wCall, wSent>>
        BY <1>11, <2>2 DEF Writer!WriteReturns
      <3>2. image' = image
        BY <1>2, <3>1
      <3> QED
        BY <1>1, <3>1, <3>2 DEF WriterInv, Over
    <2> QED
      BY <2>1, <2>2
  <1>12. CASE Writer!WaitIdle
    <2>1. CASE Writer!Throw
      BY <1>6, <1>12, <2>1 DEF Writer!WaitIdle
    <2>2. CASE ~Writer!Throw
      <3>1. /\ wPc = "wait" /\ ~wBusy /\ wPc' = "status"
            /\ UNCHANGED <<mem, wAddress, wLength, wBusy, taken, wStatus, wStream, wCall, wSent>>
        BY <1>12, <2>2 DEF Writer!WaitIdle
      <3>2. image' = image
        BY <1>2, <3>1
      <3> QED
        BY <1>1, <3>1, <3>2 DEF WriterInv, Over
    <2> QED
      BY <2>1, <2>2
  <1>13. CASE Writer!Status
    <2>1. CASE Writer!Throw
      BY <1>6, <1>13, <2>1 DEF Writer!Status
    <2>2. CASE ~Writer!Throw
      <3>1. /\ wPc = "status" /\ wStatus = Writer!Good /\ wPc' = "idle"
            /\ UNCHANGED <<mem, wAddress, wLength, wBusy, taken, wStatus, wStream, wCall, wSent>>
        BY <1>13, <2>2 DEF Writer!Status
      <3>2. ~wBusy /\ taken = wLength /\ wLength = Len(wCall.data) /\ wSent = Len(wCall.data)
        BY <3>1 DEF WriterInv, Writer!Good
      <3>3. wStream = <<>>
        <4>1. wStream = [i \in 1 .. wSent - taken |->
                           [data |-> wCall.data[taken + i], last |-> taken + i = Len(wCall.data)]]
          BY <3>1 DEF WriterInv
        <4>2. wSent - taken = 0
          BY <3>2, CallRanges
        <4>3. wStream = [i \in 1 .. 0 |->
                           [data |-> wCall.data[taken + i], last |-> taken + i = Len(wCall.data)]]
          BY <4>1, <4>2
        <4>4. wStream = [i \in 1 .. 0 |-> wStream[i]]
          BY <4>3
        <4>5. Len(wStream) = 0 /\ wStream \in Seq({wStream[i] : i \in 1 .. 0})
          BY <4>4, FunSeq
        <4> QED
          BY <4>5, EmptySeq
      <3>4. image' = Over(image, wCall, Len(wCall.data))
        BY <3>1 DEF Told, ImageInv, Over
      <3>5. mem' = image'
        BY <3>1, <3>2, <3>4 DEF WriterInv
      <3>6. ImageInv'
        BY <3>4 DEF ImageInv, Over
      <3> QED
        BY <3>1, <3>2, <3>3, <3>5, <3>6 DEF WriterInv
    <2> QED
      BY <2>1, <2>2
  <1>14. CASE Writer!Tick
    <2>1. UNCHANGED <<mem, wAddress, wLength, wBusy, taken, wStatus, wStream, wPc, wCall, wSent>>
      BY <1>14 DEF Writer!Tick
    <2>2. image' = image
      BY <1>2, <2>1
    <2> QED
      BY <1>1, <2>1, <2>2 DEF WriterInv, Over
  <1>15. CASE Writer!Driver
    BY <1>8, <1>9, <1>10, <1>11, <1>12, <1>13, <1>15, Zenon DEF Writer!Driver
  <1>16. CASE Writer!AccessThrows
    BY <1>6, <1>16
  <1> QED
    BY <1>3, <1>4, <1>5, <1>7, <1>11, <1>14, <1>15, <1>16, Zenon DEF Writer!Next

-----------------------------------------------------------------------------
(* The reader.  Everything it counts in is a multiple of a beat. *)

\* Multiples are ordered and added like what they are multiples of.
LEMMA Multiples ==
    ASSUME NEW i \in Nat, NEW j \in Nat, NEW d \in Nat \ {0}
    PROVE  /\ i * d \in Nat
           /\ i * d < j * d => i < j
           /\ i * d <= j * d => i <= j
           /\ i <= j => i * d <= j * d
           /\ (i + j) * d = i * d + j * d
           /\ (i + 1) * d = i * d + d
           /\ i <= j => (j - i) * d = j * d - i * d
  <1>1. ASSUME NEW x \in Nat, NEW y \in Nat, x < y
        PROVE  x * d + d <= y * d
    BY <1>1
  <1>2. i * d \in Nat /\ j * d \in Nat
    OBVIOUS
  <1>3. i * d < j * d => i < j
    <2>1. CASE i = j
      BY <2>1, <1>2
    <2>2. CASE j < i
      BY <2>2, <1>1, <1>2
    <2> QED
      BY <2>1, <2>2
  <1>4. i * d <= j * d => i <= j
    BY <1>1, <1>2
  <1>5. i <= j => i * d <= j * d
    <2>1. CASE i = j
      BY <2>1, <1>2
    <2>2. CASE i < j
      BY <2>2, <1>1, <1>2
    <2> QED
      BY <2>1, <2>2
  <1>6. (i + j) * d = i * d + j * d /\ (i + 1) * d = i * d + d
    OBVIOUS
  <1>7. i <= j => (j - i) * d = j * d - i * d
    OBVIOUS
  <1> QED
    BY <1>2, <1>3, <1>4, <1>5, <1>6, <1>7

\* What a read transports, and what it asks for at a time, are whole beats.
LEMMA WholeBeats ==
    ASSUME NEW n \in Nat
    PROVE  \E t \in Nat : Reader!RoundUp(n) = t * Beat /\ n <= t * Beat
  <1> DEFINE m == n + Beat - 1
             t == m \div Beat
             r == m % Beat
  <1>1. Beat \in Nat \ {0} /\ m \in Nat /\ m = n + Beat - 1
    BY SizesAssumption
  <1>3. Reader!RoundUp(n) = t * Beat
    BY DEF Reader!RoundUp
  <1> HIDE DEF m
  <1>2. t \in Nat /\ m = t * Beat + r /\ r \in Nat /\ r < Beat
    BY <1>1, QuotientRemainder
  <1> HIDE DEF t, r
  <1>4. t * Beat \in Nat
    BY <1>1, <1>2
  <1>5. n <= t * Beat
    BY <1>1, <1>2, <1>4
  <1> QED
    BY <1>2, <1>3, <1>5
\* The same for a call.
LEMMA Units ==
    ASSUME NEW c \in Reads
    PROVE  /\ c.address \in Nat /\ c.bytes \in Nat
           /\ \E t \in Nat : Reader!Transport(c) = t * Beat /\ c.bytes <= t * Beat
           /\ \E u \in Nat \ {0} : Reader!Chunk(c) = u * Beat
  <1>1. c.address \in Nat /\ c.bytes \in Nat /\ c.chunk \in Nat /\ Beat \in Nat \ {0}
    BY ReadsAssumption, SizesAssumption
  <1>2. \E t \in Nat : Reader!Transport(c) = t * Beat /\ c.bytes <= t * Beat
    BY <1>1, WholeBeats DEF Reader!Transport
  <1>3. PICK u \in Nat : Reader!RoundUp(c.chunk) = u * Beat
    BY <1>1, WholeBeats
  <1>4. CASE u * Beat > Beat
    <2>1. u # 0
      BY <1>1, <1>4
    <2> QED
      BY <1>1, <1>2, <1>3, <1>4, <2>1 DEF Reader!Chunk
  <1>5. CASE ~ (u * Beat > Beat)
    <2>1. Reader!Chunk(c) = 1 * Beat
      BY <1>1, <1>3, <1>5 DEF Reader!Chunk
    <2> QED
      BY <1>1, <1>2, <2>1
  <1> QED
    BY <1>4, <1>5

\* Bytes that were cut into beats and put together again.
Cut(f, b, d, n, s) == \A j \in 1 .. n : \A x \in 1 .. d : s[j][x] = f[b + (j - 1) * d + x - 1]
\* The same bytes found by their number.
Regained(f, b, d, k, s) ==
    \A i \in 1 .. k * d : s[(i - 1) \div d + 1][((i - 1) % d) + 1] = f[b + i - 1]
\* Their beats in order are the bytes in order.
LEMMA Gathered ==
    ASSUME NEW f, NEW b \in Nat, NEW d \in Nat \ {0}, NEW n \in Nat, NEW k \in 0 .. n,
           NEW s, Cut(f, b, d, n, s)
    PROVE  Regained(f, b, d, k, s)
  <1>1. ASSUME NEW i \in 1 .. k * d
        PROVE  s[(i - 1) \div d + 1][((i - 1) % d) + 1] = f[b + i - 1]
    <2> DEFINE q == (i - 1) \div d
               r == (i - 1) % d
    <2>1. k * d \in Nat /\ k \in Nat /\ i \in Nat /\ i - 1 \in Nat
      BY Multiples
    <2>2. q \in Nat /\ r \in Nat /\ r < d /\ i - 1 = q * d + r
      BY <2>1, QuotientRemainder
    <2> HIDE DEF q, r
    <2>3. q * d < k * d
      <3>1. q * d \in Nat
        BY <2>2, Multiples
      <3> QED
        BY <2>1, <2>2, <3>1
    <2>4. q + 1 \in 1 .. n /\ r + 1 \in 1 .. d
      <3>1. q < k
        BY <2>1, <2>2, <2>3, Multiples
      <3> QED
        BY <2>2, <3>1
    <2>5. PICK p \in 1 .. n : p = q + 1
      BY <2>4
    <2>6. PICK y \in 1 .. d : y = r + 1
      BY <2>4
    <2>7. s[p][y] = f[b + (p - 1) * d + y - 1]
      BY Zenon DEF Cut
    <2>8. b + (p - 1) * d + y - 1 = b + i - 1
      <3>1. p - 1 = q /\ q * d \in Nat /\ (p - 1) * d = q * d
        BY <2>2, <2>5, Multiples
      <3> QED
        BY <2>1, <2>2, <2>6, <3>1
    <2> QED
      BY <2>5, <2>6, <2>7, <2>8 DEF q, r
  <1> QED
    BY <1>1 DEF Regained

\* The core sends one more beat.
LEMMA PushKeeps ==
    ASSUME ReaderInv, Reader!Push, mem' = mem
    PROVE  ReaderInv'
  <1>1. /\ rBusy /\ rSent < rLength /\ rSent' = rSent + Beat
        /\ rStream' = Append(rStream, [x \in 1 .. Beat |-> Bytes(mem)[rAddress + rSent + x - 1]])
        /\ UNCHANGED <<rAddress, rLength, rBusy, complete, error, rPc, rCall, out, rLate>>
    BY DEF Reader!Push
  <1>2. CASE rPc \in {"idle", "address", "length", "start"}
    BY <1>1, <1>2 DEF ReaderInv
  <1>3. CASE rPc = "failed"
    BY <1>1, <1>3 DEF ReaderInv
  <1>4. CASE rPc \in {"collect", "wait", "status"}
    <2>1. PICK o \in Nat, q \in Nat : Delivered(o, q)
      BY <1>4 DEF ReaderInv
    <2>2. /\ rAddress = rCall.address /\ rLength = Reader!Transport(rCall) /\ rCall \in Reads
          /\ rCall.address \in Nat /\ Beat \in Nat \ {0} /\ ~complete
      BY <1>1, <1>4, Units, SizesAssumption DEF ReaderInv
    <2>3. PICK t \in Nat : rLength = t * Beat
      BY <2>2, Units
    <2> DEFINE base == rCall.address
               n == q - o
               beat(j) == Piece(base + (o + j - 1) * Beat, Beat)
    <2>4. n \in Nat /\ o + n = q /\ rSent = q * Beat /\ rStream = [j \in 1 .. n |-> beat(j)]
      BY <2>1 DEF Delivered
    <2> HIDE DEF n
    <2>5. rSent' = (q + 1) * Beat /\ rSent' <= rLength
      <3>1. q < t
        BY <1>1, <2>2, <2>3, <2>4, Multiples
      <3>2. (q + 1) * Beat = q * Beat + Beat
        BY <2>2, Multiples
      <3>3. (q + 1) * Beat <= t * Beat
        BY <2>2, <3>1, Multiples
      <3> QED
        BY <1>1, <2>3, <2>4, <3>2, <3>3
    <2>6. beat(n + 1) = [x \in 1 .. Beat |-> Bytes(mem)[rAddress + rSent + x - 1]]
      <3>1. o + (n + 1) - 1 = q
        BY <2>4
      <3>2. base + (o + (n + 1) - 1) * Beat = rAddress + rSent
        BY <2>2, <2>4, <3>1
      <3> QED
        BY <3>2 DEF Piece
    <2>7. rStream' = [j \in 1 .. n + 1 |-> beat(j)]
      <3>1. rStream = [j \in 1 .. n |-> rStream[j]]
        BY <2>4
      <3>2. rStream' = [j \in 1 .. n + 1 |-> IF j = n + 1 THEN beat(n + 1) ELSE rStream[j]]
        BY <1>1, <2>4, <2>6, <3>1, FunAppend
      <3>3. ASSUME NEW j \in 1 .. n + 1
            PROVE  (IF j = n + 1 THEN beat(n + 1) ELSE rStream[j]) = beat(j)
        <4>1. CASE j = n + 1
          BY <4>1
        <4>2. CASE j # n + 1
          <5>1. j \in 1 .. n
            BY <2>4, <4>2
          <5> HIDE DEF beat
          <5> QED
            BY <2>4, <4>2, <5>1
        <4> QED
          BY <4>1, <4>2
      <3> QED
        BY <3>2, <3>3
    <2>8. q + 1 \in Nat /\ (q + 1) - o = n + 1 /\ o <= q + 1
      BY <2>1, <2>4
    <2>9. Delivered(o, q + 1)'
      <3>1. rStream' = [j \in 1 .. (q + 1) - o |-> Piece(rCall.address + (o + j - 1) * Beat, Beat)]
        BY <2>7, <2>8
      <3>2. out = Piece(rCall.address, o * Beat)
        BY <2>1 DEF Delivered
      <3> QED
        BY <1>1, <2>5, <2>8, <3>1, <3>2 DEF Delivered, Piece
    <2> QED
      BY <1>1, <1>4, <2>2, <2>5, <2>8, <2>9 DEF ReaderInv
  <1> QED
    BY <1>2, <1>3, <1>4 DEF ReaderInv

\* Adjoining pieces make up one.
LEMMA PieceConcat ==
    ASSUME NEW b \in Nat, NEW x \in Nat, NEW y \in Nat
    PROVE  Piece(b, x) \o Piece(b + x, y) = Piece(b, x + y)
  <1> DEFINE s == Piece(b, x)
             r == Piece(b + x, y)
  <1>1. s = [i \in 1 .. x |-> s[i]] /\ r = [i \in 1 .. y |-> r[i]]
    BY Zenon DEF Piece
  <1>2. s \o r = [i \in 1 .. x + y |-> IF i <= x THEN s[i] ELSE r[i - x]]
    <2> HIDE DEF s, r
    <2> QED
      BY <1>1, FunConcat
  <1>3. ASSUME NEW i \in 1 .. x + y
        PROVE  (IF i <= x THEN s[i] ELSE r[i - x]) = Bytes(mem)[b + i - 1]
    <2>1. CASE i <= x
      BY <2>1 DEF Piece
    <2>2. CASE ~ (i <= x)
      <3>1. PICK j \in 1 .. y : j = i - x
        BY <2>2
      <3>2. r[j] = Bytes(mem)[b + x + j - 1]
        BY Zenon DEF Piece
      <3>3. b + x + j - 1 = b + i - 1
        BY <3>1
      <3> QED
        BY <2>2, <3>1, <3>2, <3>3
    <2> QED
      BY <2>1, <2>2
  <1> HIDE DEF s, r
  <1>4. s \o r = [i \in 1 .. x + y |-> Bytes(mem)[b + i - 1]]
    BY <1>2, <1>3
  <1> QED
    BY <1>4, Zenon DEF Piece, s, r

\* The driver takes what has arrived: whole beats, no more than are left.
LEMMA CollectKeeps ==
    ASSUME ReaderInv, Reader!Collect, mem' = mem
    PROVE  ReaderInv'
  <1>1. /\ rPc = "collect" /\ Len(out) < Reader!Transport(rCall)
        /\ UNCHANGED <<rAddress, rLength, rBusy, rSent, complete, error, rPc, rCall, rLate>>
    BY DEF Reader!Collect, Reader!core
  <1>2. PICK k \in 1 .. Len(rStream) :
          /\ (k - 1) * Beat < Reader!Wanted
          /\ out' = out \o Reader!Delivered(k)
          /\ rStream' = SubSeq(rStream, k + 1, Len(rStream))
    BY DEF Reader!Collect
  <1>3. PICK o \in Nat, q \in Nat : Delivered(o, q)
    BY <1>1 DEF ReaderInv
  <1>4. /\ rCall \in Reads /\ rCall.address \in Nat /\ Beat \in Nat \ {0}
        /\ rAddress = rCall.address
    BY <1>1, Units, SizesAssumption DEF ReaderInv
  <1>5. PICK t \in Nat : Reader!Transport(rCall) = t * Beat
    BY <1>4, Units
  <1>6. PICK u \in Nat \ {0} : Reader!Chunk(rCall) = u * Beat
    BY <1>4, Units
  <1> DEFINE base == rCall.address
             beat(j) == Piece(base + (o + j - 1) * Beat, Beat)
  <1>7. PICK n \in Nat :
          o + n = q /\ n = q - o /\ rSent = q * Beat /\ rStream = [j \in 1 .. n |-> beat(j)]
    BY <1>3 DEF Delivered
  <1>8. Len(rStream) = n /\ k \in 0 .. n /\ k \in Nat
    <2> HIDE DEF beat
    <2>1. rStream = [j \in 1 .. n |-> rStream[j]]
      BY <1>7
    <2>2. Len(rStream) = n
      BY <1>7, <2>1, FunSeq
    <2> QED
      BY <1>2, <1>7, <2>2
  <1>9. o * Beat \in Nat /\ Len(out) = o * Beat /\ out = [i \in 1 .. o * Beat |-> out[i]]
    <2>1. o * Beat \in Nat
      BY <1>4, Multiples
    <2>2. out = [i \in 1 .. o * Beat |-> out[i]]
      BY <1>3, Zenon DEF Delivered, Piece
    <2> QED
      BY <2>1, <2>2, FunSeq
  <1>10. k * Beat <= Reader!Wanted
    <2>1. o < t
      BY <1>1, <1>4, <1>5, <1>9, Multiples
    <2>2. t - o \in Nat /\ (t - o) * Beat = t * Beat - o * Beat
      BY <1>4, <2>1, Multiples
    <2>3. PICK w \in Nat : Reader!Wanted = w * Beat
      <3>1. CASE u * Beat < t * Beat - o * Beat
        BY <1>5, <1>6, <1>9, <3>1 DEF Reader!Wanted
      <3>2. CASE ~ (u * Beat < t * Beat - o * Beat)
        BY <1>5, <1>6, <1>9, <2>2, <3>2 DEF Reader!Wanted
      <3> QED
        BY <3>1, <3>2
    <2>4. k - 1 \in Nat
      BY <1>2, <1>8
    <2>5. k - 1 < w
      BY <1>2, <1>4, <2>3, <2>4, Multiples
    <2>6. k <= w
      BY <1>8, <2>4, <2>5
    <2> QED
      BY <1>4, <1>8, <2>3, <2>6, Multiples
  <1>11. Reader!Delivered(k) = Piece(base + o * Beat, k * Beat)
    <2>1. PICK b \in Nat : b = base + o * Beat
      BY <1>4, <1>9
    <2>0. PICK f : f = Bytes(mem)
      OBVIOUS
    <2>2. Cut(f, b, Beat, n, rStream)
      <3>1. ASSUME NEW j \in 1 .. n
            PROVE  base + (o + j - 1) * Beat = b + (j - 1) * Beat
        <4>1. j - 1 \in Nat /\ o + (j - 1) = o + j - 1
          BY <1>7
        <4>2. (o + j - 1) * Beat = o * Beat + (j - 1) * Beat /\ (j - 1) * Beat \in Nat
          BY <1>4, <4>1, Multiples
        <4>3. PICK x \in Nat, y \in Nat, z \in Nat :
                x = o * Beat /\ y = (j - 1) * Beat /\ z = (o + j - 1) * Beat
          BY <1>9, <4>2
        <4>4. base + z = (base + x) + y
          BY <1>4, <4>2, <4>3
        <4> QED
          BY <2>1, <4>3, <4>4
      <3>2. \A j \in 1 .. n : \A x \in 1 .. Beat : beat(j)[x] = f[b + (j - 1) * Beat + x - 1]
        BY <2>0, <3>1 DEF Piece
      <3>3. \A j \in 1 .. n : rStream[j] = beat(j)
        <4> HIDE DEF beat
        <4> QED
          BY <1>7
      <3> QED
        BY <3>2, <3>3 DEF Cut
    <2>3. Regained(f, b, Beat, k, rStream)
      BY <1>4, <1>8, <2>2, Gathered
    <2>4. ~ (Reader!Wanted < k * Beat)
      <3>1. Reader!Wanted \in Int /\ k * Beat \in Int
        <4>1. o * Beat \in Int /\ t * Beat \in Int /\ u * Beat \in Int /\ k * Beat \in Int
          BY <1>4, <1>8
        <4> QED
          BY <1>5, <1>6, <1>9, <4>1 DEF Reader!Wanted
      <3> QED
        BY <1>10, <3>1
    <2> QED
      BY <2>0, <2>1, <2>3, <2>4 DEF Reader!Delivered, Piece, Regained
  <1>12. out' = Piece(base, (o + k) * Beat)
    <2>1. k * Beat \in Nat /\ (o + k) * Beat = o * Beat + k * Beat
      BY <1>4, <1>8, Multiples
    <2>2. PICK x \in Nat, y \in Nat : x = o * Beat /\ y = k * Beat
      BY <1>9, <2>1
    <2>3. out' = Piece(base, x) \o Piece(base + x, y)
      BY <1>2, <1>3, <1>11, <2>2 DEF Delivered
    <2>4. Piece(base, x) \o Piece(base + x, y) = Piece(base, x + y)
      BY <1>4, PieceConcat
    <2> QED
      BY <2>1, <2>2, <2>3, <2>4
  <1>13. rStream' = [j \in 1 .. n - k |-> Piece(base + ((o + k) + j - 1) * Beat, Beat)]
    <2>1. rStream' = [j \in 1 .. n - k |-> rStream[j + k]]
      <3> HIDE DEF beat
      <3>1. rStream = [j \in 1 .. n |-> rStream[j]]
        BY <1>7
      <3> QED
        BY <1>2, <1>8, <3>1, FunRest
    <2>2. ASSUME NEW j \in 1 .. n - k
          PROVE  rStream[j + k] = Piece(base + ((o + k) + j - 1) * Beat, Beat)
      <3>1. PICK y \in 1 .. n : y = j + k
        BY <1>7, <1>8
      <3>2. rStream[y] = beat(y)
        <4> HIDE DEF beat
        <4> QED
          BY <1>7
      <3>3. o + y - 1 = (o + k) + j - 1
        BY <1>8, <3>1
      <3> QED
        BY <3>1, <3>2, <3>3
    <2> QED
      BY <2>1, <2>2
  <1>14. Delivered(o + k, q)'
    <2>1. q - (o + k) = n - k /\ o + k <= q
      BY <1>7, <1>8
    <2> QED
      BY <1>1, <1>7, <1>12, <1>13, <2>1 DEF Delivered, Piece
  <1> QED
    BY <1>1, <1>4, <1>8, <1>14 DEF ReaderInv

\* Nothing was sent yet; everything was.
LEMMA StartKeeps ==
    ASSUME ReaderInv, Reader!Start, mem' = mem
    PROVE  ReaderInv'
  <1>1. /\ rPc = "start" /\ rPc' = "collect"
        /\ UNCHANGED <<rAddress, rLength, rStream, rCall, out, rLate>>
    BY DEF Reader!Start
  <1>2. /\ ~rBusy /\ rStream = <<>> /\ out = <<>> /\ rCall \in Reads
        /\ rAddress = rCall.address /\ rLength = Reader!Transport(rCall)
    BY <1>1 DEF ReaderInv
  <1>3. rBusy' = TRUE /\ rSent' = 0 /\ complete' = FALSE
    BY <1>2 DEF Reader!Start
  <1>4. Beat \in Nat \ {0} /\ 0 * Beat = 0
    BY SizesAssumption
  <1>5. rSent' <= rLength
    <2>1. PICK t \in Nat : rLength = t * Beat
      BY <1>2, Units
    <2> QED
      BY <1>3, <1>4, <2>1, Multiples
  <1>6. Delivered(0, 0)'
    <2>1. 1 .. 0 = {}
      OBVIOUS
    <2> QED
      BY <1>1, <1>2, <1>3, <1>4, <2>1 DEF Delivered, Piece
  <1> QED
    BY <1>1, <1>2, <1>3, <1>5, <1>6 DEF ReaderInv
\* Once the read has its bytes, nothing is under way, and they are the range.
LEMMA AllDelivered ==
    ASSUME ReaderInv, rPc \in {"wait", "status"}
    PROVE  /\ rStream = <<>>
           /\ rCall.bytes \in Nat
           /\ \E n \in Nat : rCall.bytes <= n /\ out = Piece(rCall.address, n)
  <1>1. PICK o \in Nat, q \in Nat : Delivered(o, q)
    BY DEF ReaderInv
  <1>2. /\ rCall \in Reads /\ rLength = Reader!Transport(rCall) /\ rSent <= rLength
        /\ Len(out) >= Reader!Transport(rCall) /\ Beat \in Nat \ {0}
    BY SizesAssumption DEF ReaderInv
  <1>3. PICK t \in Nat : Reader!Transport(rCall) = t * Beat /\ rCall.bytes <= t * Beat
    BY <1>2, Units
  <1>4. o * Beat \in Nat /\ Len(out) = o * Beat
    <2>1. o * Beat \in Nat
      BY <1>2, Multiples
    <2>2. out = [i \in 1 .. o * Beat |-> out[i]]
      BY <1>1, Zenon DEF Delivered, Piece
    <2> QED
      BY <2>1, <2>2, FunSeq
  <1>5. t <= o /\ q <= t
    <2>1. t * Beat <= o * Beat
      BY <1>2, <1>3, <1>4
    <2>2. q * Beat <= t * Beat
      BY <1>1, <1>2, <1>3 DEF Delivered
    <2> QED
      BY <1>2, <2>1, <2>2, Multiples
  <1>6. rStream = <<>>
    <2>1. q - o = 0
      BY <1>1, <1>5 DEF Delivered
    <2> DEFINE beat(j) == Piece(rCall.address + (o + j - 1) * Beat, Beat)
    <2>2. rStream = [j \in 1 .. 0 |-> beat(j)]
      BY <1>1, <2>1 DEF Delivered
    <2> HIDE DEF beat
    <2>3. rStream = [j \in 1 .. 0 |-> rStream[j]]
      BY <2>2
    <2>4. Len(rStream) = 0 /\ rStream \in Seq({rStream[j] : j \in 1 .. 0})
      BY <2>3, FunSeq
    <2> QED
      BY <2>4, EmptySeq
  <1>7. rCall.bytes <= o * Beat
    <2>1. t * Beat <= o * Beat /\ t * Beat \in Nat
      BY <1>2, <1>5, Multiples
    <2> QED
      BY <1>2, <1>3, <1>4, <2>1, Units
  <1> QED
    BY <1>1, <1>2, <1>4, <1>6, <1>7, Units DEF Delivered

\* A step that leaves the memory, the core and the stream alone.
LEMMA QuietKeeps ==
    ASSUME ReaderInv, rPc' = rPc,
           UNCHANGED <<mem, rAddress, rLength, rBusy, rSent, complete, rStream, rCall, out>>
    PROVE  ReaderInv'
  <1>1. \A o, q \in Nat : Delivered(o, q) => Delivered(o, q)'
    BY DEF Delivered, Piece
  <1> QED
    BY <1>1 DEF ReaderInv

\* The same, but for where the driver is.
LEMMA ThrowKeepsRead ==
    ASSUME ReaderInv, rPc' = "failed", rCall' = rCall
    PROVE  ReaderInv'
  BY DEF ReaderInv

\* Every step of the reader or of its core.
LEMMA ReaderKeeps ==
    ASSUME ReaderInv, Reader!Next, mem' = mem
    PROVE  ReaderInv'
  <1> USE DEF Reader!core
  <1>1. CASE Reader!Push
    BY <1>1, PushKeeps
  <1>2. CASE Reader!Stop
    <2>1. /\ rBusy /\ rBusy' = FALSE /\ (complete' => rSent >= rLength)
          /\ UNCHANGED <<rAddress, rLength, rSent, rStream, rPc, rCall, out>>
      BY <1>2 DEF Reader!Stop
    <2>2. \A o, q \in Nat : Delivered(o, q) => Delivered(o, q)'
      BY <2>1 DEF Delivered, Piece
    <2> QED
      BY <2>1, <2>2 DEF ReaderInv
  <1>3. CASE rPc' = "failed" /\ rCall' = rCall
    BY <1>3, ThrowKeepsRead
  <1>4. ASSUME NEW c \in Reads, Reader!Call(c)
        PROVE  ReaderInv'
    <2>1. /\ rPc = "idle" /\ rPc' = "address" /\ rCall' = c /\ out' = <<>>
          /\ UNCHANGED <<rBusy, rStream>>
      BY <1>4 DEF Reader!Call
    <2> QED
      BY <2>1 DEF ReaderInv
  <1>5. CASE Reader!SetAddress
    <2>1. /\ rPc = "address" /\ rPc' = "length"
          /\ rAddress' = IF rBusy THEN rAddress ELSE rCall.address
          /\ UNCHANGED <<rBusy, rStream, rCall, out>>
      BY <1>5 DEF Reader!SetAddress
    <2> QED
      BY <2>1 DEF ReaderInv
  <1>6. CASE Reader!SetLength
    <2>1. /\ rPc = "length" /\ rPc' = "start"
          /\ rLength' = IF rBusy THEN rLength ELSE Reader!Transport(rCall)
          /\ UNCHANGED <<rAddress, rBusy, rStream, rCall, out>>
      BY <1>6 DEF Reader!SetLength
    <2> QED
      BY <2>1 DEF ReaderInv
  <1>7. CASE Reader!Start
    BY <1>7, StartKeeps
  <1>8. CASE Reader!Collect
    BY <1>8, CollectKeeps
  <1>9. CASE Reader!Collected
    <2>1. /\ rPc = "collect" /\ rPc' = "wait" /\ Len(out) >= Reader!Transport(rCall)
          /\ UNCHANGED <<rAddress, rLength, rBusy, rSent, complete, rStream, rCall, out>>
      BY <1>9 DEF Reader!Collected
    <2>2. \A o, q \in Nat : Delivered(o, q) => Delivered(o, q)'
      BY <2>1 DEF Delivered, Piece
    <2> QED
      BY <2>1, <2>2 DEF ReaderInv
  <1>10. CASE Reader!CollectThrows
    BY <1>3, <1>10 DEF Reader!CollectThrows, Reader!Throw
  <1>11. CASE Reader!WaitIdle
    <2>1. CASE Reader!Throw
      BY <1>3, <1>11, <2>1 DEF Reader!WaitIdle, Reader!Throw
    <2>2. CASE ~Reader!Throw
      <3>1. /\ rPc = "wait" /\ ~rBusy /\ rPc' = "status"
            /\ UNCHANGED <<rAddress, rLength, rBusy, rSent, complete, rStream, rCall, out>>
        BY <1>11, <2>2 DEF Reader!WaitIdle
      <3>2. \A o, q \in Nat : Delivered(o, q) => Delivered(o, q)'
        BY <3>1 DEF Delivered, Piece
      <3> QED
        BY <3>1, <3>2 DEF ReaderInv
    <2> QED
      BY <2>1, <2>2
  <1>12. CASE Reader!Status
    <2>1. CASE Reader!Throw
      BY <1>3, <1>12, <2>1 DEF Reader!Status, Reader!Throw
    <2>2. CASE ~Reader!Throw
      <3>1. rPc = "status" /\ rPc' = "idle" /\ UNCHANGED <<rBusy, rStream, rCall>>
        BY <1>12, <2>2 DEF Reader!Status
      <3>2. ~rBusy /\ rStream = <<>>
        BY <3>1, AllDelivered DEF ReaderInv
      <3> QED
        BY <3>1, <3>2 DEF ReaderInv
    <2> QED
      BY <2>1, <2>2
  <1>13. CASE Reader!Tick
    BY <1>13, QuietKeeps DEF Reader!Tick
  <1>14. CASE Reader!AccessThrows
    BY <1>3, <1>14 DEF Reader!AccessThrows, Reader!Throw
  <1>15. CASE Reader!Driver
    BY <1>5, <1>6, <1>7, <1>8, <1>9, <1>10, <1>11, <1>12, <1>15, Zenon DEF Reader!Driver
  <1> QED
    BY <1>1, <1>2, <1>4, <1>10, <1>13, <1>14, <1>15, Zenon DEF Reader!Next

-----------------------------------------------------------------------------
(* Both, and the calls that they serve in turn. *)

\* The writer's core writes to the memory only for a write under way.
LEMMA IdleWriterWritesNot ==
    ASSUME WriterInv, Writer!Next, wPc = "idle"
    PROVE  mem' = mem /\ image = mem
  <1>1. ~wBusy /\ mem = image
    BY DEF WriterInv
  <1> QED
    BY <1>1 DEF Writer!Next, Writer!Driver, Writer!Call, Writer!AccessThrows, Writer!SetAddress,
                Writer!SetLength, Writer!Start, Writer!SendBeat, Writer!WriteReturns,
                Writer!WaitIdle, Writer!Status, Writer!Tick, Writer!Take, Writer!Stop, Writer!core

\* Initially, and in every step.
LEMMA MemoryStarts ==
    ASSUME MemoryInit
    PROVE  MemoryInv
  <1>1. /\ wPc = "idle" /\ rPc = "idle" /\ wCall \in Writes /\ rCall \in Reads
        /\ ~wBusy /\ ~rBusy /\ wStream = <<>> /\ rStream = <<>>
        /\ image = mem /\ mem = [a \in 0 .. MemSize - 1 |-> Blank]
    BY DEF MemoryInit, Writer!Init, Reader!Init
  <1>2. ImageInv
    BY <1>1 DEF ImageInv
  <1> QED
    BY <1>1, <1>2 DEF MemoryInv, WriterInv, ReaderInv, TurnInv
\* One disjunct of MemoryNext each.
LEMMA MemoryStep ==
    ASSUME MemoryInv, [MemoryNext]_mvars
    PROVE  MemoryInv'
  <1>1. ImageInv /\ WriterInv /\ ReaderInv /\ TurnInv
    BY DEF MemoryInv
  <1>2. CASE Write(Writer!Next) /\ (wPc = "idle" /\ wPc' # "idle" => rPc = "idle")
    <2>1. Writer!Next /\ Told /\ UNCHANGED reading
      BY <1>2 DEF Write
    <2>2. ImageInv' /\ WriterInv'
      BY <1>1, <2>1, WriterKeeps
    <2>3. TurnInv'
      BY <1>1, <1>2, <2>1 DEF TurnInv, reading
    <2>4. ReaderInv'
      <3>1. CASE wPc = "idle"
        BY <1>1, <2>1, <3>1, IdleWriterWritesNot, QuietKeeps DEF reading
      <3>2. CASE wPc # "idle"
        BY <1>1, <2>1, <3>2 DEF TurnInv, ReaderInv, reading
      <3> QED
        BY <3>1, <3>2
    <2> QED
      BY <2>2, <2>3, <2>4 DEF MemoryInv
  <1>3. CASE Read(Reader!Next) /\ (rPc = "idle" /\ rPc' # "idle" => wPc = "idle")
    <2>1. Reader!Next /\ UNCHANGED <<mem, writing, image>>
      BY <1>3 DEF Read
    <2>2. ReaderInv'
      BY <1>1, <2>1, ReaderKeeps
    <2>3. ImageInv' /\ WriterInv'
      BY <1>1, <2>1 DEF ImageInv, WriterInv, Over, writing
    <2>4. TurnInv'
      BY <1>1, <1>3, <2>1 DEF TurnInv, writing
    <2> QED
      BY <2>2, <2>3, <2>4 DEF MemoryInv
  <1>4. CASE UNCHANGED mvars
    <2>1. ReaderInv'
      BY <1>1, <1>4, QuietKeeps DEF mvars, reading
    <2>2. ImageInv' /\ WriterInv' /\ TurnInv'
      BY <1>1, <1>4 DEF mvars, reading, writing, ImageInv, WriterInv, TurnInv, Over
    <2> QED
      BY <2>1, <2>2 DEF MemoryInv
  <1> QED
    BY <1>2, <1>3, <1>4 DEF MemoryNext

\* For any calls of any client, and cores and streams of any size: the beats
\* of a write are in the memory or under way in their order, the bytes of a
\* read are collected or under way in theirs.
THEOREM MemoryInvariant == MemorySpec => []MemoryInv
  <1>1. MemoryInit => MemoryInv
    BY MemoryStarts
  <1>2. MemoryInv /\ [MemoryNext]_mvars => MemoryInv'
    BY MemoryStep
  <1> QED
    BY <1>1, <1>2, PTL DEF MemorySpec

\* A client that has seen no exception starts every call of Axis2Mm::write and
\* AxiMm2s::read on idle cores and empty streams.
THEOREM NothingIsLeft == MemorySpec => []CleanBetweenCalls
  <1>1. MemoryInv => CleanBetweenCalls
    BY DEF MemoryInv, WriterInv, ReaderInv, CleanBetweenCalls
  <1> QED
    BY <1>1, MemoryInvariant, PTL

\* A read that returns has the bytes that the writes before it reported.
THEOREM ReadsSeeWrites == MemorySpec => RoundTrip
  <1> DEFINE Fresh == rPc = "status" /\ rPc' = "idle" =>
                        SubSeq(out, 1, rCall.bytes)
                          = [i \in 1 .. rCall.bytes |-> Bytes(image)[rCall.address + i - 1]]
  <1>1. MemoryInv => Fresh
    <2> SUFFICES ASSUME MemoryInv, rPc = "status"
                 PROVE  SubSeq(out, 1, rCall.bytes)
                          = [i \in 1 .. rCall.bytes |-> Bytes(image)[rCall.address + i - 1]]
      OBVIOUS
    <2>1. mem = image
      BY DEF MemoryInv, TurnInv, WriterInv
    <2>2. PICK n \in Nat : rCall.bytes <= n /\ out = Piece(rCall.address, n)
      BY AllDelivered DEF MemoryInv
    <2>3. rCall.bytes \in 0 .. n
      BY <2>2, AllDelivered DEF MemoryInv
    <2>4. out = [i \in 1 .. n |-> out[i]]
      BY <2>2, Zenon DEF Piece
    <2>5. SubSeq(out, 1, rCall.bytes) = [i \in 1 .. rCall.bytes |-> out[i]]
      BY <2>3, <2>4, FunRest
    <2>6. \A i \in 1 .. rCall.bytes : out[i] = Bytes(image)[rCall.address + i - 1]
      BY <2>1, <2>2, <2>3 DEF Piece
    <2> QED
      BY <2>5, <2>6
  <1>2. MemoryInv => [Fresh]_mvars
    BY <1>1
  <1> QED
    BY <1>2, MemoryInvariant, PTL DEF RoundTrip
=============================================================================
