---------------------------- MODULE FpgactlProofs ----------------------------
(***************************************************************************)
(* Theorems about fpgactl: the commands that take a card off the bus and   *)
(* bring it back (Recovery), for any number of cards, any commands and any *)
(* number of faults; the programs they run (RunProcess), for pipes of any  *)
(* size and any output; the capability walk and MRRS (PciCapability), for  *)
(* configuration spaces of any size and any links; and the readers of .bit *)
(* files (BitImage), for any images, cut anywhere, extended or altered.    *)
(***************************************************************************)
EXTENDS Recovery, RunProcess, PciCapability, BitImage, Quotients,
        SequenceTheorems, FiniteSetTheorems, TLAPS

-----------------------------------------------------------------------------
(* ------------------------------- Recovery ------------------------------ *)

\* Everything that a command can have left to do.
Steps ==
    {"update", "find", "remember", "unload", "remove", "removeIfThere", "rescan", "discover",
     "load", "visible", "bind", "nodes", "sram", "detect", "program", "device", "iprog", "mrrs"}

\* The cards and the kernel, and the process, each within its range.
KernelTypeOK ==
    /\ alive \subseteq Cards /\ seen \subseteq Cards
    /\ stale \subseteq seen /\ bound \subseteq seen
    /\ loaded \in BOOLEAN
    /\ node \in bound \cup {None}
ProcessTypeOK ==
    /\ hint \in Cards \cup {None} /\ target \in Cards \cup {None}
    /\ cmd \in Commands /\ sel \in Selections \cup {None}
    /\ todo \in Seq(Steps)
    /\ result \in {"running", "done", "failed"}
TypeOK == KernelTypeOK /\ ProcessTypeOK

\* The driver is bound only while it is loaded; an endpoint whose card has
\* gone was enumerated before that.
KernelInv ==
    /\ bound # {} => loaded
    /\ seen \ alive \subseteq stale

\* The steps that may follow a step in a command.
After(c, step) ==
    CASE step = "update"        -> {"find"}
      [] step = "remember"      -> CASE c \in {"program", "boot"} -> {"iprog"}
                                     [] c = "mrrs"                -> {"mrrs"}
                                     [] OTHER                     -> {"unload"}
      [] step = "unload"        -> {"load", "remove", "removeIfThere", "discover"}
      [] step = "remove"        -> {"sram", "detect", "rescan"}
      [] step = "removeIfThere" -> {"rescan"}
      [] step \in {"rescan", "discover"} -> {"load"}
      [] step = "load"          -> {"visible", "bind"}
      [] step = "visible"       -> {"bind"}
      [] step = "bind"          -> {"nodes"}
      [] step = "nodes"         -> IF c \in {"program", "boot"} THEN {"device"} ELSE {"remember"}
      [] step = "detect"        -> {"program"}
      [] step \in {"sram", "program", "iprog"} -> {"unload"}
      [] step = "device"        -> {"remember"}
      [] OTHER                  -> {}
Ordered(c, steps) == \A i \in 1 .. Len(steps) - 1 : steps[i + 1] \in After(c, steps[i])
TodoInv ==
    /\ Ordered(cmd, todo)
    /\ result = "running" => todo # <<>>

\* No endpoint is bound that its card has changed since it was enumerated, and
\* every other one that answers is bound.
Fresh == cmd # "probe" => bound \cap stale = {}
Served == (seen \cap alive) \ stale \subseteq bound

\* What the steps before it have achieved for a step that is due.
Needs(step) ==
    /\ step \in {"remove", "removeIfThere"} => bound = {}
    /\ step \in {"rescan", "discover", "load"} => Fresh
    /\ step \in {"visible", "bind"} => Fresh /\ Served
    /\ step = "nodes" => Fresh /\ Served /\ target \in bound
    /\ step \in {"sram", "detect", "program"} =>
           target \notin seen /\ (sel \in {None, Cabled} => Cabled \notin bound)
    /\ step = "remember" /\ cmd \in {"program", "boot"} => node # None
    /\ step = "iprog" => node # None
DueInv == result = "running" => Needs(Head(todo))

RecoveryInv == TypeOK /\ KernelInv /\ TodoInv /\ DueInv

-----------------------------------------------------------------------------
(* The list of steps. *)

\* The due step is the first of the list, and a process has one.
LEMMA DueStep ==
    ASSUME TypeOK, TodoInv, result = "running"
    PROVE  /\ Len(todo) \in Nat \ {0}
           /\ Head(todo) = todo[1] /\ Head(todo) \in Steps
  BY DEF TypeOK, ProcessTypeOK, TodoInv

\* A command goes on with a step that may follow, or is done.
LEMMA Onwards ==
    ASSUME TypeOK, TodoInv, result = "running", Continue(Tail(todo)), cmd' = cmd
    PROVE  /\ todo' \in Seq(Steps) /\ result' \in {"running", "done"}
           /\ TodoInv'
           /\ result' = "running" => Head(todo') \in After(cmd, Head(todo))
  <1> DEFINE t == Tail(todo)
             n == Len(todo)
  <1>1. todo \in Seq(Steps) /\ n \in Nat \ {0} /\ Head(todo) = todo[1]
    BY DueStep DEF TypeOK, ProcessTypeOK
  <1>2. /\ t \in Seq(Steps) /\ Len(t) = n - 1
        /\ \A i \in 1 .. n - 1 : t[i] = todo[i + 1]
    BY <1>1
  <1>3. todo' = t /\ result' = IF t = <<>> THEN "done" ELSE "running"
    BY DEF Continue
  <1>4. \A i \in 1 .. n - 1 : todo[i + 1] \in After(cmd, todo[i])
    BY DEF TodoInv, Ordered
  <1> HIDE DEF t, n
  <1>5. \A i \in 1 .. Len(t) - 1 : t[i + 1] \in After(cmd, t[i])
    BY <1>1, <1>2, <1>4
  <1>6. TodoInv'
    BY <1>3, <1>5 DEF TodoInv, Ordered
  <1>7. ASSUME t # <<>>
        PROVE  Head(t) \in After(cmd, Head(todo))
    <2>1. Len(t) >= 1 /\ Head(t) = t[1] /\ Len(t) \in Nat
      BY <1>2, <1>7
    <2>2. 1 \in 1 .. n - 1 /\ t[1] = todo[1 + 1]
      BY <1>1, <1>2, <2>1
    <2> QED
      BY <1>1, <1>4, <2>1, <2>2
  <1> QED
    BY <1>2, <1>3, <1>6, <1>7

\* The same for a list that is joined of two.
LEMMA Joined ==
    ASSUME NEW c, NEW s \in Seq(Steps), NEW t \in Seq(Steps),
           Ordered(c, s), Ordered(c, t),
           s = <<>> \/ t = <<>> \/ t[1] \in After(c, s[Len(s)])
    PROVE  s \o t \in Seq(Steps) /\ Ordered(c, s \o t)
  <1> DEFINE u == s \o t
             m == Len(s)
             n == Len(t)
  <1>1. /\ u \in Seq(Steps) /\ m \in Nat /\ n \in Nat /\ Len(u) = m + n
        /\ \A i \in 1 .. m + n : u[i] = IF i <= m THEN s[i] ELSE t[i - m]
    OBVIOUS
  <1>2. ASSUME NEW i \in 1 .. m + n - 1
        PROVE  u[i + 1] \in After(c, u[i])
    <2> HIDE DEF u
    <2>1. CASE i < m
      <3>1. i \in 1 .. m - 1 /\ u[i] = s[i] /\ u[i + 1] = s[i + 1]
        BY <1>1, <2>1
      <3> QED
        BY <3>1 DEF Ordered
    <2>2. CASE i > m
      <3>1. i - m \in 1 .. n - 1 /\ u[i] = t[i - m] /\ u[i + 1] = t[(i - m) + 1]
        BY <1>1, <2>2
      <3> QED
        BY <3>1 DEF Ordered
    <2>3. CASE i = m
      <3>1. m # 0 /\ n # 0
        BY <1>1, <2>3
      <3>2. s # <<>> /\ t # <<>>
        BY <3>1
      <3> HIDE DEF m, n
      <3>3. u[i] = s[m]
        BY <1>1, <2>3
      <3>4. u[i + 1] = t[(m + 1) - m]
        BY <1>1, <2>3, <3>1
      <3>5. t[1] \in After(c, s[m])
        BY <3>2 DEF m
      <3> QED
        BY <1>1, <3>3, <3>4, <3>5
    <2> QED
      BY <1>1, <2>1, <2>2, <2>3
  <1> QED
    BY <1>1, <1>2 DEF Ordered

\* The first step of a joined list.
LEMMA JoinedHead ==
    ASSUME NEW s \in Seq(Steps), NEW t \in Seq(Steps), t # <<>>
    PROVE  /\ s \o t # <<>>
           /\ s = <<>> => Head(s \o t) = t[1]
           /\ s # <<>> => Head(s \o t) = s[1]
  <1>1. /\ s \o t \in Seq(Steps) /\ Len(s) \in Nat /\ Len(t) \in Nat \ {0}
        /\ Len(s \o t) = Len(s) + Len(t)
        /\ s # <<>> => Len(s) # 0
    OBVIOUS
  <1>2. Head(s \o t) = (s \o t)[1]
    BY <1>1
  <1>3. (s \o t)[1] = IF 1 <= Len(s) THEN s[1] ELSE t[1 - Len(s)]
    BY <1>1
  <1>4. s = <<>> => Len(s) = 0
    OBVIOUS
  <1>5. Len(s) = 0 => (s \o t)[1] = t[1]
    BY <1>3
  <1> QED
    BY <1>1, <1>2, <1>3, <1>4, <1>5

\* Its last step.
LEMMA JoinedLast ==
    ASSUME NEW s \in Seq(Steps), NEW t \in Seq(Steps), t # <<>>
    PROVE  (s \o t)[Len(s \o t)] = t[Len(t)]
  <1>1. /\ Len(s) \in Nat /\ Len(t) \in Nat \ {0}
        /\ Len(s \o t) = Len(s) + Len(t)
    OBVIOUS
  <1>2. (s \o t)[Len(s) + Len(t)] = t[Len(t)]
    BY <1>1
  <1> QED
    BY <1>1, <1>2

\* A list that is written out is ordered if each of its pairs is.
LEMMA PairOrdered ==
    ASSUME NEW c, NEW a \in Steps, NEW b \in Steps, b \in After(c, a)
    PROVE  <<a, b>> \in Seq(Steps) /\ Ordered(c, <<a, b>>)
  BY DEF Ordered
\* The same for three.
LEMMA TripleOrdered ==
    ASSUME NEW c, NEW a \in Steps, NEW b \in Steps, NEW d \in Steps,
           b \in After(c, a), d \in After(c, b)
    PROVE  <<a, b, d>> \in Seq(Steps) /\ Ordered(c, <<a, b, d>>)
  <1>1. \A i \in 1 .. 2 : <<a, b, d>>[i + 1] \in After(c, <<a, b, d>>[i])
    OBVIOUS
  <1> QED
    BY <1>1 DEF Ordered

\* The parts that the plans are made of.
LEMMA Parts ==
    ASSUME NEW c
    PROVE  /\ Finish \in Seq(Steps) /\ Ordered(c, Finish)
           /\ Discover \in Seq(Steps) /\ Ordered(c, Discover) /\ Discover # <<>>
           /\ Len(Discover) = 5 /\ Discover[1] = "unload" /\ Discover[5] = "nodes"
           /\ c \notin {"program", "boot", "mrrs"} =>
                 ForReconfiguration \in Seq(Steps) /\ Ordered(c, ForReconfiguration)
           /\ \A r \in {"remove", "removeIfThere"} :
                 /\ Known(r) \in Seq(Steps) /\ Ordered(c, Known(r)) /\ Known(r) # <<>>
                 /\ Known(r)[1] = "unload"
  <1>1. /\ Finish = <<"load", "bind", "nodes">>
        /\ Finish \in Seq(Steps) /\ Ordered(c, Finish)
    BY TripleOrdered DEF Finish, After, Steps
  <1>2. c \notin {"program", "boot", "mrrs"} =>
                 ForReconfiguration \in Seq(Steps) /\ Ordered(c, ForReconfiguration)
    BY TripleOrdered DEF ForReconfiguration, After, Steps
  <1>3. Discover \in Seq(Steps) /\ Ordered(c, Discover)
    <2>1. <<"unload", "discover">> \in Seq(Steps) /\ Ordered(c, <<"unload", "discover">>)
      BY PairOrdered DEF After, Steps
    <2>2. Finish[1] \in After(c, <<"unload", "discover">>[Len(<<"unload", "discover">>)])
      BY <1>1 DEF After
    <2> QED
      BY <1>1, <2>1, <2>2, Joined, Zenon DEF Discover
  <1>4. Len(Discover) = 5 /\ Discover[1] = "unload" /\ Discover[5] = "nodes" /\ Discover # <<>>
    BY <1>1, <1>3 DEF Discover
  <1>5. ASSUME NEW r \in {"remove", "removeIfThere"}
        PROVE  /\ Known(r) \in Seq(Steps) /\ Ordered(c, Known(r)) /\ Known(r) # <<>>
               /\ Known(r)[1] = "unload"
    <2>1. <<"unload", r, "rescan">> \in Seq(Steps) /\ Ordered(c, <<"unload", r, "rescan">>)
      <3>1. "unload" \in Steps /\ r \in Steps /\ "rescan" \in Steps
        BY DEF Steps
      <3>2. r \in After(c, "unload")
        BY DEF After
      <3>3. "rescan" \in After(c, r)
        BY DEF After
      <3> QED
        BY <3>1, <3>2, <3>3, TripleOrdered
    <2>2. Finish[1] \in After(c, <<"unload", r, "rescan">>[Len(<<"unload", r, "rescan">>)])
      BY <1>1 DEF After
    <2>3. Known(r) \in Seq(Steps) /\ Ordered(c, Known(r))
      BY <1>1, <2>1, <2>2, Joined, Zenon DEF Known
    <2>4. Known(r)[1] = "unload" /\ Len(Known(r)) = 6
      BY <1>1, <2>1 DEF Known
    <2> QED
      BY <2>3, <2>4
  <1> QED
    BY <1>1, <1>2, <1>3, <1>4, <1>5

\* Every plan is a list of steps in an order that can be, and of what its
\* first step needs.
LEMMA Plans ==
    ASSUME NEW c \in AllCommands, NEW t
    PROVE  /\ Plan(c, t) \in Seq(Steps) /\ Ordered(c, Plan(c, t)) /\ Plan(c, t) # <<>>
           /\ Head(Plan(c, t)) \in {"remember", "unload", "rescan", "sram", "detect", "device"}
           /\ Head(Plan(c, t)) = "rescan" => c = "probe"
           /\ Head(Plan(c, t)) = "remember" => c \notin {"program", "boot"}
           /\ Head(Plan(c, t)) \in {"sram", "detect"} => t \notin seen
  <1> DEFINE Good(p) ==
           /\ p \in Seq(Steps) /\ Ordered(c, p) /\ p # <<>>
           /\ Head(p) \in {"remember", "unload", "rescan", "sram", "detect", "device"}
           /\ Head(p) = "rescan" => c = "probe"
           /\ Head(p) = "remember" => c \notin {"program", "boot"}
           /\ Head(p) \in {"sram", "detect"} => t \notin seen
  <1>0. <<>> \in Seq(Steps) /\ Ordered(c, <<>>)
    BY DEF Ordered
  <1>1. Good(Discover)
    <2>1. Head(Discover) = Discover[1]
      BY Parts
    <2> QED
      BY <2>1, Parts
  <1>2. \A r \in {"remove", "removeIfThere"} : Good(Known(r))
    <2>1. \A r \in {"remove", "removeIfThere"} : Head(Known(r)) = Known(r)[1]
      BY Parts
    <2> QED
      BY <2>1, Parts
  <1>3. c \notin {"program", "boot", "mrrs"} => Good(ForReconfiguration)
    <2>1. ForReconfiguration # <<>> /\ Head(ForReconfiguration) = "remember"
      BY DEF ForReconfiguration
    <2> QED
      BY <2>1, Parts
  <1>4. CASE c = "only"
    <2> DEFINE p == <<"unload", "load", "visible", "bind", "nodes">>
    <2>1. p \in Seq(Steps) /\ p # <<>> /\ Head(p) = "unload" /\ Len(p) = 5
      BY DEF Steps
    <2>2. \A i \in 1 .. 4 : p[i + 1] \in After(c, p[i])
      BY DEF After
    <2> HIDE DEF p
    <2>3. Ordered(c, p)
      BY <2>1, <2>2 DEF Ordered
    <2> QED
      BY <1>4, <2>1, <2>3 DEF Plan, p
  <1>5. CASE c = "remove"
    BY <1>3, <1>5 DEF Plan
  <1>6. CASE c = "mrrs"
    <2>1. <<"remember", "mrrs">> \in Seq(Steps) /\ Ordered(c, <<"remember", "mrrs">>)
      BY <1>6, PairOrdered DEF After, Steps
    <2> QED
      BY <1>6, <2>1 DEF Plan
  <1>7. CASE c = "post"
    BY <1>1, <1>2, <1>7 DEF Plan
  <1>8. CASE c = "reload"
    BY <1>1, <1>2, <1>8 DEF Plan
  <1>9. CASE c = "probe"
    <2>1. <<"rescan">> \in Seq(Steps) /\ Ordered(c, <<"rescan">>)
      BY DEF Steps, Ordered
    <2>2. Finish[1] \in After(c, <<"rescan">>[Len(<<"rescan">>)])
      BY DEF After, Finish
    <2>3. <<"rescan">> \o Finish \in Seq(Steps) /\ Ordered(c, <<"rescan">> \o Finish)
      BY <2>1, <2>2, Parts, Joined
    <2>4. <<"rescan">> \o Finish # <<>> /\ Head(<<"rescan">> \o Finish) = "rescan"
      <3>1. Finish # <<>>
        BY DEF Finish
      <3> QED
        BY <2>1, <3>1, Parts, JoinedHead
    <2> QED
      BY <1>1, <1>9, <2>3, <2>4 DEF Plan
  <1>10. CASE c \in {"direct", "flash"}
    <2> DEFINE first == IF t \in seen THEN ForReconfiguration ELSE <<>>
               reprogram == IF c = "direct" THEN <<"sram">> ELSE <<"detect", "program">>
               a == first \o reprogram
               b == a \o Discover
    <2>1. /\ first \in Seq(Steps) /\ Ordered(c, first)
          /\ first = <<>> \/ first[Len(first)] = "remove"
          /\ first # <<>> => Head(first) = "remember" /\ first[1] = "remember"
          /\ t \notin seen => first = <<>>
          /\ t \in seen => first # <<>>
      <3>1. /\ ForReconfiguration \in Seq(Steps) /\ Ordered(c, ForReconfiguration)
            /\ Len(ForReconfiguration) = 3 /\ ForReconfiguration[3] = "remove"
            /\ ForReconfiguration # <<>>
            /\ Head(ForReconfiguration) = "remember" /\ ForReconfiguration[1] = "remember"
        <4>1. ForReconfiguration \in Seq(Steps) /\ Ordered(c, ForReconfiguration)
          BY <1>10, Parts
        <4> QED
          BY <4>1 DEF ForReconfiguration
      <3>2. CASE t \in seen
        BY <3>1, <3>2
      <3>3. CASE t \notin seen
        BY <1>0, <3>3
      <3> QED
        BY <3>2, <3>3
    <2>2. /\ reprogram \in Seq(Steps) /\ Ordered(c, reprogram) /\ reprogram # <<>>
          /\ reprogram[1] \in {"sram", "detect"}
          /\ reprogram[Len(reprogram)] \in {"sram", "program"}
      <3>1. <<"sram">> \in Seq(Steps) /\ Ordered(c, <<"sram">>)
        BY DEF Steps, Ordered
      <3>2. <<"detect", "program">> \in Seq(Steps) /\ Ordered(c, <<"detect", "program">>)
        BY PairOrdered DEF After, Steps
      <3> QED
        BY <3>1, <3>2
    <2> HIDE DEF first, reprogram
    <2>3. a \in Seq(Steps) /\ Ordered(c, a)
      <3>1. reprogram[1] \in After(c, "remove")
        BY <2>2 DEF After
      <3> QED
        BY <2>1, <2>2, <3>1, Joined
    <2>4. /\ a # <<>>
          /\ a[Len(a)] = reprogram[Len(reprogram)]
          /\ Head(a) = IF t \in seen THEN "remember" ELSE reprogram[1]
      <3>1. a # <<>> /\ Head(a) = IF t \in seen THEN "remember" ELSE reprogram[1]
        BY <2>1, <2>2, JoinedHead
      <3>2. a[Len(a)] = reprogram[Len(reprogram)]
        BY <2>1, <2>2, JoinedLast
      <3> QED
        BY <3>1, <3>2
    <2> HIDE DEF a
    <2>5. b \in Seq(Steps) /\ Ordered(c, b)
      <3>1. Discover[1] \in After(c, a[Len(a)])
        BY <2>2, <2>4, Parts DEF After
      <3> QED
        BY <2>3, <3>1, Parts, Joined
    <2>6. /\ b # <<>>
          /\ b[Len(b)] = "nodes"
          /\ Head(b) = Head(a)
      <3>1. a[1] = Head(a)
        BY <2>3, <2>4
      <3>2. b # <<>> /\ Head(b) = Head(a)
        BY <2>3, <2>4, <3>1, Parts, JoinedHead
      <3>3. b[Len(b)] = Discover[Len(Discover)]
        BY <2>3, Parts, JoinedLast
      <3> QED
        BY <3>2, <3>3, Parts
    <2> HIDE DEF b
    <2>7. b \o <<"remember">> \in Seq(Steps) /\ Ordered(c, b \o <<"remember">>)
      <3>1. <<"remember">> \in Seq(Steps) /\ Ordered(c, <<"remember">>)
        BY DEF Steps, Ordered
      <3>2. <<"remember">>[1] \in After(c, b[Len(b)])
        BY <1>10, <2>6 DEF After
      <3> QED
        BY <2>5, <3>1, <3>2, Joined
    <2>8. b \o <<"remember">> # <<>> /\ Head(b \o <<"remember">>) = Head(a)
      <3>1. <<"remember">> \in Seq(Steps) /\ <<"remember">> # <<>>
        BY DEF Steps
      <3>2. b[1] = Head(b)
        BY <2>5, <2>6
      <3> QED
        BY <2>5, <2>6, <3>1, <3>2, JoinedHead
    <2>9. Plan(c, t) = b \o <<"remember">>
      BY <1>10 DEF Plan, a, b, first, reprogram
    <2> QED
      BY <1>10, <2>2, <2>4, <2>7, <2>8, <2>9
  <1>11. CASE c \in {"program", "boot"}
    <2> DEFINE first == IF t = None \/ node = None THEN Discover ELSE <<>>
               through == <<"device", "remember", "iprog">>
               a == first \o through
    <2>1. /\ first \in Seq(Steps) /\ Ordered(c, first)
          /\ first = <<>> \/ first[Len(first)] = "nodes"
          /\ first # <<>> => first[1] = "unload"
      BY <1>0, Parts
    <2>2. through \in Seq(Steps) /\ Ordered(c, through) /\ through # <<>>
      BY <1>11, TripleOrdered DEF After, Steps
    <2> HIDE DEF first
    <2>3. a \in Seq(Steps) /\ Ordered(c, a)
      <3>1. through[1] \in After(c, "nodes")
        BY <1>11 DEF After
      <3> QED
        BY <2>1, <2>2, <3>1, Joined
    <2>4. /\ a # <<>>
          /\ a[Len(a)] = "iprog"
          /\ Head(a) \in {"unload", "device"}
      <3>1. a # <<>> /\ Head(a) \in {"unload", "device"}
        BY <2>1, <2>2, JoinedHead
      <3>2. a[Len(a)] = through[Len(through)]
        BY <2>1, <2>2, JoinedLast
      <3> QED
        BY <3>1, <3>2
    <2> HIDE DEF a
    <2> DEFINE k == Known("removeIfThere")
    <2>5. k \in Seq(Steps) /\ Ordered(c, k) /\ k # <<>> /\ k[1] = "unload"
      BY Parts
    <2> HIDE DEF k
    <2>6. a \o k \in Seq(Steps) /\ Ordered(c, a \o k)
      <3>1. k[1] \in After(c, a[Len(a)])
        BY <2>4, <2>5 DEF After
      <3> QED
        BY <2>3, <2>5, <3>1, Joined
    <2>7. a \o k # <<>> /\ Head(a \o k) = Head(a)
      <3>1. a[1] = Head(a)
        BY <2>3, <2>4
      <3> QED
        BY <2>3, <2>4, <2>5, <3>1, JoinedHead
    <2>8. Plan(c, t) = a \o k
      BY <1>11 DEF Plan, a, k, first
    <2> QED
      BY <2>4, <2>6, <2>7, <2>8
  <1> QED
    BY <1>4, <1>5, <1>6, <1>7, <1>8, <1>9, <1>10, <1>11 DEF AllCommands

-----------------------------------------------------------------------------
(* The kernel. *)

KernelGood == KernelTypeOK /\ KernelInv

\* A rescan finds what answers and takes no endpoint away.
LEMMA RescanKeeps ==
    ASSUME KernelGood, Rescan, alive' = alive
    PROVE  /\ KernelGood'
           /\ stale' = stale /\ seen' = seen \cup alive
           /\ bound \cap stale = {} => bound' \cap stale' = {}
  <1>1. /\ seen' = seen \cup alive /\ stale' = stale /\ loaded' \in BOOLEAN
        /\ bound' = IF loaded' THEN bound \cup ((seen' \cap alive) \ stale) ELSE {}
        /\ node' \in IF bound' = {} THEN {None} ELSE IF node \in bound' THEN {node} ELSE bound'
    BY DEF KernelGood, KernelTypeOK, Rescan, Probe
  <1>2. bound' \subseteq seen' /\ (bound' # {} => loaded')
    BY <1>1 DEF KernelGood, KernelTypeOK
  <1>3. node' \in bound' \cup {None}
    BY <1>1
  <1>4. alive' \subseteq Cards /\ seen' \subseteq Cards /\ stale' \subseteq seen'
    BY <1>1 DEF KernelGood, KernelTypeOK
  <1>5. seen' \ alive' \subseteq stale'
    BY <1>1 DEF KernelGood, KernelInv
  <1>6. bound \cap stale = {} => bound' \cap stale' = {}
    BY <1>1
  <1> QED
    BY <1>1, <1>2, <1>3, <1>4, <1>5, <1>6, Zenon DEF KernelGood, KernelTypeOK, KernelInv

\* The module, once it is loaded, drives every endpoint that answers as it
\* was enumerated.
LEMMA LoadKeeps ==
    ASSUME KernelGood, LoadModule, alive' = alive
    PROVE  /\ KernelGood' /\ Served'
           /\ bound \cap stale = {} => bound' \cap stale' = {}
  <1>1. /\ seen' = seen /\ stale' = stale /\ loaded' = TRUE
        /\ bound' = bound \cup ((seen \cap alive) \ stale)
        /\ node' \in IF bound' = {} THEN {None} ELSE IF node \in bound' THEN {node} ELSE bound'
    BY DEF LoadModule, Probe
  <1>2. bound' \subseteq seen' /\ loaded' \in BOOLEAN
    BY <1>1 DEF KernelGood, KernelTypeOK
  <1>3. node' \in bound' \cup {None}
    BY <1>1
  <1>4. alive' \subseteq Cards /\ seen' \subseteq Cards /\ stale' \subseteq seen'
    BY <1>1 DEF KernelGood, KernelTypeOK
  <1>5. seen' \ alive' \subseteq stale'
    BY <1>1 DEF KernelGood, KernelInv
  <1>6. bound \cap stale = {} => bound' \cap stale' = {}
    BY <1>1
  <1>7. Served'
    BY <1>1 DEF Served
  <1> QED
    BY <1>1, <1>2, <1>3, <1>4, <1>5, <1>6, <1>7, Zenon DEF KernelGood, KernelTypeOK, KernelInv

\* Without the module nothing is driven.
LEMMA UnloadKeeps ==
    ASSUME KernelGood, Unload, alive' = alive
    PROVE  KernelGood' /\ bound' = {}
  BY DEF KernelGood, KernelTypeOK, KernelInv, Unload

\* An endpoint that is removed leaves the others as they are.
LEMMA RemoveKeeps ==
    ASSUME KernelGood, NEW e, RemoveEndpoint(e), alive' = alive
    PROVE  KernelGood' /\ bound' \subseteq bound
  BY DEF KernelGood, KernelTypeOK, KernelInv, RemoveEndpoint

\* The kernel learns nothing of a card's reconfiguration; its endpoint is
\* stale from then on.
LEMMA ReconfiguredKeeps ==
    ASSUME KernelGood, NEW c \in Cards, Reconfigured(c)
    PROVE  KernelGood' /\ bound' = bound
  BY DEF KernelGood, KernelTypeOK, KernelInv, Reconfigured

\* Nothing happens to the cards and the kernel.
LEMMA KernelStutters ==
    ASSUME KernelGood, UNCHANGED <<alive, kernel>>
    PROVE  KernelGood' /\ (Fresh /\ cmd' = cmd => Fresh') /\ (Served => Served')
  BY DEF KernelGood, KernelTypeOK, KernelInv, kernel, Fresh, Served

-----------------------------------------------------------------------------
(* The steps.  Each keeps the invariant. *)

\* What is left to show of a step that goes on with the next one.
LEMMA ContinueKeeps ==
    ASSUME RecoveryInv, result = "running", KernelGood', Continue(Tail(todo)),
           UNCHANGED <<cmd, sel>>,
           hint' \in Cards \cup {None}, target' \in Cards \cup {None},
           \A step \in After(cmd, Head(todo)) : Needs(step)'
    PROVE  RecoveryInv'
  <1>1. /\ todo' \in Seq(Steps) /\ result' \in {"running", "done"}
        /\ TodoInv'
        /\ result' = "running" => Head(todo') \in After(cmd, Head(todo))
    BY Onwards DEF RecoveryInv
  <1>2. TypeOK' /\ KernelInv'
    BY <1>1 DEF RecoveryInv, TypeOK, ProcessTypeOK, KernelGood
  <1>3. DueInv'
    <2> SUFFICES ASSUME result' = "running"
                 PROVE  Needs(Head(todo))'
      BY DEF DueInv
    <2> PICK h : h = Head(todo')
      OBVIOUS
    <2>1. Needs(h)'
      BY <1>1
    <2> QED
      BY <2>1 DEF Needs
  <1> QED
    BY <1>1, <1>2, <1>3 DEF RecoveryInv

\* What is left to show of a step that ends the command.
LEMMA EndKeeps ==
    ASSUME RecoveryInv, KernelGood', todo' = <<>>, result' \in {"done", "failed"},
           UNCHANGED <<cmd, sel>>,
           hint' \in Cards \cup {None}, target' \in Cards \cup {None}
    PROVE  RecoveryInv'
  <1>1. <<>> \in Seq(Steps)
    OBVIOUS
  <1>2. TypeOK' /\ KernelInv'
    BY <1>1 DEF RecoveryInv, TypeOK, ProcessTypeOK, KernelGood
  <1>3. TodoInv'
    BY DEF TodoInv, Ordered
  <1>4. DueInv'
    BY DEF DueInv
  <1> QED
    BY <1>2, <1>3, <1>4 DEF RecoveryInv

\* What is left to show of a step that is not over, or that is not of the
\* process at all.
LEMMA StayKeeps ==
    ASSUME RecoveryInv, KernelGood', UNCHANGED <<cmd, sel, todo, result>>,
           hint' \in Cards \cup {None}, target' \in Cards \cup {None},
           result = "running" => Needs(Head(todo))'
    PROVE  RecoveryInv'
  <1>1. TypeOK' /\ KernelInv'
    BY DEF RecoveryInv, TypeOK, ProcessTypeOK, KernelGood
  <1>2. TodoInv'
    BY DEF RecoveryInv, TodoInv, Ordered
  <1>3. DueInv'
    BY DEF DueInv
  <1> QED
    BY <1>1, <1>2, <1>3 DEF RecoveryInv

\* What the invariant says of the process, for the steps that follow.
LEMMA Ranges ==
    ASSUME RecoveryInv
    PROVE  /\ KernelGood
           /\ hint \in Cards \cup {None} /\ target \in Cards \cup {None}
           /\ cmd \in Commands
  BY DEF RecoveryInv, TypeOK, ProcessTypeOK, KernelGood

\* Finding the endpoint: the steps that reprogram the card on the cable come
\* first only if its endpoint was not found, so no driver serves it.
LEMMA FindKeeps ==
    ASSUME RecoveryInv, Find
    PROVE  RecoveryInv'
  <1> DEFINE p == Plan(cmd, target')
  <1>1. /\ result = "running" /\ UNCHANGED <<alive, kernel, hint, cmd, sel>>
        /\ target' = IF FindCurrentBdf = None /\ cmd # "mrrs" THEN hint ELSE FindCurrentBdf
        /\ IF Refuses(cmd, target') THEN Fail ELSE Continue(p)
    BY DEF Find, At
  <1>2. KernelGood /\ KernelGood'
    BY <1>1, Ranges, KernelStutters
  <1>3. Candidates \subseteq seen /\ (Candidates = {} => bound = {})
    BY <1>2 DEF Candidates, KernelGood, KernelTypeOK
  <1>4. Candidates # {} => (CHOOSE e \in Candidates : TRUE) \in Candidates
    OBVIOUS
  <1>5. /\ sel # None => FindCurrentBdf = sel
        /\ sel = None /\ Candidates = {} => FindCurrentBdf = None
        /\ sel = None /\ Candidates # {} => FindCurrentBdf \in Candidates
    <2>1. CASE sel # None
      BY <2>1 DEF FindCurrentBdf
    <2>2. CASE sel = None /\ Candidates = {}
      BY <2>2 DEF FindCurrentBdf
    <2>3. CASE sel = None /\ Candidates # {}
      BY <1>4, <2>3 DEF FindCurrentBdf
    <2> QED
      BY <2>1, <2>2, <2>3
  <1>6. sel \in Cards \cup {None} /\ hint \in Cards \cup {None} /\ seen \subseteq Cards
    BY SelectionsAssumption DEF RecoveryInv, TypeOK, ProcessTypeOK, KernelTypeOK
  <1>7. target' \in Cards \cup {None}
    BY <1>1, <1>3, <1>5, <1>6
  <1>8. CASE Refuses(cmd, target')
    BY <1>1, <1>2, <1>6, <1>7, <1>8, EndKeeps DEF Fail
  <1>9. CASE ~Refuses(cmd, target')
    <2>1. cmd \in AllCommands
      BY Ranges, CommandsAssumption
    <2>2. /\ p \in Seq(Steps) /\ Ordered(cmd, p) /\ p # <<>>
          /\ Head(p) \in {"remember", "unload", "rescan", "sram", "detect", "device"}
          /\ Head(p) = "rescan" => cmd = "probe"
          /\ Head(p) = "remember" => cmd \notin {"program", "boot"}
          /\ Head(p) \in {"sram", "detect"} => target' \notin seen
      BY <2>1, Plans
    <2> HIDE DEF p
    <2>3. todo' = p /\ result' = "running"
      BY <1>1, <1>9, <2>2 DEF Continue
    <2>4. TypeOK' /\ KernelInv' /\ TodoInv'
      <3>1. ProcessTypeOK'
        BY <1>1, <1>6, <1>7, <2>2, <2>3 DEF RecoveryInv, TypeOK, ProcessTypeOK
      <3>2. TodoInv'
        BY <1>1, <2>2, <2>3 DEF TodoInv, Ordered
      <3> QED
        BY <1>2, <3>1, <3>2 DEF TypeOK, KernelGood
    <2>5. target' \notin seen /\ sel \in {None, Cabled} /\ cmd # "mrrs" => Cabled \notin bound
      <3> SUFFICES ASSUME target' \notin seen, sel \in {None, Cabled}, cmd # "mrrs"
                   PROVE  Cabled \notin bound
        OBVIOUS
      <3>1. bound \subseteq seen /\ Cabled # None
        BY <1>2, CardsAssumption DEF KernelGood, KernelTypeOK
      <3>2. CASE sel = None
        <4>1. FindCurrentBdf # None => target' = FindCurrentBdf
          BY <1>1
        <4>2. Candidates = {}
          BY <1>3, <1>5, <1>6, <3>2, <4>1, CardsAssumption
        <4> QED
          BY <1>3, <4>2
      <3>3. CASE sel = Cabled
        BY <1>1, <1>5, <3>1, <3>3
      <3> QED
        BY <3>2, <3>3
    <2>6. Head(p) \in {"sram", "detect"} => cmd # "mrrs"
      <3>1. cmd = "mrrs" => Head(p) = "remember"
        BY DEF p, Plan
      <3> QED
        BY <3>1
    <2>7. DueInv'
      <3> PICK h : h = Head(todo')
        OBVIOUS
      <3>1. Needs(h)'
        BY <1>1, <2>2, <2>3, <2>5, <2>6 DEF Needs, Fresh, kernel
      <3> QED
        BY <3>1 DEF DueInv, Needs
    <2> QED
      BY <2>4, <2>7 DEF RecoveryInv
  <1> QED
    BY <1>8, <1>9

\* The hint is kept, or becomes the address the card was found at.
LEMMA RememberKeeps ==
    ASSUME RecoveryInv, RememberBdf
    PROVE  RecoveryInv'
  <1>1. /\ result = "running" /\ Head(todo) = "remember" /\ Continue(Tail(todo))
        /\ UNCHANGED <<alive, kernel, cmd, sel, target>>
        /\ hint' \in {hint, target}
    BY DEF RememberBdf, At, process
  <1>2. KernelGood'
    BY <1>1, Ranges, KernelStutters
  <1>3. cmd \in {"program", "boot"} => node # None
    BY <1>1 DEF RecoveryInv, DueInv, Needs
  <1>4. \A step \in After(cmd, "remember") : Needs(step)'
    <2> TAKE step \in After(cmd, "remember")
    <2>1. step \in IF cmd \in {"program", "boot"} THEN {"iprog"} ELSE {"mrrs", "unload"}
      BY DEF After
    <2> QED
      BY <1>1, <1>3, <2>1 DEF Needs, kernel
  <1> QED
    BY <1>1, <1>2, <1>4, Ranges, ContinueKeeps

\* rmmod unbinds everything.
LEMMA UnloadModuleKeeps ==
    ASSUME RecoveryInv, UnloadModule
    PROVE  RecoveryInv'
  <1>1. /\ result = "running" /\ Head(todo) = "unload" /\ Unload /\ Continue(Tail(todo))
        /\ UNCHANGED <<alive, hint, cmd, sel, target>>
    BY DEF UnloadModule, At, process
  <1>2. KernelGood' /\ bound' = {}
    BY <1>1, Ranges, UnloadKeeps
  <1>3. \A step \in After(cmd, "unload") : Needs(step)'
    <2> TAKE step \in After(cmd, "unload")
    <2>1. step \in {"load", "remove", "removeIfThere", "discover"}
      BY DEF After
    <2> QED
      BY <1>2, <2>1 DEF Needs, Fresh
  <1> QED
    BY <1>1, <1>2, <1>3, Ranges, ContinueKeeps

\* A removal takes the endpoint off the bus.
LEMMA RemoveStepKeeps ==
    ASSUME RecoveryInv, RemoveTarget
    PROVE  RecoveryInv'
  <1>1. /\ result = "running" /\ Head(todo) \in {"remove", "removeIfThere"}
        /\ UNCHANGED <<alive, hint, cmd, sel, target>>
        /\ RemoveEndpoint(target) \/ UNCHANGED kernel
        /\ Continue(Tail(todo)) \/ Fail
        /\ target \notin seen'
    BY DEF RemoveTarget, RemoveEndpoint, At, process, kernel
  <1>2. bound = {}
    BY <1>1 DEF RecoveryInv, DueInv, Needs
  <1>3. KernelGood' /\ bound' = {}
    <2>1. CASE RemoveEndpoint(target)
      BY <1>1, <1>2, <2>1, Ranges, RemoveKeeps
    <2>2. CASE UNCHANGED kernel
      BY <1>1, <1>2, <2>2, Ranges, KernelStutters DEF kernel
    <2> QED
      BY <1>1, <2>1, <2>2
  <1>4. \A step \in After(cmd, Head(todo)) : Needs(step)'
    <2> TAKE step \in After(cmd, Head(todo))
    <2>1. step \in {"sram", "detect", "rescan"}
      BY <1>1 DEF After
    <2> QED
      BY <1>1, <1>3, <2>1 DEF Needs, Fresh
  <1>5. CASE Continue(Tail(todo))
    BY <1>1, <1>3, <1>4, <1>5, Ranges, ContinueKeeps
  <1>6. CASE Fail
    BY <1>1, <1>3, <1>6, Ranges, EndKeeps DEF Fail
  <1> QED
    BY <1>1, <1>5, <1>6

\* A rescan adds the endpoints of the cards that are alive.
LEMMA RescanKnownKeeps ==
    ASSUME RecoveryInv, RescanKnown
    PROVE  RecoveryInv'
  <1>1. /\ result = "running" /\ Head(todo) = "rescan"
        /\ UNCHANGED <<alive, hint, cmd, sel, target>>
        /\ \/ Continue(Tail(todo)) /\ UNCHANGED kernel
           \/ Rescan /\ UNCHANGED <<todo, result>>
    BY DEF RescanKnown, At, process
  <1>2. Fresh
    BY <1>1 DEF RecoveryInv, DueInv, Needs
  <1>3. CASE Continue(Tail(todo)) /\ UNCHANGED kernel
    <2>1. KernelGood' /\ Fresh'
      BY <1>1, <1>2, <1>3, Ranges, KernelStutters
    <2>2. \A step \in After(cmd, "rescan") : Needs(step)'
      <3> TAKE step \in After(cmd, "rescan")
      <3>1. step = "load"
        BY DEF After
      <3> QED
        BY <2>1, <3>1 DEF Needs
    <2> QED
      BY <1>1, <1>3, <2>1, <2>2, Ranges, ContinueKeeps
  <1>4. CASE Rescan /\ UNCHANGED <<todo, result>>
    <2>1. KernelGood' /\ Fresh'
      BY <1>1, <1>2, <1>4, Ranges, RescanKeeps DEF Fresh
    <2>2. Needs(Head(todo))'
      BY <1>1, <1>4, <2>1 DEF Needs
    <2> QED
      BY <1>1, <1>4, <2>1, <2>2, Ranges, StayKeeps
  <1> QED
    BY <1>1, <1>3, <1>4

\* So does the one that looks for the card at any address.
LEMMA DiscoverKeeps ==
    ASSUME RecoveryInv, DiscoverEndpoint
    PROVE  RecoveryInv'
  <1> DEFINE found == IF target \in seen' THEN target
                      ELSE IF sel # None THEN None ELSE FindCurrentBdf'
  <1>1. /\ result = "running" /\ Head(todo) = "discover" /\ Rescan
        /\ UNCHANGED <<alive, hint, cmd, sel>>
    BY DEF DiscoverEndpoint, At
  <1>2. \/ Fail /\ UNCHANGED target
        \/ found # None /\ target' = found /\ Continue(Tail(todo))
        \/ UNCHANGED <<target, todo, result>>
    <2>1. CASE target \notin seen' /\ Ambiguous'
      BY <2>1 DEF DiscoverEndpoint
    <2>2. CASE ~(target \notin seen' /\ Ambiguous') /\ found # None
      BY <2>2 DEF DiscoverEndpoint
    <2>3. CASE ~(target \notin seen' /\ Ambiguous') /\ found = None
      BY <2>3 DEF DiscoverEndpoint
    <2> QED
      BY <2>1, <2>2, <2>3
  <1>3. Fresh
    BY <1>1 DEF RecoveryInv, DueInv, Needs
  <1>4. KernelGood' /\ Fresh'
    BY <1>1, <1>3, Ranges, RescanKeeps DEF Fresh
  <1>5. found \in Cards \cup {None}
    <2>1. Candidates' \subseteq Cards
      BY <1>4 DEF Candidates, KernelGood, KernelTypeOK
    <2>2. sel = None => FindCurrentBdf' \in Cards \cup {None}
      <3>1. CASE Candidates' = {}
        BY <1>1, <3>1 DEF FindCurrentBdf
      <3>2. CASE Candidates' # {}
        <4>1. (CHOOSE e \in Candidates' : TRUE) \in Candidates'
          BY <3>2
        <4> QED
          BY <1>1, <2>1, <3>2, <4>1 DEF FindCurrentBdf
      <3> QED
        BY <3>1, <3>2
    <2> QED
      BY <2>2, Ranges
  <1> HIDE DEF found
  <1>6. CASE Fail /\ UNCHANGED target
    BY <1>1, <1>4, <1>6, Ranges, EndKeeps DEF Fail
  <1>7. CASE target' = found /\ Continue(Tail(todo))
    <2>1. \A step \in After(cmd, "discover") : Needs(step)'
      <3> TAKE step \in After(cmd, "discover")
      <3>1. step = "load"
        BY DEF After
      <3> QED
        BY <1>4, <3>1 DEF Needs
    <2> QED
      BY <1>1, <1>4, <1>5, <1>7, <2>1, Ranges, ContinueKeeps
  <1>8. CASE UNCHANGED <<target, todo, result>>
    <2>1. Needs(Head(todo))'
      BY <1>1, <1>4, <1>8 DEF Needs
    <2> QED
      BY <1>1, <1>4, <1>8, <2>1, Ranges, StayKeeps
  <1> QED
    BY <1>2, <1>6, <1>7, <1>8

\* insmod binds the endpoints that answer as they were enumerated.
LEMMA LoadStepKeeps ==
    ASSUME RecoveryInv, Load
    PROVE  RecoveryInv'
  <1>1. /\ result = "running" /\ Head(todo) = "load" /\ LoadModule /\ Continue(Tail(todo))
        /\ UNCHANGED <<alive, hint, cmd, sel, target>>
    BY DEF Load, At, process
  <1>2. Fresh
    BY <1>1 DEF RecoveryInv, DueInv, Needs
  <1>3. KernelGood' /\ Served' /\ Fresh'
    BY <1>1, <1>2, Ranges, LoadKeeps DEF Fresh
  <1>4. \A step \in After(cmd, "load") : Needs(step)'
    <2> TAKE step \in After(cmd, "load")
    <2>1. step \in {"visible", "bind"}
      BY DEF After
    <2> QED
      BY <1>3, <2>1 DEF Needs
  <1> QED
    BY <1>1, <1>3, <1>4, Ranges, ContinueKeeps

\* The checks after it: whether the card is there,
LEMMA VisibleKeeps ==
    ASSUME RecoveryInv, Visible
    PROVE  RecoveryInv'
  <1>1. /\ result = "running" /\ Head(todo) = "visible"
        /\ UNCHANGED <<alive, kernel, hint, cmd, sel, target>>
        /\ Continue(Tail(todo)) \/ Continue(<<>>)
    BY DEF Visible, At, process
  <1>2. Fresh /\ Served
    BY <1>1 DEF RecoveryInv, DueInv, Needs
  <1>3. KernelGood' /\ Fresh' /\ Served'
    BY <1>1, <1>2, Ranges, KernelStutters
  <1>4. CASE Continue(Tail(todo))
    <2>1. \A step \in After(cmd, "visible") : Needs(step)'
      <3> TAKE step \in After(cmd, "visible")
      <3>1. step = "bind"
        BY DEF After
      <3> QED
        BY <1>3, <3>1 DEF Needs
    <2> QED
      BY <1>1, <1>3, <1>4, <2>1, Ranges, ContinueKeeps
  <1>5. CASE Continue(<<>>)
    BY <1>1, <1>3, <1>5, Ranges, EndKeeps DEF Continue
  <1> QED
    BY <1>1, <1>4, <1>5

\* whether it is bound,
LEMMA BindKeeps ==
    ASSUME RecoveryInv, Bind
    PROVE  RecoveryInv'
  <1>1. /\ result = "running" /\ Head(todo) = "bind" /\ Continue(Tail(todo))
        /\ target \in bound
        /\ UNCHANGED <<alive, kernel, hint, cmd, sel, target>>
    BY DEF Bind, At, process
  <1>2. Fresh /\ Served
    BY <1>1 DEF RecoveryInv, DueInv, Needs
  <1>3. KernelGood' /\ Fresh' /\ Served' /\ target' \in bound'
    BY <1>1, <1>2, Ranges, KernelStutters DEF kernel
  <1>4. \A step \in After(cmd, "bind") : Needs(step)'
    <2> TAKE step \in After(cmd, "bind")
    <2>1. step = "nodes"
      BY DEF After
    <2> QED
      BY <1>3, <2>1 DEF Needs
  <1> QED
    BY <1>1, <1>3, <1>4, Ranges, ContinueKeeps

\* and whether it has its device files.
LEMMA NodesKeeps ==
    ASSUME RecoveryInv, Nodes
    PROVE  RecoveryInv'
  <1>1. /\ result = "running" /\ Head(todo) = "nodes" /\ Continue(Tail(todo))
        /\ node # None
        /\ UNCHANGED <<alive, kernel, cmd, sel, target>>
        /\ hint' \in {hint, target}
    BY DEF Nodes, At, process
  <1>2. KernelGood' /\ node' # None
    BY <1>1, Ranges, KernelStutters DEF kernel
  <1>3. \A step \in After(cmd, "nodes") : Needs(step)'
    <2> TAKE step \in After(cmd, "nodes")
    <2>1. step \in {"device", "remember"}
      BY DEF After
    <2> QED
      BY <1>2, <2>1 DEF Needs
  <1> QED
    BY <1>1, <1>2, <1>3, Ranges, ContinueKeeps

\* A command gives up, or is killed.
LEMMA FailKeeps ==
    ASSUME RecoveryInv, Timeout \/ Breaks
    PROVE  RecoveryInv'
  <1>1. Fail /\ UNCHANGED <<alive, kernel, hint, cmd, sel, target>>
    BY DEF Timeout, Breaks, process
  <1>2. KernelGood'
    BY <1>1, Ranges, KernelStutters
  <1> QED
    BY <1>1, <1>2, Ranges, EndKeeps DEF Fail

\* openFPGALoader may reconfigure the card at the cable.
LEMMA SramKeeps ==
    ASSUME RecoveryInv, Sram
    PROVE  RecoveryInv'
  <1>1. /\ result = "running" /\ Head(todo) \in {"sram", "detect", "program"}
        /\ Reconfigured(Cabled)
        /\ UNCHANGED <<hint, cmd, sel, target>>
        /\ Continue(Tail(todo)) \/ Fail
    BY DEF Sram, At, process
  <1>2. KernelGood' /\ bound' = bound
    BY <1>1, CardsAssumption, Ranges, ReconfiguredKeeps
  <1>3. target \notin seen' /\ (sel \in {None, Cabled} => Cabled \notin bound)
    BY <1>1 DEF RecoveryInv, DueInv, Needs, Reconfigured
  <1>4. \A step \in After(cmd, Head(todo)) : Needs(step)'
    <2> TAKE step \in After(cmd, Head(todo))
    <2>1. step \in {"program", "unload"}
      BY <1>1 DEF After
    <2> QED
      BY <1>1, <1>2, <1>3, <2>1 DEF Needs
  <1>5. CASE Continue(Tail(todo))
    BY <1>1, <1>2, <1>4, <1>5, Ranges, ContinueKeeps
  <1>6. CASE Fail
    BY <1>1, <1>2, <1>6, Ranges, EndKeeps DEF Fail
  <1> QED
    BY <1>1, <1>5, <1>6

\* The steps of the other commands: a device that needs a node,
LEMMA DeviceKeeps ==
    ASSUME RecoveryInv, Device
    PROVE  RecoveryInv'
  <1>1. /\ result = "running" /\ Head(todo) = "device"
        /\ IF node = None THEN Fail ELSE Continue(Tail(todo))
        /\ UNCHANGED <<alive, kernel, hint, cmd, sel, target>>
    BY DEF Device, At, process
  <1>2. KernelGood' /\ node' = node
    BY <1>1, Ranges, KernelStutters DEF kernel
  <1>3. CASE node = None
    BY <1>1, <1>2, <1>3, Ranges, EndKeeps DEF Fail
  <1>4. CASE node # None
    <2>1. \A step \in After(cmd, "device") : Needs(step)'
      <3> TAKE step \in After(cmd, "device")
      <3>1. step = "remember"
        BY DEF After
      <3> QED
        BY <1>2, <1>4, <3>1 DEF Needs
    <2> QED
      BY <1>1, <1>2, <1>4, <2>1, Ranges, ContinueKeeps
  <1> QED
    BY <1>3, <1>4

\* a flash update,
LEMMA UpdateKeeps ==
    ASSUME RecoveryInv, Update
    PROVE  RecoveryInv'
  <1>1. /\ result = "running" /\ Head(todo) = "update"
        /\ Continue(Tail(todo)) \/ Fail
        /\ UNCHANGED <<alive, kernel, hint, cmd, sel, target>>
    BY DEF Update, At, process
  <1>2. KernelGood'
    BY <1>1, Ranges, KernelStutters
  <1>3. \A step \in After(cmd, "update") : Needs(step)'
    <2> TAKE step \in After(cmd, "update")
    <2>1. step = "find"
      BY DEF After
    <2> QED
      BY <2>1 DEF Needs
  <1>4. CASE Continue(Tail(todo))
    BY <1>1, <1>2, <1>3, <1>4, Ranges, ContinueKeeps
  <1>5. CASE Fail
    BY <1>1, <1>2, <1>5, Ranges, EndKeeps DEF Fail
  <1> QED
    BY <1>1, <1>4, <1>5

\* and the MRRS of the card.
LEMMA SetMrrsKeeps ==
    ASSUME RecoveryInv, SetMrrs
    PROVE  RecoveryInv'
  <1>1. /\ result = "running" /\ Head(todo) = "mrrs"
        /\ Continue(Tail(todo)) \/ Fail
        /\ UNCHANGED <<alive, kernel, hint, cmd, sel, target>>
    BY DEF SetMrrs, At, process
  <1>2. KernelGood'
    BY <1>1, Ranges, KernelStutters
  <1>3. After(cmd, "mrrs") = {}
    BY DEF After
  <1>4. CASE Continue(Tail(todo))
    BY <1>1, <1>2, <1>3, <1>4, Ranges, ContinueKeeps
  <1>5. CASE Fail
    BY <1>1, <1>2, <1>5, Ranges, EndKeeps DEF Fail
  <1> QED
    BY <1>1, <1>4, <1>5

\* The node that the command goes through is that of an endpoint, which
\* leads to a card.
LEMMA IprogKeeps ==
    ASSUME RecoveryInv, Iprog
    PROVE  RecoveryInv'
  <1>1. /\ result = "running" /\ Head(todo) = "iprog" /\ Continue(Tail(todo))
        /\ Reconfigured(node) \/ UNCHANGED <<alive, kernel>>
        /\ UNCHANGED <<hint, cmd, sel, target>>
    BY DEF Iprog, At, process
  <1>2. node \in Cards
    BY <1>1 DEF RecoveryInv, DueInv, Needs, TypeOK, KernelTypeOK
  <1>3. KernelGood'
    <2>1. CASE Reconfigured(node)
      BY <1>2, <2>1, Ranges, ReconfiguredKeeps
    <2>2. CASE UNCHANGED <<alive, kernel>>
      BY <2>2, Ranges, KernelStutters
    <2> QED
      BY <1>1, <2>1, <2>2
  <1>4. \A step \in After(cmd, "iprog") : Needs(step)'
    <2> TAKE step \in After(cmd, "iprog")
    <2>1. step = "unload"
      BY DEF After
    <2> QED
      BY <2>1 DEF Needs
  <1> QED
    BY <1>1, <1>3, <1>4, Ranges, ContinueKeeps

\* A card boots from its flash: a card that was gone and was enumerated is
\* stale, so nothing is owed to it.
LEMMA BootKeeps ==
    ASSUME RecoveryInv, Boot
    PROVE  RecoveryInv'
  <1>1. PICK c \in Cards \ alive : alive' = alive \cup {c}
    BY DEF Boot
  <1>2. UNCHANGED <<seen, stale, loaded, bound, node, hint, cmd, sel, target, todo, result>>
    BY DEF Boot, kernel, process
  <1>3. KernelGood'
    BY <1>1, <1>2, Ranges DEF KernelGood, KernelTypeOK, KernelInv
  <1>4. Served => Served'
    BY <1>1, <1>2, Ranges DEF Served, KernelGood, KernelInv
  <1>5. Fresh => Fresh'
    BY <1>2 DEF Fresh
  <1>6. ASSUME result = "running"
        PROVE  Needs(Head(todo))'
    <2>1. Needs(Head(todo))
      BY <1>6 DEF RecoveryInv, DueInv
    <2> QED
      BY <1>2, <1>4, <1>5, <2>1 DEF Needs
  <1> QED
    BY <1>2, <1>3, <1>6, Ranges, StayKeeps

\* Another tool reconfigures a card between two commands.
LEMMA OutsideKeeps ==
    ASSUME RecoveryInv, Outside
    PROVE  RecoveryInv'
  <1>1. PICK c \in Cards : Reconfigured(c)
    BY DEF Outside
  <1>2. result # "running" /\ UNCHANGED <<hint, cmd, sel, target, todo, result>>
    BY DEF Outside, process
  <1>3. KernelGood'
    BY <1>1, Ranges, ReconfiguredKeeps
  <1> QED
    BY <1>2, <1>3, Ranges, StayKeeps

\* The next command is run.
LEMMA RunKeeps ==
    ASSUME RecoveryInv, NEW c \in Commands, NEW b \in Selections, Run(c, b)
    PROVE  RecoveryInv'
  <1>1. /\ cmd' = c /\ sel' = b /\ target' = None /\ result' = "running"
        /\ todo' = IF c = "program" THEN <<"update", "find">> ELSE <<"find">>
        /\ UNCHANGED <<alive, kernel, hint>>
    BY DEF Run
  <1>2. KernelGood'
    BY <1>1, Ranges, KernelStutters
  <1>3. /\ todo' \in Seq(Steps) /\ Ordered(c, todo') /\ todo' # <<>>
        /\ Head(todo') \in {"update", "find"}
    <2>1. <<"update", "find">> \in Seq(Steps) /\ Ordered(c, <<"update", "find">>)
      BY PairOrdered DEF After, Steps
    <2>2. <<"find">> \in Seq(Steps) /\ Ordered(c, <<"find">>)
      BY DEF Steps, Ordered
    <2> QED
      BY <1>1, <2>1, <2>2
  <1>4. ProcessTypeOK'
    BY <1>1, <1>3, Ranges DEF ProcessTypeOK
  <1>5. TodoInv'
    BY <1>1, <1>3 DEF TodoInv, Ordered
  <1>6. DueInv'
    <2> PICK h : h = Head(todo')
      OBVIOUS
    <2>1. Needs(h)'
      BY <1>3 DEF Needs
    <2> QED
      BY <2>1 DEF DueInv, Needs
  <1> QED
    BY <1>2, <1>4, <1>5, <1>6 DEF RecoveryInv, TypeOK, KernelGood

-----------------------------------------------------------------------------
\* At the start nothing runs and no driver is loaded.
LEMMA InitKeeps == Init => RecoveryInv
  <1> SUFFICES ASSUME Init
               PROVE  RecoveryInv
    OBVIOUS
  <1>1. <<>> \in Seq(Steps)
    OBVIOUS
  <1>2. TypeOK /\ KernelInv
    BY <1>1 DEF Init, TypeOK, KernelTypeOK, ProcessTypeOK, KernelInv
  <1>3. TodoInv /\ DueInv
    BY DEF Init, TodoInv, Ordered, DueInv
  <1> QED
    BY <1>2, <1>3 DEF RecoveryInv

\* Every step keeps the invariant.
LEMMA NextKeeps == RecoveryInv /\ [Next]_vars => RecoveryInv'
  <1> SUFFICES ASSUME RecoveryInv, [Next]_vars
               PROVE  RecoveryInv'
    OBVIOUS
  <1>1. CASE Step
    BY <1>1, FindKeeps, RememberKeeps, UnloadModuleKeeps, RemoveStepKeeps, RescanKnownKeeps,
       DiscoverKeeps, LoadStepKeeps, VisibleKeeps, BindKeeps, NodesKeeps, FailKeeps, SramKeeps,
       DeviceKeeps, UpdateKeeps, SetMrrsKeeps, IprogKeeps, Zenon DEF Step
  <1>2. CASE Breaks
    BY <1>2, FailKeeps
  <1>3. CASE Boot
    BY <1>3, BootKeeps
  <1>4. CASE Outside
    BY <1>4, OutsideKeeps
  <1>5. CASE \E c \in Commands, b \in Selections : Run(c, b)
    BY <1>5, RunKeeps
  <1>6. CASE UNCHANGED vars
    <2>1. UNCHANGED <<alive, kernel, hint, cmd, sel, target, todo, result>>
      BY <1>6 DEF vars, process
    <2>2. KernelGood'
      BY <2>1, Ranges, KernelStutters
    <2>3. result = "running" => Needs(Head(todo))'
      BY <2>1 DEF RecoveryInv, DueInv, Needs, Fresh, Served, kernel
    <2> QED
      BY <2>1, <2>2, <2>3, Ranges, StayKeeps
  <1> QED
    BY <1>1, <1>2, <1>3, <1>4, <1>5, <1>6 DEF Next

\* What the steps of a command rely on holds in every state, whatever
\* commands were run before, on whatever cards, and wherever they stopped.
THEOREM RecoveryInvariant == Spec => []RecoveryInv
  BY InitKeeps, NextKeeps, PTL DEF Spec

\* A command that announces an endpoint as ready has it driven as it was
\* enumerated after its card was last configured: the command unloaded the
\* driver and took the endpoint off, and found it again.
THEOREM AnnouncedIsUsable == Spec => ReadyIsUsable
  <1>1. RecoveryInv /\ Nodes /\ cmd # "probe" => target \in bound' \ stale'
    <2> SUFFICES ASSUME RecoveryInv, Nodes, cmd # "probe"
                 PROVE  target \in bound' \ stale'
      OBVIOUS
    <2>1. result = "running" /\ Head(todo) = "nodes" /\ bound' = bound /\ stale' = stale
      BY DEF Nodes, At, kernel
    <2>2. Fresh /\ target \in bound
      BY <2>1 DEF RecoveryInv, DueInv, Needs
    <2> QED
      BY <2>1, <2>2 DEF Fresh
  <1> QED
    BY <1>1, RecoveryInvariant, PTL DEF ReadyIsUsable

\* The card on the cable is reprogrammed only when no driver serves it and the
\* endpoint the command works on is off the bus.
THEOREM ReprogrammedUnbound == Spec => NeverUnderDriver
  <1>1. RecoveryInv /\ Sram /\ sel \in {None, Cabled} => Cabled \notin bound /\ target \notin seen
    BY DEF RecoveryInv, DueInv, Needs, Sram, At
  <1> QED
    BY <1>1, RecoveryInvariant, PTL DEF NeverUnderDriver

\* When a command announces its endpoint, every card that answers as it was
\* enumerated is driven, those that the command was not asked about as well.
THEOREM OthersAreServed == Spec => NobodyLeftBehind
  <1>1. RecoveryInv /\ Nodes => (seen \cap alive) \ stale \subseteq bound
    BY DEF RecoveryInv, DueInv, Needs, Nodes, At, Served
  <1> QED
    BY <1>1, RecoveryInvariant, PTL DEF NobodyLeftBehind

-----------------------------------------------------------------------------
(* ------------------------------ RunProcess ----------------------------- *)

Printed == Lines \cup {"cannot execute"}
Hows == {"none", "forked", "program", "unknown", "exit", "signal"}

RunTypeOK ==
    /\ pc \in {"fork", "close", "read", "wait", "done", "thrown"}
    /\ output \in Seq(Printed) /\ pipe \in Seq(Printed) /\ written \in Seq(Printed)
    /\ open \subseteq Processes \cup {"fpgactl"}
    /\ child \in [how : Hows, value : Nat]
    /\ left \in [Processes -> Int]

\* Nothing is lost between what is written and what is read.
PipeInv ==
    /\ written = output \o pipe
    /\ pc \in {"wait", "done"} => open = {} /\ pipe = <<>>
\* A program that has not closed its output can still write to it, one that has
\* ended cannot, and the status is taken when it has ended.
ChildInv ==
    /\ child.how \in {"forked", "unknown"} => "child" \in open
    /\ pc = "done" => Ended /\ code = Status

ProcessInv == RunTypeOK /\ PipeInv /\ ChildInv

-----------------------------------------------------------------------------
\* The first n lines of the pipe move to the end of the output.
LEMMA ReadMoves ==
    \A a, b \in Seq(Printed) : \A n \in 1 .. Len(b) :
        /\ SubSeq(b, 1, n) \in Seq(Printed) /\ SubSeq(b, n + 1, Len(b)) \in Seq(Printed)
        /\ (a \o SubSeq(b, 1, n)) \o SubSeq(b, n + 1, Len(b)) = a \o b
  <1> SUFFICES ASSUME NEW S, S = Printed, NEW a \in Seq(S), NEW b \in Seq(S), NEW n \in 1 .. Len(b)
               PROVE  /\ SubSeq(b, 1, n) \in Seq(S) /\ SubSeq(b, n + 1, Len(b)) \in Seq(S)
                      /\ (a \o SubSeq(b, 1, n)) \o SubSeq(b, n + 1, Len(b)) = a \o b
    OBVIOUS
  <1> DEFINE p == SubSeq(b, 1, n)
             q == SubSeq(b, n + 1, Len(b))
  <1>1. p \in Seq(S) /\ Len(p) = n /\ \A i \in 1 .. n : p[i] = b[i]
    OBVIOUS
  <1>2. q \in Seq(S) /\ Len(q) = Len(b) - n /\ \A i \in 1 .. Len(b) - n : q[i] = b[n + i]
    OBVIOUS
  <1> HIDE DEF p, q
  <1>3. /\ a \o p \in Seq(S) /\ Len(a \o p) = Len(a) + n
        /\ \A i \in 1 .. Len(a) + n : (a \o p)[i] = IF i <= Len(a) THEN a[i] ELSE p[i - Len(a)]
    BY <1>1, ConcatProperties
  <1> DEFINE r == a \o p
  <1> HIDE DEF r
  <1>4. /\ r \o q \in Seq(S) /\ Len(r \o q) = Len(a) + Len(b)
        /\ \A i \in 1 .. Len(a) + Len(b) :
               (r \o q)[i] = IF i <= Len(a) + n THEN r[i] ELSE q[i - (Len(a) + n)]
    <2>1. r \in Seq(S) /\ Len(r) = Len(a) + n
      BY <1>3 DEF r
    <2>2. Len(r) + Len(q) = Len(a) + Len(b)
      BY <1>2, <2>1
    <2>3. /\ r \o q \in Seq(S) /\ Len(r \o q) = Len(r) + Len(q)
          /\ \A i \in 1 .. Len(r) + Len(q) :
                 (r \o q)[i] = IF i <= Len(r) THEN r[i] ELSE q[i - Len(r)]
      BY <1>2, <2>1, ConcatProperties
    <2> QED
      BY <2>1, <2>2, <2>3
  <1>6. /\ a \o b \in Seq(S) /\ Len(a \o b) = Len(a) + Len(b)
        /\ \A i \in 1 .. Len(a) + Len(b) : (a \o b)[i] = IF i <= Len(a) THEN a[i] ELSE b[i - Len(a)]
    BY ConcatProperties
  <1>7. ASSUME NEW i \in 1 .. Len(a) + Len(b) PROVE (r \o q)[i] = (a \o b)[i]
    <2>1. CASE i <= Len(a) + n
      BY <1>1, <1>3, <1>4, <1>6, <2>1 DEF r
    <2>2. CASE ~(i <= Len(a) + n)
      <3>1. i - (Len(a) + n) \in 1 .. Len(b) - n /\ n + (i - (Len(a) + n)) = i - Len(a)
        BY <2>2
      <3>2. q[i - (Len(a) + n)] = b[i - Len(a)]
        BY <1>2, <3>1
      <3> QED
        BY <1>4, <1>6, <2>2, <3>2
    <2> QED
      BY <2>1, <2>2, Zenon
  <1>5. r \o q = a \o b
    BY <1>4, <1>6, <1>7, SeqEqual
  <1> QED
    BY <1>1, <1>2, <1>5 DEF p, q, r

\* What is appended to the pipe is appended to all that is in flight.
LEMMA AppendMoves ==
    \A a, b \in Seq(Printed) : \A e \in Printed :
        Append(b, e) \in Seq(Printed) /\ Append(a \o b, e) = a \o Append(b, e)
  <1> TAKE a, b \in Seq(Printed)
  <1> TAKE e \in Printed
  <1>1. Append(a \o b, e) \in Seq(Printed) /\ a \o Append(b, e) \in Seq(Printed)
    OBVIOUS
  <1>2. Len(Append(a \o b, e)) = Len(a \o Append(b, e))
    OBVIOUS
  <1>3. ASSUME NEW i \in 1 .. Len(Append(a \o b, e))
        PROVE Append(a \o b, e)[i] = (a \o Append(b, e))[i]
    OBVIOUS
  <1> QED
    BY <1>1, <1>2, <1>3, SeqEqual

-----------------------------------------------------------------------------
\* Every step of fpgactl, of the program and of what it leaves behind keeps it.
LEMMA ProcessStep == ProcessInv /\ [RunNext]_rvars => ProcessInv'
  <1> SUFFICES ASSUME ProcessInv, [RunNext]_rvars PROVE ProcessInv'
    OBVIOUS
  <1>20. /\ output \in Seq(Printed) /\ pipe \in Seq(Printed) /\ output \o pipe \in Seq(Printed)
         /\ written = output \o pipe
    BY DEF ProcessInv, RunTypeOK, PipeInv
  <1>21. ASSUME NEW e \in Printed, pipe' = Append(pipe, e), written' = Append(written, e)
         PROVE  written' = output \o pipe' /\ pipe' \in Seq(Printed) /\ written' \in Seq(Printed)
    <2>1. Append(pipe, e) \in Seq(Printed) /\ Append(output \o pipe, e) = output \o Append(pipe, e)
      BY <1>20, <1>21, AppendMoves, Zenon
    <2>2. Append(output \o pipe, e) \in Seq(Printed)
      BY <1>20
    <2> QED
      BY <1>20, <1>21, <2>1, <2>2
  <1>22. \A n \in 1 .. Len(pipe) :
           /\ SubSeq(pipe, 1, n) \in Seq(Printed) /\ SubSeq(pipe, n + 1, Len(pipe)) \in Seq(Printed)
           /\ (output \o SubSeq(pipe, 1, n)) \o SubSeq(pipe, n + 1, Len(pipe)) = output \o pipe
    BY <1>20, ReadMoves, Zenon
  <1> USE DEF ProcessInv, RunTypeOK, PipeInv, ChildInv, Processes, Hows, Ended, Is, Exits, Killed
  <1>1. CASE Fork
    <2>1. CASE pc' = "thrown"
      BY <1>1, <2>1 DEF Fork
    <2>2. CASE pc' = "close"
      BY <1>1, <2>2 DEF Fork
    <2> QED
      BY <1>1, <2>1, <2>2 DEF Fork
  <1>2. CASE Close
    BY <1>2 DEF Close
  <1>3. CASE Read
    <2>1. PICK n \in 1 .. Buffer :
            /\ n <= Len(pipe)
            /\ output' = output \o SubSeq(pipe, 1, n)
            /\ pipe' = SubSeq(pipe, n + 1, Len(pipe))
      BY <1>3 DEF Read
    <2>2. n \in 1 .. Len(pipe)
      BY <1>20, <2>1, CapacityAssumption
    <2>3. SubSeq(pipe, 1, n) \in Seq(Printed) /\ pipe' \in Seq(Printed)
          /\ (output \o SubSeq(pipe, 1, n)) \o pipe' = output \o pipe
      BY <1>22, <2>1, <2>2, Zenon
    <2>4. output' \in Seq(Printed)
      BY <1>20, <2>1, <2>3, ConcatProperties
    <2> QED
      BY <1>3, <2>1, <2>3, <2>4 DEF Read
  <1>4. CASE ReadEnd
    BY <1>4 DEF ReadEnd
  <1>5. CASE Wait
    BY <1>5 DEF Wait, Status
  <1>6. CASE ReadThrows
    BY <1>6 DEF ReadThrows
  <1>7. CASE ReadInterrupted
    BY <1>7 DEF ReadInterrupted, Interrupted
  <1>8. CASE WaitInterrupted
    BY <1>8 DEF WaitInterrupted, Interrupted
  <1>9. CASE Execute
    BY <1>9 DEF Execute
  <1>10. CASE Unknown
    <2>1. pipe' = Append(pipe, "cannot execute") /\ written' = Append(written, "cannot execute")
      BY <1>10 DEF Unknown
    <2>2. written' = output \o pipe' /\ pipe' \in Seq(Printed) /\ written' \in Seq(Printed)
      BY <1>21, <2>1 DEF Printed
    <2> QED
      BY <1>10, <2>2 DEF Unknown, End
  <1>11. ASSUME NEW p \in Processes, Say(p) PROVE ProcessInv'
    <2>1. PICK line \in Lines : pipe' = Append(pipe, line) /\ written' = Append(written, line)
      BY <1>11 DEF Say
    <2>2. written' = output \o pipe' /\ pipe' \in Seq(Printed) /\ written' \in Seq(Printed)
      BY <1>21, <2>1 DEF Printed
    <2>3. left' \in [Processes -> Int]
      BY <1>11 DEF Say
    <2> QED
      BY <1>11, <2>2, <2>3 DEF Say
  <1>12. ASSUME NEW p \in Processes, BrokenPipe(p) PROVE ProcessInv'
    BY <1>12 DEF BrokenPipe
  <1>13. CASE Exit
    BY <1>13 DEF Exit, End
  <1>14. CASE DescendantEnds
    BY <1>14 DEF DescendantEnds
  <1>15. CASE LeaveBehind
    BY <1>15 DEF LeaveBehind
  <1>16. CASE CloseOutput
    BY <1>16 DEF CloseOutput
  <1>17. CASE Kill
    BY <1>17 DEF Kill, End
  <1>18. CASE UNCHANGED rvars
    BY <1>18 DEF rvars, Status
  <1>19. CASE WaitThrows
    BY <1>19 DEF WaitThrows
  <1> QED
    BY <1>1, <1>2, <1>3, <1>4, <1>5, <1>6, <1>7, <1>8, <1>9, <1>10, <1>11, <1>12, <1>13, <1>14, <1>15, <1>16, <1>17, <1>18, <1>19 DEF RunNext, Fpgactl, Child, Descendant

\* The inductive invariant: output and pipe together are all that was written.
THEOREM PipeInvariant == RunSpec => []ProcessInv
  <1>1. RunInit => ProcessInv
    <2>1. <<>> \in Seq(Printed) /\ <<>> \o <<>> = <<>>
      OBVIOUS
    <2> QED
      BY <2>1, BoundsAssumption
         DEF RunInit, ProcessInv, RunTypeOK, PipeInv, ChildInv, Processes, Hows, Is
  <1> QED
    BY <1>1, ProcessStep, PTL DEF RunSpec

\* What runProcess returns is all that was printed, by whomever.
THEOREM OutputComplete == RunSpec => []OutputIsComplete
  <1>1. ProcessInv => OutputIsComplete
    <2> SUFFICES ASSUME ProcessInv, pc = "done" PROVE output = written /\ open = {}
      BY DEF OutputIsComplete
    <2>1. output \o <<>> = output
      BY DEF ProcessInv, RunTypeOK
    <2> QED
      BY <2>1 DEF ProcessInv, PipeInv
  <1> QED
    BY PipeInvariant, <1>1, PTL

\* runJtag announces success only for a loader that exited with status 0.
THEOREM SuccessReal == RunSpec => []SuccessIsReal
  <1>1. ProcessInv => SuccessIsReal
    <2> SUFFICES ASSUME ProcessInv, Succeeds
                 PROVE child = Exits(0) /\ ~Failure(written)
      BY DEF SuccessIsReal
    <2>1. output \o <<>> = output
      BY DEF ProcessInv, RunTypeOK
    <2>2. output = written
      BY <2>1 DEF ProcessInv, PipeInv, Succeeds
    <2>3. child.how = "exit" /\ child.value = 0
      BY DEF ProcessInv, RunTypeOK, ChildInv, Succeeds, Ended, Status
    <2>4. child = Exits(0)
      BY <2>3 DEF ProcessInv, RunTypeOK, Exits
    <2> QED
      BY <2>2, <2>4 DEF Succeeds
  <1> QED
    BY PipeInvariant, <1>1, PTL

-----------------------------------------------------------------------------
(* ---------------------------- PciCapability ---------------------------- *)

\* The space does not change; the command and the register in their ranges.
PciTypeOK ==
    /\ size \in Nat /\ listed \in BOOLEAN /\ start \in Slots \cup {0}
    /\ link \in [Slots -> Slots \cup {0}] /\ express \subseteq Slots
    /\ pointer \in Slots \cup {0} /\ visited \subseteq Slots
    /\ wpc \in {"header", "unlisted", "walk", "missing", "truncated", "malformed",
                "found", "written", "done", "failed"}
    /\ control \in [mrrs : MrrsCodes, others : OtherFields]
    /\ decoded \in [mrrs : MrrsCodes, others : OtherFields]
    /\ requested \in MrrsCodes /\ outside \in BOOLEAN

\* Whatever goes past the check of the header has a list that can be read.
HeaderInv == wpc \notin {"header", "unlisted"} => HeaderSize <= size /\ listed

\* The walk has followed one link for every slot it has seen, and what it has
\* seen is closed under the links but for the slot it is at.
WalkInv ==
    wpc \in {"header", "walk"} =>
        /\ pointer = Trail[Cardinality(visited)]
        /\ start \in visited \cup {pointer}
        /\ \A v \in visited : ~Ends(v) /\ link[v] \in visited \cup {pointer}

\* What was read is what the register holds until somebody writes it.
ControlInv ==
    ~outside =>
        /\ wpc \in {"header", "walk", "found"} => control = decoded
        /\ wpc \in {"written", "done"} => control.others = decoded.others
        /\ wpc = "done" => control.mrrs = requested

PciInv == PciTypeOK /\ HeaderInv /\ WalkInv /\ VerdictIsRight /\ ControlInv

-----------------------------------------------------------------------------
(* The reference. *)

\* The walk needs at most one step per slot: where it goes from a slot, or stays.
Hops == Cardinality(Slots)
Onward(p) == IF Ends(p) THEN p ELSE link[p]

\* There are finitely many slots.
LEMMA HopsNat == Hops \in Nat
  BY FS_CardinalityType, SlotsAssumption DEF Hops

\* Following the links is defined for every number of steps.
LEMMA TrailDef ==
    ASSUME PciTypeOK
    PROVE  /\ Trail \in [0 .. Hops -> Slots \cup {0}]
           /\ Trail[0] = start
           /\ \A n \in 1 .. Hops : Trail[n] = Onward(Trail[n - 1])
  <1> DEFINE Follows(f, m) ==
           /\ f[0] = start
           /\ \A i \in 1 .. m : f[i] = Onward(f[i - 1])
             S == {m \in Nat : \E f \in [0 .. m -> Slots \cup {0}] : Follows(f, m)}
  <1>1. 0 \in S
    <2>1. [i \in 0 .. 0 |-> start] \in [0 .. 0 -> Slots \cup {0}]
      BY DEF PciTypeOK
    <2>2. Follows([i \in 0 .. 0 |-> start], 0)
      OBVIOUS
    <2> QED
      BY <2>1, <2>2
  <1>2. ASSUME NEW m \in Nat, m \in S
        PROVE  m + 1 \in S
    <2>1. PICK f \in [0 .. m -> Slots \cup {0}] : Follows(f, m)
      BY <1>2
    <2> DEFINE g == [i \in 0 .. m + 1 |-> IF i = m + 1 THEN Onward(f[m]) ELSE f[i]]
    <2>2. Onward(f[m]) \in Slots \cup {0}
      BY DEF Onward, Ends, PciTypeOK
    <2>3. g \in [0 .. m + 1 -> Slots \cup {0}]
      BY <2>2
    <2>4. g[0] = start
      BY <2>1
    <2>5. ASSUME NEW i \in 1 .. m + 1
          PROVE  g[i] = Onward(g[i - 1])
      <3>1. CASE i = m + 1
        <4>1. g[i] = Onward(f[m]) /\ g[i - 1] = f[m]
          BY <3>1
        <4> QED
          BY <4>1
      <3>2. CASE i # m + 1
        <4>1. i \in 1 .. m /\ g[i] = f[i] /\ g[i - 1] = f[i - 1]
          BY <3>2
        <4> QED
          BY <2>1, <4>1
      <3> QED
        BY <3>1, <3>2
    <2> QED
      BY <2>3, <2>4, <2>5
  <1> HIDE DEF S
  <1>3. Nat \subseteq S
    BY <1>1, <1>2, SetInduction
  <1>4. PICK f \in [0 .. Hops -> Slots \cup {0}] : Follows(f, Hops)
    BY <1>3, HopsNat DEF S
  <1> DEFINE Body(g) == [n \in 0 .. Cardinality(Slots) |->
                           IF n = 0 THEN start ELSE IF Ends(g[n - 1]) THEN g[n - 1] ELSE link[g[n - 1]]]
  <1>5. f = Body(f)
    <2>1. ASSUME NEW n \in 0 .. Hops
          PROVE  f[n] = IF n = 0 THEN start ELSE IF Ends(f[n - 1]) THEN f[n - 1] ELSE link[f[n - 1]]
      <3>1. CASE n = 0
        BY <1>4, <3>1
      <3>2. CASE n # 0
        <4>1. n \in 1 .. Hops
          BY <3>2, HopsNat
        <4> QED
          BY <1>4, <3>2, <4>1 DEF Onward
      <3> QED
        BY <3>1, <3>2
    <2> QED
      BY <2>1 DEF Hops
  <1>6. Trail = CHOOSE g : g = Body(g)
    BY DEF Trail
  <1> HIDE DEF Body
  <1>7. Trail = Body(Trail)
    BY <1>5, <1>6
  <1>8. Trail = [n \in 0 .. Hops |->
                   IF n = 0 THEN start ELSE Onward(Trail[n - 1])]
    BY <1>7, Zenon DEF Body, Onward, Hops
  <1>9. Trail[0] = start /\ \A n \in 1 .. Hops : Trail[n] = Onward(Trail[n - 1])
    BY <1>8, HopsNat
  <1>10. ASSUME NEW n \in 0 .. Hops
         PROVE  Trail[n] \in Slots \cup {0}
    <2> DEFINE T == {m \in Nat : m <= Hops => Trail[m] \in Slots \cup {0}}
    <2>1. 0 \in T
      BY <1>9 DEF PciTypeOK
    <2>2. ASSUME NEW m \in Nat, m \in T
          PROVE  m + 1 \in T
      <3>1. CASE m + 1 <= Hops
        <4>1. Trail[m] \in Slots \cup {0}
          BY <2>2, <3>1, HopsNat
        <4>2. Trail[m + 1] = Onward(Trail[m])
          BY <1>9, <3>1, HopsNat
        <4>3. Onward(Trail[m]) \in Slots \cup {0}
          BY <4>1 DEF Onward, Ends, PciTypeOK
        <4> QED
          BY <4>2, <4>3
      <3>2. CASE ~(m + 1 <= Hops)
        BY <3>2
      <3> QED
        BY <3>1, <3>2
    <2> HIDE DEF T
    <2>3. Nat \subseteq T
      BY <2>1, <2>2, SetInduction
    <2> QED
      BY <2>3, HopsNat DEF T
  <1>11. Trail \in [0 .. Hops -> Slots \cup {0}]
    BY <1>8, <1>10
  <1> QED
    BY <1>9, <1>11

\* A walk that has come to an end stays there.
LEMMA TrailStays ==
    ASSUME PciTypeOK, NEW k \in 0 .. Hops, Ends(Trail[k])
    PROVE  Reached = Trail[k]
  <1> DEFINE S == {m \in Nat : k + m <= Hops => Trail[k + m] = Trail[k]}
  <1>1. 0 \in S
    OBVIOUS
  <1>2. ASSUME NEW m \in Nat, m \in S
        PROVE  m + 1 \in S
    <2> SUFFICES ASSUME k + (m + 1) <= Hops
                 PROVE  Trail[k + (m + 1)] = Trail[k]
      OBVIOUS
    <2>1. Trail[k + m] = Trail[k]
      BY <1>2, HopsNat
    <2>2. k + (m + 1) \in 1 .. Hops /\ (k + (m + 1)) - 1 = k + m
      BY HopsNat
    <2>3. Trail[k + (m + 1)] = Onward(Trail[k + m])
      BY <2>2, TrailDef
    <2> QED
      BY <2>1, <2>3 DEF Onward
  <1> HIDE DEF S
  <1>3. Hops - k \in S
    BY <1>1, <1>2, SetInduction, HopsNat
  <1>4. k + (Hops - k) = Hops
    BY HopsNat
  <1> QED
    BY <1>3, <1>4, HopsNat DEF S, Reached, Hops

\* A set of slots that the links do not leave holds all of the walk.
LEMMA TrailWithin ==
    ASSUME PciTypeOK, NEW V \in SUBSET Slots, start \in V,
           \A v \in V : link[v] \in V
    PROVE  Reached \in V
  <1> DEFINE S == {m \in Nat : m <= Hops => Trail[m] \in V}
  <1>1. 0 \in S
    BY TrailDef
  <1>2. ASSUME NEW m \in Nat, m \in S
        PROVE  m + 1 \in S
    <2> SUFFICES ASSUME m + 1 <= Hops
                 PROVE  Trail[m + 1] \in V
      OBVIOUS
    <2>1. Trail[m] \in V
      BY <1>2, HopsNat
    <2>2. Trail[m + 1] = Onward(Trail[m])
      BY TrailDef, HopsNat
    <2> QED
      BY <2>1, <2>2 DEF Onward
  <1> HIDE DEF S
  <1>3. Hops \in S
    BY <1>1, <1>2, SetInduction, HopsNat
  <1> QED
    BY <1>3, HopsNat DEF S, Reached, Hops

\* The reference is about the space, which does not change.
LEMMA SpaceStays ==
    ASSUME UNCHANGED space
    PROVE  /\ Trail' = Trail /\ Reached' = Reached /\ Expected' = Expected
           /\ \A p : Ends(p)' <=> Ends(p)
  <1>1. size' = size /\ listed' = listed /\ start' = start /\ link' = link /\ express' = express
    BY DEF space
  <1>2. \A p : Ends(p)' <=> Ends(p)
    BY <1>1 DEF Ends
  <1>3. Trail' = Trail
    BY <1>1 DEF Trail, Ends
  <1>4. Reached' = Reached
    BY <1>3 DEF Reached
  <1>5. Ends(Reached)' <=> Ends(Reached)
    BY <1>1, <1>4 DEF Ends
  <1> QED
    BY <1>1, <1>2, <1>3, <1>4, <1>5 DEF Expected

-----------------------------------------------------------------------------
(* The walk. *)

\* Where the walk ends, the verdict is the reference's.
LEMMA EndReached ==
    ASSUME PciInv, wpc = "walk", Ends(pointer)
    PROVE  pointer = Reached
  <1>1. IsFiniteSet(visited) /\ Cardinality(visited) \in Nat /\ Cardinality(visited) <= Hops
    BY SlotsAssumption, FS_Subset, FS_CardinalityType DEF PciInv, PciTypeOK, Hops
  <1>2. Cardinality(visited) \in 0 .. Hops
    BY <1>1, HopsNat
  <1>3. pointer = Trail[Cardinality(visited)]
    BY DEF PciInv, WalkInv
  <1> QED
    BY <1>2, <1>3, TrailStays DEF PciInv

\* A slot that is seen again is on a circle.
LEMMA CircleFound ==
    ASSUME PciInv, wpc = "walk", pointer \in visited
    PROVE  ~Ends(Reached)
  <1>1. /\ start \in visited
        /\ \A v \in visited : ~Ends(v) /\ link[v] \in visited
    BY DEF PciInv, WalkInv
  <1>2. Reached \in visited
    BY <1>1, TrailWithin DEF PciInv, PciTypeOK
  <1> QED
    BY <1>1, <1>2

\* Every step of the command and of the others keeps the invariant.
LEMMA PciStep == PciInv /\ [PciNext]_pvars => PciInv'
  <1> SUFFICES ASSUME PciInv, [PciNext]_pvars
               PROVE  PciInv'
    OBVIOUS
  <1>0. UNCHANGED space
    BY DEF PciNext, Command, CheckHeader, Missing, Truncated, Malformed, Found, Forward, Write, Verify,
           ReadbackFails, Stop, OtherWrites, pvars
  <1>1. /\ Trail' = Trail /\ Reached' = Reached /\ Expected' = Expected
        /\ \A p : Ends(p)' <=> Ends(p)
        /\ size' = size /\ listed' = listed /\ start' = start /\ link' = link /\ express' = express
    BY <1>0, SpaceStays DEF space
  <1>12. CASE CheckHeader
    <2>1. CASE HeaderSize <= size /\ listed
      <3>1. wpc = "header" /\ wpc' = "walk"
            /\ UNCHANGED <<control, pointer, visited, decoded, requested, outside>>
        BY <1>12, <2>1 DEF CheckHeader, Stop, walk, HeaderSize, PciInv, PciTypeOK
      <3>2. PciTypeOK' /\ VerdictIsRight'
        BY <1>1, <3>1 DEF PciInv, PciTypeOK, VerdictIsRight
      <3>3. HeaderInv' /\ ControlInv'
        BY <1>1, <2>1, <3>1 DEF PciInv, HeaderInv, ControlInv, HeaderSize
      <3>4. WalkInv'
        BY <1>1, <3>1 DEF PciInv, WalkInv
      <3> QED
        BY <3>2, <3>3, <3>4 DEF PciInv
    <2>2. CASE ~(HeaderSize <= size /\ listed)
      <3>1. wpc' = "unlisted"
            /\ UNCHANGED <<control, pointer, visited, decoded, requested, outside>>
        BY <1>12, <2>2 DEF CheckHeader, Stop, walk, HeaderSize, PciInv, PciTypeOK
      <3>2. Expected = "unlisted"
        BY <2>2 DEF Expected
      <3>3. PciTypeOK' /\ VerdictIsRight'
        BY <1>1, <3>1, <3>2 DEF PciInv, PciTypeOK, VerdictIsRight
      <3> QED
        BY <3>1, <3>3 DEF PciInv, HeaderInv, WalkInv, ControlInv
    <2> QED
      BY <2>1, <2>2
  <1>2. CASE Missing
    <2>1. pointer = 0 /\ Ends(pointer) /\ pointer = Reached
      BY <1>2, EndReached DEF Missing, Ends
    <2>2. Expected = "missing"
      BY <1>2, <2>1 DEF Expected, Missing, PciInv, HeaderInv
    <2> QED
      BY <1>1, <1>2, <2>2 DEF Missing, Stop, PciInv, PciTypeOK, HeaderInv, WalkInv, VerdictIsRight, ControlInv, walk
  <1>3. CASE Truncated
    <2>1. pointer # 0 /\ ~Within(pointer, 2) /\ wpc = "walk"
      BY <1>3 DEF Truncated
    <2>2. pointer \in Nat /\ size \in Nat
      BY SlotsAssumption DEF PciInv, PciTypeOK
    <2>3. Ends(pointer) /\ pointer = Reached /\ ~(4 * pointer + 10 <= size)
      <3>1. 4 * pointer + 2 > size
        BY <2>1, <2>2 DEF Within
      <3>2. Ends(pointer)
        BY <3>1 DEF Ends
      <3>3. pointer = Reached
        BY <2>1, <3>2, EndReached
      <3> QED
        BY <2>2, <3>1, <3>2, <3>3
    <2>4. Expected = "truncated"
      BY <2>1, <2>3 DEF Expected, PciInv, HeaderInv
    <2> QED
      BY <1>1, <1>3, <2>4 DEF Truncated, Stop, PciInv, PciTypeOK, HeaderInv, WalkInv, VerdictIsRight, ControlInv, walk
  <1>4. CASE Malformed
    <2>1. ~Ends(Reached)
      BY <1>4, CircleFound DEF Malformed, Entry
    <2>2. Expected = "malformed"
      <3>1. Reached # 0
        BY <2>1 DEF Ends
      <3> QED
        BY <1>4, <2>1, <3>1 DEF Expected, Malformed, Entry, PciInv, HeaderInv
    <2> QED
      BY <1>1, <1>4, <2>2 DEF Malformed, Entry, Stop, PciInv, PciTypeOK, HeaderInv, WalkInv, VerdictIsRight, ControlInv, walk
  <1>5. CASE Found
    <2>1. pointer # 0 /\ wpc = "walk" /\ pointer \in express
      BY <1>5 DEF Found, Entry
    <2>2. Ends(pointer) /\ pointer = Reached
      BY <2>1, EndReached DEF Ends
    <2>3. Expected = IF Within(pointer, 10) THEN "found" ELSE "truncated"
      BY <2>1, <2>2 DEF Expected, Within, PciInv, HeaderInv
    <2>4. visited' \subseteq Slots
      BY <1>5, <2>1 DEF Found, PciInv, PciTypeOK
    <2>5. /\ wpc' = Expected /\ wpc' \in {"found", "truncated"}
          /\ UNCHANGED <<control, pointer, decoded, requested, outside>>
      BY <1>5, <2>3 DEF Found
    <2>6. PciTypeOK'
      BY <1>1, <2>4, <2>5 DEF PciInv, PciTypeOK
    <2>7. HeaderInv' /\ WalkInv' /\ VerdictIsRight'
      BY <1>1, <2>1, <2>2, <2>5 DEF PciInv, HeaderInv, WalkInv, VerdictIsRight
    <2>8. ControlInv'
      BY <2>1, <2>5 DEF PciInv, ControlInv
    <2> QED
      BY <2>6, <2>7, <2>8 DEF PciInv
  <1>6. CASE Forward
    <2>1. /\ wpc = "walk" /\ wpc' = "walk" /\ pointer \in Slots /\ pointer \notin visited
          /\ ~Ends(pointer)
          /\ visited' = visited \cup {pointer} /\ pointer' = link[pointer]
          /\ UNCHANGED <<control, decoded, requested, outside>>
      <3>1. /\ Entry /\ pointer \notin visited /\ pointer \notin express
            /\ visited' = visited \cup {pointer} /\ pointer' = link[pointer]
            /\ UNCHANGED <<control, wpc, decoded, requested, outside>>
        BY <1>6 DEF Forward
      <3>2. wpc = "walk" /\ pointer # 0 /\ 4 * pointer + 2 <= size
        BY <3>1 DEF Entry, Within
      <3>3. pointer \in Slots /\ pointer \in Nat /\ size \in Nat
        BY <3>2, SlotsAssumption DEF PciInv, PciTypeOK
      <3>4. ~Ends(pointer)
        BY <3>1, <3>2, <3>3 DEF Ends
      <3> QED
        BY <3>1, <3>2, <3>3, <3>4
    <2>2. IsFiniteSet(visited) /\ visited \subseteq Slots
      BY SlotsAssumption, FS_Subset DEF PciInv, PciTypeOK
    <2>3. Cardinality(visited') = Cardinality(visited) + 1 /\ Cardinality(visited) \in Nat
      BY <2>1, <2>2, FS_AddElement, FS_CardinalityType
    <2>4. Cardinality(visited') <= Hops
      <3>1. visited' \subseteq Slots
        BY <2>1, <2>2
      <3> QED
        BY <3>1, SlotsAssumption, FS_Subset DEF Hops
    <2>5. pointer = Trail[Cardinality(visited)]
      BY <2>1 DEF PciInv, WalkInv
    <2>6. pointer' = Trail[Cardinality(visited')]
      <3>1. Trail[Cardinality(visited) + 1] = Onward(Trail[Cardinality(visited)])
        BY <2>3, <2>4, HopsNat, TrailDef DEF PciInv
      <3> QED
        BY <2>1, <2>3, <2>5, <3>1 DEF Onward
    <2>7. WalkInv'
      <3>1. start \in visited \cup {pointer}
            /\ \A v \in visited : ~Ends(v) /\ link[v] \in visited \cup {pointer}
        BY <2>1 DEF PciInv, WalkInv
      <3>2. start' \in visited' \cup {pointer'}
        BY <1>1, <2>1, <3>1
      <3>3. \A v \in visited' : ~Ends(v)' /\ link'[v] \in visited' \cup {pointer'}
        BY <1>1, <2>1, <3>1
      <3> QED
        BY <1>1, <2>6, <3>2, <3>3 DEF WalkInv
    <2>8. PciTypeOK'
      BY <1>1, <2>1, <2>2 DEF PciInv, PciTypeOK
    <2> QED
      BY <1>1, <2>1, <2>7, <2>8 DEF PciInv, HeaderInv, VerdictIsRight, ControlInv
  <1>7. CASE Write
    BY <1>1, <1>7 DEF Write, Updated, walk, PciInv, PciTypeOK, HeaderInv, WalkInv, VerdictIsRight, ControlInv
  <1>8. CASE Verify
    BY <1>1, <1>8 DEF Verify, Updated, walk, PciInv, PciTypeOK, HeaderInv, WalkInv, VerdictIsRight, ControlInv
  <1>9. CASE ReadbackFails
    BY <1>1, <1>9 DEF ReadbackFails, Stop, walk, PciInv, PciTypeOK, HeaderInv, WalkInv, VerdictIsRight, ControlInv
  <1>10. CASE OtherWrites
    BY <1>1, <1>10 DEF OtherWrites, walk, PciInv, PciTypeOK, HeaderInv, WalkInv, VerdictIsRight, ControlInv
  <1>11. CASE UNCHANGED pvars
    <2>1. UNCHANGED <<control, wpc, pointer, visited, decoded, requested, outside>>
      BY <1>11 DEF pvars, walk
    <2>2. PciTypeOK' /\ HeaderInv' /\ VerdictIsRight' /\ ControlInv'
      BY <1>1, <2>1 DEF PciInv, PciTypeOK, HeaderInv, VerdictIsRight, ControlInv
    <2>3. WalkInv'
      BY <1>1, <2>1 DEF PciInv, WalkInv
    <2> QED
      BY <2>2, <2>3 DEF PciInv
  <1> QED
    BY <1>2, <1>3, <1>4, <1>5, <1>6, <1>7, <1>8, <1>9, <1>10, <1>11, <1>12 DEF PciNext, Command

\* The invariant of the walk and of the read-modify-write.
THEOREM PciInvariant == PciSpec => []PciInv
  <1>1. PciInit => PciInv
    <2> SUFFICES ASSUME PciInit
                 PROVE  PciInv
      OBVIOUS
    <2>1. PciTypeOK /\ HeaderInv /\ VerdictIsRight /\ ControlInv
      BY SlotsAssumption, BytesAssumption
         DEF PciInit, PciTypeOK, HeaderInv, VerdictIsRight, ControlInv, OtherFields
    <2>2. WalkInv
      <3>1. Cardinality(visited) = 0
        BY FS_EmptySet DEF PciInit
      <3>2. Trail[0] = start
        BY <2>1, TrailDef
      <3> QED
        BY <3>1, <3>2 DEF PciInit, WalkInv
    <2> QED
      BY <2>1, <2>2 DEF PciInv
  <1> QED
    BY <1>1, PciStep, PTL DEF PciSpec

\* Whatever the links of a configuration space and wherever it is cut, the
\* decoder refuses it for want of a readable list, finds the first PCIe
\* capability the links lead to, or says rightly why
\* there is none.
THEOREM WalkIsRight == PciSpec => []VerdictIsRight
  BY PciInvariant, PTL DEF PciInv

\* What setMrrs announces is in the register, and nothing else of it changed.
THEOREM ChangeIsAsked == PciSpec => []MrrsAsAsked
  <1>1. PciInv => MrrsAsAsked
    <2> SUFFICES ASSUME PciInv, wpc = "done", ~outside
                 PROVE  control = [decoded EXCEPT !.mrrs = requested]
      BY DEF MrrsAsAsked
    <2>1. control.mrrs = requested /\ control.others = decoded.others
      BY DEF PciInv, ControlInv
    <2> QED
      BY <2>1 DEF PciInv, PciTypeOK
  <1> QED
    BY <1>1, PciInvariant, PTL

-----------------------------------------------------------------------------
(* ------------------------------- BitImage ------------------------------ *)

Bytes == Seq(0 .. Radix - 1)

\* The bytes of s from p on are those of t, as far as s goes.
Matches(s, p, t) == \A n \in 1 .. Len(t) : p + n <= Len(s) => s[p + n] = t[n]

\* Sequences of bytes are sequences of numbers.
LEMMA BytesAreNumbers == 0 .. Radix - 1 \subseteq Nat /\ Bytes \subseteq Seq(Nat)
  BY RadixAssumption DEF Bytes

\* What matches two sequences matches the one, and behind it the other.
LEMMA MatchesJoin ==
    ASSUME NEW s \in Seq(Nat), NEW p \in Nat, NEW a \in Seq(Nat), NEW b \in Seq(Nat)
    PROVE  Matches(s, p, a \o b) <=> Matches(s, p, a) /\ Matches(s, p + Len(a), b)
  <1>1. a \o b \in Seq(Nat) /\ Len(a \o b) = Len(a) + Len(b)
    OBVIOUS
  <1>2. \A n \in 1 .. Len(a) : (a \o b)[n] = a[n]
    BY ConcatProperties
  <1>3. \A n \in 1 .. Len(b) : (a \o b)[Len(a) + n] = b[n]
    <2>1. \A i \in 1 .. Len(a) + Len(b) :
              (a \o b)[i] = IF i <= Len(a) THEN a[i] ELSE b[i - Len(a)]
      BY ConcatProperties, Zenon
    <2> TAKE n \in 1 .. Len(b)
    <2>2. PICK i \in 1 .. Len(a) + Len(b) : i = Len(a) + n
      OBVIOUS
    <2>3. (a \o b)[i] = b[i - Len(a)] /\ i - Len(a) = n
      BY <2>1, <2>2
    <2> QED
      BY <2>2, <2>3
  <1>4. ASSUME Matches(s, p, a \o b)
        PROVE  Matches(s, p, a)
    <2> SUFFICES ASSUME NEW n \in 1 .. Len(a), p + n <= Len(s)
                 PROVE  s[p + n] = a[n]
      BY DEF Matches
    <2>1. n \in 1 .. Len(a \o b)
      BY <1>1
    <2> QED
      BY <2>1, <1>2, <1>4 DEF Matches
  <1>5. ASSUME Matches(s, p, a \o b)
        PROVE  Matches(s, p + Len(a), b)
    <2> SUFFICES ASSUME NEW n \in 1 .. Len(b), p + Len(a) + n <= Len(s)
                 PROVE  s[p + Len(a) + n] = b[n]
      BY DEF Matches
    <2>1. Len(a) + n \in 1 .. Len(a \o b) /\ p + (Len(a) + n) = p + Len(a) + n
      BY <1>1
    <2>2. s[p + (Len(a) + n)] = (a \o b)[Len(a) + n]
      BY <2>1, <1>5 DEF Matches
    <2> QED
      BY <2>1, <2>2, <1>3
  <1>6. ASSUME Matches(s, p, a), Matches(s, p + Len(a), b)
        PROVE  Matches(s, p, a \o b)
    <2> SUFFICES ASSUME NEW n \in 1 .. Len(a) + Len(b), p + n <= Len(s)
                 PROVE  s[p + n] = (a \o b)[n]
      BY <1>1 DEF Matches
    <2>1. CASE n <= Len(a)
      BY <2>1, <1>2, <1>6 DEF Matches
    <2>2. CASE n > Len(a)
      <3>1. n - Len(a) \in 1 .. Len(b) /\ p + Len(a) + (n - Len(a)) = p + n
            /\ Len(a) + (n - Len(a)) = n
        BY <2>2
      <3>2. s[p + Len(a) + (n - Len(a))] = b[n - Len(a)]
        BY <3>1, <1>6 DEF Matches
      <3>3. (a \o b)[Len(a) + (n - Len(a))] = b[n - Len(a)]
        BY <3>1, <1>3
      <3> QED
        BY <3>1, <3>2, <3>3
    <2> QED
      BY <2>1, <2>2
  <1> QED
    BY <1>4, <1>5, <1>6

\* A part of a sequence of bytes is one.
LEMMA PartOfBytes ==
    ASSUME NEW s \in Bytes, NEW p \in Nat, NEW n \in Nat, p + n <= Len(s)
    PROVE  SubSeq(s, p + 1, p + n) \in Bytes
  <1> DEFINE B == 0 .. Radix - 1
  <1>1. s \in Seq(B)
    BY DEF Bytes
  <1> HIDE DEF B
  <1>2. \A i \in p + 1 .. p + n : s[i] \in B
    BY <1>1
  <1>3. SubSeq(s, p + 1, p + n) \in Seq(B)
    BY <1>2, SubSeqProperties, p + 1 \in Int, p + n \in Int
  <1> QED
    BY <1>3 DEF Bytes, B

\* The difference of two places in a file does not wrap.
LEMMA SmallModulo ==
    ASSUME NEW x \in Nat, NEW m \in Nat \ {0}, x < m
    PROVE  x % m = x
  <1>1. x \div m = 0
    BY QuotientUnique, 0 * m = 0, 0 + m = m
  <1>2. PICK r \in Nat : r = x % m
    BY QuotientRemainder
  <1>3. x = 0 * m + r /\ 0 * m = 0
    <2>1. x = (x \div m) * m + (x % m) /\ 0 * m = 0
      BY QuotientRemainder
    <2> QED
      BY <2>1, <1>1, <1>2, Zenon
  <1> QED
    BY <1>2, <1>3

\* A part of a sequence matches it where it was taken.
LEMMA MatchesPart ==
    ASSUME NEW s \in Seq(Nat), NEW p \in Nat, NEW n \in Nat, p + n <= Len(s)
    PROVE  /\ SubSeq(s, p + 1, p + n) \in Seq(Nat) /\ Len(SubSeq(s, p + 1, p + n)) = n
           /\ Matches(s, p, SubSeq(s, p + 1, p + n))
  <1>1. Len(SubSeq(s, p + 1, p + n)) = n
    OBVIOUS
  <1>2. SubSeq(s, p + 1, p + n) \in Seq(Nat)
    OBVIOUS
  <1>3. \A k \in 1 .. n : SubSeq(s, p + 1, p + n)[k] = s[p + k]
    <2>1. \A i \in p + 1 .. p + n : s[i] \in Nat
      OBVIOUS
    <2>2. \A k \in 1 .. p + n - (p + 1) + 1 : SubSeq(s, p + 1, p + n)[k] = s[p + 1 + k - 1]
      BY <2>1, SubSeqProperties, p + 1 \in Int, p + n \in Int
    <2> TAKE k \in 1 .. n
    <2>3. k \in 1 .. p + n - (p + 1) + 1 /\ p + 1 + k - 1 = p + k
      OBVIOUS
    <2> QED
      BY <2>2, <2>3
  <1> QED
    BY <1>1, <1>2, <1>3 DEF Matches

\* and is the only sequence of its length to match there.
LEMMA MatchesUnique ==
    ASSUME NEW s \in Seq(Nat), NEW p \in Nat, NEW t \in Seq(Nat), p + Len(t) <= Len(s),
           Matches(s, p, t)
    PROVE  SubSeq(s, p + 1, p + Len(t)) = t
  <1>1. PICK n \in Nat : n = Len(t)
    OBVIOUS
  <1>2. /\ SubSeq(s, p + 1, p + n) \in Seq(Nat) /\ Len(SubSeq(s, p + 1, p + n)) = n
        /\ Matches(s, p, SubSeq(s, p + 1, p + n))
    BY <1>1, MatchesPart
  <1>3. \A k \in 1 .. n : p + k <= Len(s) /\ s[p + k] = t[k]
    BY <1>1 DEF Matches
  <1>4. \A k \in 1 .. n : SubSeq(s, p + 1, p + n)[k] = t[k]
    BY <1>2, <1>3 DEF Matches
  <1>5. PICK u \in Seq(Nat) : u = SubSeq(s, p + 1, p + n)
    BY <1>2
  <1>6. u = t
    <2>1. Len(u) = Len(t) /\ \A k \in 1 .. Len(u) : u[k] = t[k]
      BY <1>1, <1>2, <1>4, <1>5
    <2> QED
      BY <2>1, SeqEqual
  <1> QED
    BY <1>1, <1>5, <1>6

\* A sequence that matches from the start, and is as long, is the same.
LEMMA MatchesAll ==
    ASSUME NEW s \in Seq(Nat), NEW t \in Seq(Nat), Len(s) = Len(t), Matches(s, 0, t)
    PROVE  s = t
  BY DEF Matches

\* Numbers of two bytes,
LEMMA Number16 ==
    ASSUME NEW n \in Nat
    PROVE  /\ Big16(n) \in Seq(Nat) /\ Len(Big16(n)) = 2
           /\ Big16(n)[1] * Radix + Big16(n)[2] = n
           /\ n < Radix * Radix => Big16(n) \in Bytes
  <1>1. /\ n \div Radix \in Nat /\ n % Radix \in 0 .. Radix - 1
        /\ n = (n \div Radix) * Radix + (n % Radix)
    BY QuotientRemainder, RadixAssumption
  <1>2. ASSUME n < Radix * Radix PROVE n \div Radix < Radix
    <2>1. PICK q \in Nat : q = n \div Radix
      BY <1>1
    <2>2. q * Radix <= n
      <3>1. PICK r \in Nat : n = q * Radix + r
        BY <1>1, <2>1, BytesAreNumbers
      <3> QED
        BY <3>1, RadixAssumption, q * Radix \in Nat
    <2>3. CASE q >= Radix
      <3>1. PICK d \in Nat : q = Radix + d
        BY <2>3, RadixAssumption
      <3>2. q * Radix = Radix * Radix + d * Radix /\ d * Radix \in Nat /\ Radix * Radix \in Nat
        BY <3>1, RadixAssumption
      <3> QED
        BY <3>2, <2>2, <1>2
    <2> QED
      BY <2>1, <2>3, RadixAssumption
  <1> HIDE DEF Bytes
  <1>3. PICK a \in Nat, b \in 0 .. Radix - 1 : a = n \div Radix /\ b = n % Radix
    BY <1>1
  <1>4. Big16(n) = <<a, b>>
    BY <1>3 DEF Big16
  <1>5. b \in Nat
    BY BytesAreNumbers
  <1>6. a * Radix + b = n
    BY <1>1, <1>3
  <1>7. n < Radix * Radix => a \in 0 .. Radix - 1
    BY <1>2, <1>3, RadixAssumption
  <1>8. n < Radix * Radix => <<a, b>> \in Bytes
    BY <1>7 DEF Bytes
  <1> QED
    BY <1>4, <1>5, <1>6, <1>8

\* and of four.
LEMMA Number32 ==
    ASSUME NEW n \in Nat
    PROVE  /\ Big32(n) = Big16(n \div (Radix * Radix)) \o Big16(n % (Radix * Radix))
           /\ n \div (Radix * Radix) \in Nat /\ n % (Radix * Radix) \in Nat
           /\ n % (Radix * Radix) < Radix * Radix
           /\ n = (n \div (Radix * Radix)) * (Radix * Radix) + (n % (Radix * Radix))
           /\ Big32(n) \in Seq(Nat) /\ Len(Big32(n)) = 4
           /\ n < Radix * Radix * (Radix * Radix) => Big32(n) \in Bytes
  <1>1. PICK d \in Nat \ {0} : d = Radix * Radix
    <2>1. Radix * Radix > 0
      BY RadixAssumption
    <2> QED
      BY <2>1, RadixAssumption
  <1>2. /\ n \div d \in Nat /\ n % d \in Nat /\ n % d < d /\ n = (n \div d) * d + (n % d)
    BY QuotientRemainder
  <1>3. PICK a \in Nat, b \in Nat : a = n \div d /\ b = n % d
    BY <1>2
  <1>4. n < d * d => a < d
    <2>1. CASE a >= d /\ n < d * d
      <3>1. PICK c \in Nat : a = d + c
        BY <2>1
      <3>2. a * d = d * d + c * d /\ c * d \in Nat /\ d * d \in Nat
        BY <3>1
      <3> QED
        BY <3>2, <1>2, <1>3, <2>1
    <2> QED
      BY <2>1
  <1>5. Big32(n) = Big16(a) \o Big16(b)
    BY <1>1, <1>3 DEF Big32
  <1>6. /\ Big16(a) \in Seq(Nat) /\ Len(Big16(a)) = 2 /\ Big16(b) \in Seq(Nat)
        /\ Len(Big16(b)) = 2
    BY Number16
  <1>7. n < d * d => Big16(a) \in Bytes /\ Big16(b) \in Bytes
    <2>1. n < d * d => a < Radix * Radix /\ b < Radix * Radix
      BY <1>1, <1>2, <1>3, <1>4
    <2> QED
      BY <2>1, Number16
  <1>8. Big32(n) \in Seq(Nat) /\ Len(Big32(n)) = 4
    <2>1. PICK u \in Seq(Nat), v \in Seq(Nat) :
              u = Big16(a) /\ v = Big16(b) /\ Len(u) = 2 /\ Len(v) = 2
      BY <1>6
    <2>2. u \o v \in Seq(Nat) /\ Len(u \o v) = Len(u) + Len(v)
      OBVIOUS
    <2>3. Len(u \o v) = 4
      BY <2>1, <2>2
    <2> QED
      BY <2>1, <2>2, <2>3, <1>5
  <1>9. n < d * d => Big32(n) \in Bytes
    BY <1>5, <1>7 DEF Bytes
  <1> QED
    BY <1>1, <1>2, <1>3, <1>5, <1>8, <1>9

\* What is read where a number was written, of two bytes,
WordAt(s, p) == s[p + 1] * Radix + s[p + 2]
\* is that number;
LEMMA Read16 ==
    ASSUME NEW s \in Seq(Nat), NEW p \in Nat, NEW n \in Nat, p + 2 <= Len(s),
           Matches(s, p, Big16(n))
    PROVE  WordAt(s, p) = n
  <1>1. Len(Big16(n)) = 2
    BY Number16
  <1>2. 1 \in 1 .. Len(Big16(n)) /\ 2 \in 1 .. Len(Big16(n)) /\ p + 1 <= Len(s)
    BY <1>1
  <1>3. s[p + 1] = Big16(n)[1] /\ s[p + 2] = Big16(n)[2]
    BY <1>2 DEF Matches
  <1> QED
    BY <1>3, Number16, Zenon DEF WordAt

\* the same of four bytes;
LEMMA Read32 ==
    ASSUME NEW s \in Seq(Nat), NEW p \in Nat, NEW n \in Nat, p + 4 <= Len(s),
           Matches(s, p, Big32(n))
    PROVE  WordAt(s, p) * (Radix * Radix) + WordAt(s, p + 2) = n
  <1>1. PICK a \in Nat, b \in Nat :
            a = n \div (Radix * Radix) /\ b = n % (Radix * Radix)
    BY Number32
  <1>2. Big32(n) = Big16(a) \o Big16(b) /\ n = a * (Radix * Radix) + b
    BY <1>1, Number32
  <1>3. Big16(a) \in Seq(Nat) /\ Big16(b) \in Seq(Nat) /\ Len(Big16(a)) = 2
    BY Number16
  <1>4. Matches(s, p, Big16(a)) /\ Matches(s, p + 2, Big16(b))
    BY <1>2, <1>3, MatchesJoin
  <1>5. WordAt(s, p) = a
    BY <1>4, Read16
  <1>6. WordAt(s, p + 2) = b
    BY <1>4, Read16, p + 2 \in Nat, (p + 2) + 2 <= Len(s)
  <1> QED
    BY <1>2, <1>5, <1>6

\* where one is read, that number was written,
LEMMA Written16 ==
    ASSUME NEW s \in Bytes, NEW p \in Nat, p + 2 <= Len(s)
    PROVE  /\ WordAt(s, p) \in Nat /\ WordAt(s, p) < Radix * Radix
           /\ Matches(s, p, Big16(WordAt(s, p)))
  <1>1. p + 1 \in 1 .. Len(s) /\ p + 2 \in 1 .. Len(s)
    BY BytesAreNumbers
  <1>2. PICK a \in Nat, b \in Nat : a = s[p + 1] /\ b = s[p + 2] /\ a < Radix /\ b < Radix
    <2>1. s[p + 1] \in 0 .. Radix - 1 /\ s[p + 2] \in 0 .. Radix - 1
      BY <1>1, ElementOfSeq, Zenon DEF Bytes
    <2> QED
      BY <2>1, RadixAssumption
  <1>3. WordAt(s, p) = a * Radix + b
    BY <1>2 DEF WordAt
  <1>4. PICK w \in Nat : w = a * Radix + b
    BY RadixAssumption
  <1>5. w \div Radix = a
    <2>1. PICK m \in Nat : m = a * Radix /\ w = m + b
      BY <1>4, RadixAssumption
    <2>2. m <= w /\ w < m + Radix
      BY <2>1, <1>2, RadixAssumption
    <2>3. Radix \in Nat \ {0} /\ a * Radix <= w /\ w < a * Radix + Radix
      BY <2>1, <2>2, RadixAssumption
    <2> QED
      BY <2>3, QuotientUnique
  <1>6. w % Radix = b
    <2>1. w = (w \div Radix) * Radix + (w % Radix) /\ w % Radix \in Nat
      BY QuotientRemainder, RadixAssumption
    <2>2. PICK r \in Nat, m \in Nat : r = w % Radix /\ m = a * Radix
      BY <2>1, RadixAssumption
    <2>3. w = m + r
      BY <2>1, <2>2, <1>5, Zenon
    <2>4. w = m + b
      BY <2>2, <1>4, Zenon
    <2>5. r = b
      BY <2>3, <2>4
    <2> QED
      BY <2>2, <2>5
  <1>7. Big16(w) = <<a, b>>
    BY <1>5, <1>6 DEF Big16
  <1>8. Matches(s, p, <<a, b>>)
    <2>1. Len(<<a, b>>) = 2 /\ <<a, b>>[1] = a /\ <<a, b>>[2] = b
      OBVIOUS
    <2> SUFFICES ASSUME NEW n \in 1 .. 2
                 PROVE  s[p + n] = <<a, b>>[n]
      BY <2>1 DEF Matches
    <2>2. CASE n = 1
      BY <2>1, <2>2, <1>2
    <2>3. CASE n = 2
      BY <2>1, <2>3, <1>2
    <2> QED
      BY <2>2, <2>3
  <1>9. w < Radix * Radix
    <2>1. PICK c \in Nat : Radix = a + 1 + c
      <3>1. Radix - a - 1 \in Nat /\ Radix = a + 1 + (Radix - a - 1)
        BY <1>2, RadixAssumption
      <3> QED
        BY <3>1
    <2>2. Radix * Radix = a * Radix + Radix + c * Radix /\ c * Radix \in Nat /\ a * Radix \in Nat
      BY <2>1, RadixAssumption
    <2>3. PICK m \in Nat, l \in Nat : m = a * Radix /\ l = c * Radix
      BY <2>2
    <2>4. Radix * Radix = m + Radix + l
      BY <2>2, <2>3
    <2>5. w = m + b
      BY <2>3, <1>4, Zenon
    <2>6. w < m + Radix + l
      BY <1>2, <2>5, RadixAssumption
    <2> QED
      BY <2>4, <2>6
  <1> QED
    BY <1>3, <1>4, <1>7, <1>8, <1>9

\* the same of four bytes.
LEMMA Written32 ==
    ASSUME NEW s \in Bytes, NEW p \in Nat, p + 4 <= Len(s)
    PROVE  LET n == WordAt(s, p) * (Radix * Radix) + WordAt(s, p + 2)
           IN  n \in Nat /\ Matches(s, p, Big32(n))
  <1>1. PICK a \in Nat, b \in Nat :
            /\ a = WordAt(s, p) /\ b = WordAt(s, p + 2) /\ b < Radix * Radix
            /\ Matches(s, p, Big16(a)) /\ Matches(s, p + 2, Big16(b))
    BY Written16, p + 2 \in Nat, (p + 2) + 2 <= Len(s), p + 2 <= Len(s), BytesAreNumbers
  <1>2. PICK d \in Nat \ {0} : d = Radix * Radix
    BY RadixAssumption, Radix * Radix > 0
  <1>3. PICK n \in Nat : n = a * d + b
    BY <1>2
  <1>4. n \div d = a
    BY <1>1, <1>2, <1>3, QuotientUnique, a * d <= n, n < a * d + d
  <1>5. n % d = b
    <2>1. n = (n \div d) * d + (n % d) /\ n % d \in Nat
      BY QuotientRemainder
    <2>2. PICK r \in Nat, m \in Nat : r = n % d /\ m = a * d
      BY <2>1
    <2>3. n = m + r
      BY <2>1, <2>2, <1>4, Zenon
    <2>4. n = m + b
      BY <2>2, <1>3, Zenon
    <2>5. r = b
      BY <2>3, <2>4
    <2> QED
      BY <2>2, <2>5
  <1>6. Big32(n) = Big16(a) \o Big16(b)
    BY <1>2, <1>4, <1>5 DEF Big32
  <1>7. Big16(a) \in Seq(Nat) /\ Big16(b) \in Seq(Nat) /\ Len(Big16(a)) = 2
    BY Number16
  <1>8. Matches(s, p, Big16(a) \o Big16(b))
    BY <1>1, <1>7, MatchesJoin, BytesAreNumbers
  <1> QED
    BY <1>1, <1>2, <1>3, <1>6, <1>8

-----------------------------------------------------------------------------
\* The places of an image in its file.  An image with n fields or more:
Shaped(i, n) ==
    /\ i.header \in Bytes /\ i.fields \in Seq(Bytes)
    /\ n \in 0 .. 4 /\ n <= Len(i.fields)
Start(i) == Big16(Len(i.header)) \o i.header \o Big16(1)

\* A field in its place,
LEMMA FieldParts ==
    ASSUME NEW tag \in Nat, NEW f \in Seq(Nat)
    PROVE  /\ FieldOf(tag, f) \in Seq(Nat) /\ Len(FieldOf(tag, f)) = 3 + Len(f)
           /\ \A s \in Seq(Nat), p \in Nat :
                 Matches(s, p, FieldOf(tag, f)) <=>
                     /\ Matches(s, p, <<tag>>) /\ Matches(s, p + 1, Big16(Len(f)))
                     /\ Matches(s, p + 3, f)
  <1>1. PICK t \in Seq(Nat), w \in Seq(Nat) :
            t = <<tag>> /\ w = Big16(Len(f)) /\ Len(t) = 1 /\ Len(w) = 2
    <2>1. <<tag>> \in Seq(Nat) /\ Len(<<tag>>) = 1
      OBVIOUS
    <2> QED
      BY <2>1, Number16, Len(f) \in Nat
  <1>2. FieldOf(tag, f) = t \o w \o f
    BY <1>1 DEF FieldOf
  <1>3. t \o w \in Seq(Nat) /\ Len(t \o w) = Len(t) + Len(w)
    OBVIOUS
  <1>4. PICK u \in Seq(Nat) : u = t \o w /\ Len(u) = 3
    <2>1. Len(t \o w) = 1 + 2
      BY <1>1, <1>3
    <2>2. Len(t \o w) = 3
      BY <2>1
    <2> QED
      BY <1>3, <2>2, Zenon
  <1>5. u \o f \in Seq(Nat) /\ Len(u \o f) = Len(u) + Len(f)
    OBVIOUS
  <1>6. ASSUME NEW s \in Seq(Nat), NEW p \in Nat
        PROVE  Matches(s, p, u \o f) <=>
                   Matches(s, p, t) /\ Matches(s, p + 1, w) /\ Matches(s, p + 3, f)
    <2>1. Matches(s, p, u \o f) <=> Matches(s, p, u) /\ Matches(s, p + 3, f)
      BY <1>4, MatchesJoin
    <2>2. Matches(s, p, t \o w) <=> Matches(s, p, t) /\ Matches(s, p + 1, w)
      BY <1>1, MatchesJoin
    <2> QED
      BY <2>1, <2>2, <1>4
  <1> QED
    BY <1>1, <1>2, <1>4, <1>5, <1>6

\* the header and the marker,
LEMMA StartParts ==
    ASSUME NEW i, i.header \in Seq(Nat)
    PROVE  /\ Start(i) \in Seq(Nat) /\ Len(Start(i)) = 4 + Len(i.header)
           /\ \A s \in Seq(Nat), p \in Nat :
                 Matches(s, p, Start(i)) <=>
                     /\ Matches(s, p, Big16(Len(i.header))) /\ Matches(s, p + 2, i.header)
                     /\ Matches(s, p + 2 + Len(i.header), Big16(1))
  <1>1. PICK h \in Seq(Nat), t \in Seq(Nat), w \in Seq(Nat) :
            /\ h = i.header /\ t = Big16(Len(i.header)) /\ w = Big16(1)
            /\ Len(t) = 2 /\ Len(w) = 2
    BY Number16, Len(i.header) \in Nat
  <1>2. Start(i) = t \o h \o w
    BY <1>1 DEF Start
  <1>3. t \o h \in Seq(Nat) /\ Len(t \o h) = Len(t) + Len(h)
    OBVIOUS
  <1>4. PICK u \in Seq(Nat) : u = t \o h /\ Len(u) = 2 + Len(h)
    BY <1>1, <1>3
  <1>5. u \o w \in Seq(Nat) /\ Len(u \o w) = Len(u) + Len(w)
    OBVIOUS
  <1>6. ASSUME NEW s \in Seq(Nat), NEW p \in Nat
        PROVE  Matches(s, p, u \o w) <=>
                   Matches(s, p, t) /\ Matches(s, p + 2, h) /\ Matches(s, p + 2 + Len(h), w)
    <2>1. Matches(s, p, u \o w) <=> Matches(s, p, u) /\ Matches(s, p + (2 + Len(h)), w)
      BY <1>4, MatchesJoin
    <2>2. Matches(s, p, t \o h) <=> Matches(s, p, t) /\ Matches(s, p + 2, h)
      BY <1>1, MatchesJoin
    <2> QED
      BY <2>1, <2>2, <1>4
  <1>7. Len(u \o w) = 4 + Len(h)
    <2>1. Len(u \o w) = (2 + Len(h)) + 2
      BY <1>1, <1>4, <1>5
    <2> QED
      BY <2>1, Len(h) \in Nat
  <1> QED
    BY <1>1, <1>2, <1>4, <1>5, <1>6, <1>7

\* and the payload.
LEMMA PayloadParts ==
    ASSUME NEW i, NEW u \in Seq(Nat), i.payload \in Seq(Nat), u = Upto(i, 4)
    PROVE  /\ Encode(i) \in Seq(Nat) /\ Len(Encode(i)) = Len(u) + 5 + Len(i.payload)
           /\ \A s \in Seq(Nat) :
                 Matches(s, 0, Encode(i)) <=>
                     /\ Matches(s, 0, u) /\ Matches(s, Len(u), <<Tags[5]>>)
                     /\ Matches(s, Len(u) + 1, Big32(Len(i.payload)))
                     /\ Matches(s, Len(u) + 5, i.payload)
  <1>1. PICK t \in Seq(Nat), w \in Seq(Nat), f \in Seq(Nat) :
            /\ t = <<Tags[5]>> /\ w = Big32(Len(i.payload)) /\ f = i.payload
            /\ Len(t) = 1 /\ Len(w) = 4
    <2>1. Tags[5] \in Nat
      BY TagsAssumption, BytesAreNumbers
    <2>2. <<Tags[5]>> \in Seq(Nat) /\ Len(<<Tags[5]>>) = 1
      BY <2>1
    <2>3. PICK f \in Seq(Nat) : f = i.payload
      OBVIOUS
    <2>4. Big32(Len(f)) \in Seq(Nat) /\ Len(Big32(Len(f))) = 4
      BY Number32, Len(f) \in Nat
    <2> QED
      BY <2>2, <2>3, <2>4
  <1>2. Encode(i) = u \o t \o w \o f
    BY <1>1 DEF Encode
  <1>3. u \o t \in Seq(Nat) /\ Len(u \o t) = Len(u) + Len(t)
    OBVIOUS
  <1>4. PICK v \in Seq(Nat) : v = u \o t /\ Len(v) = Len(u) + 1
    BY <1>1, <1>3
  <1>5. v \o w \in Seq(Nat) /\ Len(v \o w) = Len(v) + Len(w)
    OBVIOUS
  <1>6. PICK x \in Seq(Nat) : x = v \o w /\ Len(x) = Len(u) + 5
    <2>1. Len(v \o w) = (Len(u) + 1) + 4
      BY <1>1, <1>4, <1>5
    <2>2. Len(v \o w) = Len(u) + 5
      BY <2>1, Len(u) \in Nat
    <2> QED
      BY <2>2, <1>5
  <1>7. x \o f \in Seq(Nat) /\ Len(x \o f) = Len(x) + Len(f)
    OBVIOUS
  <1>8. ASSUME NEW s \in Seq(Nat)
        PROVE  Matches(s, 0, x \o f) <=>
                   /\ Matches(s, 0, u) /\ Matches(s, Len(u), t)
                   /\ Matches(s, Len(u) + 1, w) /\ Matches(s, Len(u) + 5, f)
    <2>1. Matches(s, 0, x \o f) <=> Matches(s, 0, x) /\ Matches(s, 0 + (Len(u) + 5), f)
      BY <1>6, MatchesJoin
    <2>2. Matches(s, 0, v \o w) <=> Matches(s, 0, v) /\ Matches(s, 0 + (Len(u) + 1), w)
      BY <1>4, MatchesJoin
    <2>3. Matches(s, 0, u \o t) <=> Matches(s, 0, u) /\ Matches(s, 0 + Len(u), t)
      BY MatchesJoin
    <2> QED
      BY <2>1, <2>2, <2>3, <1>4, <1>6
  <1> QED
    BY <1>1, <1>2, <1>4, <1>6, <1>7, <1>8

\* One field more is one entry more,
LEMMA UptoStep ==
    ASSUME NEW i, NEW n, Shaped(i, n)
    PROVE  /\ Upto(i, n) \in Seq(Nat)
           /\ n = 0 => Upto(i, n) = Start(i)
           /\ n > 0 => Upto(i, n) = Upto(i, n - 1) \o FieldOf(Tags[n], i.fields[n])
  <1> DEFINE G(k) == FieldOf(Tags[k], i.fields[k])
             F(m, k) == IF k <= m THEN G(k) ELSE <<>>
  <1>1. n \in 0 .. 4 /\ Start(i) \in Seq(Nat)
    BY StartParts, BytesAreNumbers DEF Shaped
  <1>2. \A k \in 1 .. n : G(k) \in Seq(Nat)
    <2> TAKE k \in 1 .. n
    <2>1. k \in 1 .. Len(i.fields) /\ k \in 1 .. 5
      BY DEF Shaped
    <2>2. Tags[k] \in Nat /\ i.fields[k] \in Seq(Nat)
      BY <2>1, TagsAssumption, BytesAreNumbers, ElementOfSeq DEF Shaped
    <2> QED
      BY <2>2, FieldParts
  <1> SUFFICES /\ Upto(i, n) \in Seq(Nat)
               /\ n = 0 => Upto(i, n) = Start(i)
               /\ n > 0 => Upto(i, n) = Upto(i, n - 1) \o G(n)
    OBVIOUS
  <1> HIDE DEF F, G
  <1>3. \A x \in Seq(Nat) : x \o <<>> = x
    BY ConcatEmptySeq
  <1>4. \A x \in Seq(Nat), y \in Seq(Nat) : x \o y \in Seq(Nat)
    OBVIOUS
  <1>5. PICK x0 \in Seq(Nat) : x0 = Start(i)
    BY <1>1
  <1>6. \A m \in 0 .. 4 : Upto(i, m) = x0 \o F(m, 1) \o F(m, 2) \o F(m, 3) \o F(m, 4)
    BY <1>5, Zenon DEF Upto, Start, F, G
  <1>7. CASE n = 0
    <2>1. F(0, 1) = <<>> /\ F(0, 2) = <<>> /\ F(0, 3) = <<>> /\ F(0, 4) = <<>>
      BY DEF F
    <2>2. Upto(i, 0) = x0
      BY <2>1, <1>6, <1>3, 0 \in 0 .. 4, Zenon
    <2> QED
      BY <2>2, <1>5, <1>7, ~ (0 > 0), Zenon
  <1>8. CASE n = 1
    <2>1. /\ F(1, 1) = G(1) /\ F(1, 2) = <<>> /\ F(1, 3) = <<>> /\ F(1, 4) = <<>>
          /\ F(0, 1) = <<>> /\ F(0, 2) = <<>> /\ F(0, 3) = <<>> /\ F(0, 4) = <<>>
      BY DEF F
    <2>2. G(1) \in Seq(Nat)
      BY <1>2, <1>8
    <2>3. PICK x1 \in Seq(Nat) : x1 = x0 \o G(1)
      BY <1>4, <2>2, Zenon
    <2>4. Upto(i, 0) = x0
      BY 0 \in 0 .. 4, <1>6, <1>3, <2>1, Zenon
    <2>5. Upto(i, 1) = x1
      BY 1 \in 0 .. 4, <1>6, <1>3, <2>1, <2>3, Zenon
    <2> QED
      BY <1>8, 1 # 0, 1 - 1 = 0, <2>3, <2>4, <2>5, Zenon
  <1>9. CASE n = 2
    <2>1. /\ F(2, 1) = G(1) /\ F(2, 2) = G(2) /\ F(2, 3) = <<>> /\ F(2, 4) = <<>>
          /\ F(1, 1) = G(1) /\ F(1, 2) = <<>> /\ F(1, 3) = <<>> /\ F(1, 4) = <<>>
      BY DEF F
    <2>2. G(1) \in Seq(Nat) /\ G(2) \in Seq(Nat)
      BY <1>2, <1>9
    <2>3. PICK x1 \in Seq(Nat) : x1 = x0 \o G(1)
      BY <1>4, <2>2, Zenon
    <2>4. PICK x2 \in Seq(Nat) : x2 = x1 \o G(2)
      BY <1>4, <2>2, Zenon
    <2>5. Upto(i, 1) = x1
      BY 1 \in 0 .. 4, <1>6, <1>3, <2>1, <2>3, Zenon
    <2>6. Upto(i, 2) = x2
      BY 2 \in 0 .. 4, <1>6, <1>3, <2>1, <2>3, <2>4, Zenon
    <2> QED
      BY <1>9, 2 # 0, 2 - 1 = 1, <2>4, <2>5, <2>6, Zenon
  <1>10. CASE n = 3
    <2>1. /\ F(3, 1) = G(1) /\ F(3, 2) = G(2) /\ F(3, 3) = G(3) /\ F(3, 4) = <<>>
          /\ F(2, 1) = G(1) /\ F(2, 2) = G(2) /\ F(2, 3) = <<>> /\ F(2, 4) = <<>>
      BY DEF F
    <2>2. G(1) \in Seq(Nat) /\ G(2) \in Seq(Nat) /\ G(3) \in Seq(Nat)
      BY <1>2, <1>10
    <2>3. PICK x1 \in Seq(Nat) : x1 = x0 \o G(1)
      BY <1>4, <2>2, Zenon
    <2>4. PICK x2 \in Seq(Nat) : x2 = x1 \o G(2)
      BY <1>4, <2>2, Zenon
    <2>5. PICK x3 \in Seq(Nat) : x3 = x2 \o G(3)
      BY <1>4, <2>2, Zenon
    <2>6. Upto(i, 2) = x2
      BY 2 \in 0 .. 4, <1>6, <1>3, <2>1, <2>3, <2>4, Zenon
    <2>7. Upto(i, 3) = x3
      BY 3 \in 0 .. 4, <1>6, <1>3, <2>1, <2>3, <2>4, <2>5, Zenon
    <2> QED
      BY <1>10, 3 # 0, 3 - 1 = 2, <2>5, <2>6, <2>7, Zenon
  <1>11. CASE n = 4
    <2>1. /\ F(4, 1) = G(1) /\ F(4, 2) = G(2) /\ F(4, 3) = G(3) /\ F(4, 4) = G(4)
          /\ F(3, 1) = G(1) /\ F(3, 2) = G(2) /\ F(3, 3) = G(3) /\ F(3, 4) = <<>>
      BY DEF F
    <2>2. G(1) \in Seq(Nat) /\ G(2) \in Seq(Nat) /\ G(3) \in Seq(Nat) /\ G(4) \in Seq(Nat)
      BY <1>2, <1>11
    <2>3. PICK x1 \in Seq(Nat) : x1 = x0 \o G(1)
      BY <1>4, <2>2, Zenon
    <2>4. PICK x2 \in Seq(Nat) : x2 = x1 \o G(2)
      BY <1>4, <2>2, Zenon
    <2>5. PICK x3 \in Seq(Nat) : x3 = x2 \o G(3)
      BY <1>4, <2>2, Zenon
    <2>6. PICK x4 \in Seq(Nat) : x4 = x3 \o G(4)
      BY <1>4, <2>2, Zenon
    <2>7. Upto(i, 3) = x3
      BY 3 \in 0 .. 4, <1>6, <1>3, <2>1, <2>3, <2>4, <2>5, Zenon
    <2>8. Upto(i, 4) = x4
      BY 4 \in 0 .. 4, <1>6, <1>3, <2>1, <2>3, <2>4, <2>5, <2>6, Zenon
    <2> QED
      BY <1>11, 4 # 0, 4 - 1 = 3, <2>6, <2>7, <2>8, Zenon
  <1>12. n = 0 \/ n = 1 \/ n = 2 \/ n = 3 \/ n = 4
    BY <1>1
  <1> QED
    BY <1>7, <1>8, <1>9, <1>10, <1>11, <1>12, Zenon

\* and depends on nothing behind it.
LEMMA UptoSame ==
    ASSUME NEW i, NEW j, NEW n \in 0 .. 4, i.header = j.header,
           \A k \in 1 .. n : i.fields[k] = j.fields[k]
    PROVE  Upto(i, n) = Upto(j, n)
  <1> DEFINE f(x, k) == IF k <= n THEN FieldOf(Tags[k], x.fields[k]) ELSE <<>>
  <1>1. \A k \in 1 .. 4 : f(i, k) = f(j, k)
    OBVIOUS
  <1>2. \A x : Upto(x, n) = Start(x) \o f(x, 1) \o f(x, 2) \o f(x, 3) \o f(x, 4)
    BY DEF Upto, Start
  <1>3. Start(i) = Start(j)
    BY DEF Start
  <1>4. f(i, 1) = f(j, 1) /\ f(i, 2) = f(j, 2) /\ f(i, 3) = f(j, 3) /\ f(i, 4) = f(j, 4)
    BY <1>1
  <1> HIDE DEF f
  <1> QED
    BY <1>2, <1>3, <1>4, Zenon

\* The place of a field in the file: of its tag.
Place(i, k) == Len(Upto(i, k - 1))

\* A file that matches the image up to a field matches it up to the last one.
LEMMA UptoMatches ==
    ASSUME NEW i, NEW n, Shaped(i, n), n > 0, NEW s \in Seq(Nat)
    PROVE  /\ Shaped(i, n - 1) /\ Place(i, n) \in Nat /\ Len(i.fields[n]) \in Nat
           /\ Place(i, n + 1) = Place(i, n) + 3 + Len(i.fields[n])
           /\ Matches(s, 0, Upto(i, n)) <=>
                  /\ Matches(s, 0, Upto(i, n - 1))
                  /\ Matches(s, Place(i, n), <<Tags[n]>>)
                  /\ Matches(s, Place(i, n) + 1, Big16(Len(i.fields[n])))
                  /\ Matches(s, Place(i, n) + 3, i.fields[n])
  <1>1. Shaped(i, n - 1) /\ n \in 1 .. 4 /\ n \in 1 .. Len(i.fields) /\ n \in 1 .. 5
        /\ (n + 1) - 1 = n
    BY DEF Shaped
  <1>2. PICK f \in Seq(Nat), tag \in Nat : f = i.fields[n] /\ tag = Tags[n]
    BY <1>1, TagsAssumption, BytesAreNumbers, ElementOfSeq DEF Shaped
  <1>3. PICK u \in Seq(Nat), v \in Seq(Nat) : u = Upto(i, n - 1) /\ v = FieldOf(tag, f)
    BY <1>1, <1>2, UptoStep, FieldParts
  <1>4. Upto(i, n) = u \o v
    BY <1>2, <1>3, UptoStep, Zenon
  <1>5. Len(v) = 3 + Len(f) /\ Len(u \o v) = Len(u) + Len(v)
    <2>1. Len(v) = 3 + Len(f)
      BY <1>3, FieldParts, Zenon
    <2>2. Len(u \o v) = Len(u) + Len(v)
      OBVIOUS
    <2> QED
      BY <2>1, <2>2
  <1>6. Matches(s, 0, u \o v) <=> Matches(s, 0, u) /\ Matches(s, 0 + Len(u), v)
    BY MatchesJoin
  <1>7. Matches(s, Len(u), v) <=>
            /\ Matches(s, Len(u), <<tag>>) /\ Matches(s, Len(u) + 1, Big16(Len(f)))
            /\ Matches(s, Len(u) + 3, f)
    BY <1>3, FieldParts, Len(u) \in Nat
  <1>8. Place(i, n) = Len(u) /\ Place(i, n + 1) = Len(u \o v)
    <2>1. Place(i, n) = Len(Upto(i, n - 1)) /\ Place(i, n + 1) = Len(Upto(i, (n + 1) - 1))
      BY Zenon DEF Place
    <2>2. Upto(i, (n + 1) - 1) = Upto(i, n)
      BY <1>1
    <2> QED
      BY <2>1, <2>2, <1>3, <1>4, Zenon
  <1>9. Place(i, n + 1) = Place(i, n) + 3 + Len(f)
    BY <1>5, <1>8, Len(u) \in Nat, Len(f) \in Nat
  <1>10. 0 + Len(u) = Len(u) /\ Len(u) \in Nat /\ Len(f) \in Nat
    OBVIOUS
  <1> QED
    BY <1>1, <1>2, <1>3, <1>4, <1>6, <1>7, <1>8, <1>9, <1>10, Zenon

\* What is where in a file that matches an image.
Laid(s, i) ==
    /\ Len(i.header) \in Nat /\ Place(i, 1) = 4 + Len(i.header)
    /\ Matches(s, 0, Big16(Len(i.header))) /\ Matches(s, 2, i.header)
    /\ Matches(s, 2 + Len(i.header), Big16(1))
    /\ \A k \in 1 .. 4 : /\ Place(i, k) \in Nat /\ Len(i.fields[k]) \in Nat
                         /\ Place(i, k + 1) = Place(i, k) + 3 + Len(i.fields[k])
                         /\ Matches(s, Place(i, k), <<Tags[k]>>)
                         /\ Matches(s, Place(i, k) + 1, Big16(Len(i.fields[k])))
    /\ Place(i, 5) \in Nat /\ Len(i.payload) \in Nat
    /\ Matches(s, Place(i, 5), <<Tags[5]>>)
    /\ Matches(s, Place(i, 5) + 1, Big32(Len(i.payload)))
    /\ Matches(s, Place(i, 5) + 5, i.payload)
    /\ Len(Encode(i)) = Place(i, 5) + 5 + Len(i.payload)

\* They are there.
LEMMA Layout ==
    ASSUME NEW s \in Seq(Nat), NEW i, Shaped(i, 4), i.payload \in Bytes,
           Matches(s, 0, Encode(i))
    PROVE  Laid(s, i)
  <1>1. PICK u \in Seq(Nat) : u = Upto(i, 4)
    BY UptoStep
  <1>2. /\ Len(Encode(i)) = Len(u) + 5 + Len(i.payload)
        /\ Matches(s, 0, u) /\ Matches(s, Len(u), <<Tags[5]>>)
        /\ Matches(s, Len(u) + 1, Big32(Len(i.payload)))
        /\ Matches(s, Len(u) + 5, i.payload)
    BY <1>1, PayloadParts, BytesAreNumbers
  <1>3. Place(i, 5) = Len(u) /\ Len(u) \in Nat
    BY <1>1, 5 - 1 = 4 DEF Place
  <1> DEFINE Good(k) ==
        /\ Place(i, k) \in Nat /\ Len(i.fields[k]) \in Nat
        /\ Place(i, k + 1) = Place(i, k) + 3 + Len(i.fields[k])
        /\ Matches(s, Place(i, k), <<Tags[k]>>)
        /\ Matches(s, Place(i, k) + 1, Big16(Len(i.fields[k])))
  <1>4. Shaped(i, 3) /\ Matches(s, 0, Upto(i, 3)) /\ Good(4)
    BY <1>1, <1>2, UptoMatches, 4 - 1 = 3, 4 > 0
  <1>5. Shaped(i, 2) /\ Matches(s, 0, Upto(i, 2)) /\ Good(3)
    BY <1>4, UptoMatches, 3 - 1 = 2, 3 > 0
  <1>6. Shaped(i, 1) /\ Matches(s, 0, Upto(i, 1)) /\ Good(2)
    BY <1>5, UptoMatches, 2 - 1 = 1, 2 > 0
  <1>7. Shaped(i, 0) /\ Matches(s, 0, Upto(i, 0)) /\ Good(1)
    BY <1>6, UptoMatches, 1 - 1 = 0, 1 > 0
  <1>8. Upto(i, 0) = Start(i) /\ i.header \in Seq(Nat) /\ i.payload \in Seq(Nat)
    BY <1>7, UptoStep, BytesAreNumbers DEF Shaped
  <1>9. /\ Matches(s, 0, Big16(Len(i.header))) /\ Matches(s, 0 + 2, i.header)
        /\ Matches(s, 0 + 2 + Len(i.header), Big16(1)) /\ Len(Start(i)) = 4 + Len(i.header)
    BY <1>7, <1>8, StartParts
  <1>10. Place(i, 1) = 4 + Len(i.header) /\ 0 + 2 = 2 /\ Len(i.header) \in Nat
         /\ Len(i.payload) \in Nat
    BY <1>8, <1>9, 1 - 1 = 0 DEF Place
  <1>11. \A k \in 1 .. 4 : Good(k)
    <2> HIDE DEF Good
    <2> QED
      BY <1>4, <1>5, <1>6, <1>7
  <1> QED
    BY <1>2, <1>3, <1>9, <1>10, <1>11, Zenon DEF Laid

-----------------------------------------------------------------------------
Reading == {"header", "marker", "tag", "field", "payload"}
Loading == {"loadHeader", "loadMarker", "loadField", "loadPayload", "done"}

\* The file and the reader, each within its range; validateBitImage never
\* passes the end.
ImageTypeOK ==
    /\ file \in Bytes /\ Len(file) < SizeMax
    /\ damage \in {"none", "cut", "longer", "altered"}
    /\ at \in Nat /\ field \in 1 .. 5
    /\ read \in [header : Bytes, fields : Seq(Bytes), payload : Bytes]
    /\ \/ stage \in Reading /\ valid = Unset /\ at <= Len(file)
       \/ stage \in Loading /\ valid \in BOOLEAN

\* Where validateBitImage is in the file of an image.
Along(i) ==
    /\ stage = "header"  => at = 0 /\ field = 1
    /\ stage = "marker"  => at = 2 + Len(i.header) /\ field = 1
    /\ stage = "tag"     => at = Place(i, field)
    /\ stage = "field"   => at = Place(i, field) + 1 /\ field < 5
    /\ stage = "payload" => at = Place(i, field) + 1 /\ field = 5

\* It has passed the bytes of what it has read, and no others.
ReadInv ==
    stage \in Reading =>
        /\ Along(read) /\ Len(read.fields) = field - 1
        /\ stage = "marker" => /\ Matches(file, 0, Big16(Len(read.header)))
                               /\ Matches(file, 2, read.header)
        /\ stage \in {"tag", "field", "payload"} => Matches(file, 0, Upto(read, field - 1))
        /\ stage \in {"field", "payload"} => Matches(file, Place(read, field), <<Tags[field]>>)
AcceptedInv == valid = TRUE => file = Encode(read) /\ Len(read.fields) = 4
ReaderInv == ImageTypeOK /\ ReadInv /\ AcceptedInv

\* A field with its length that fits, and what is read of it,
LEMMA FieldHere ==
    ASSUME ImageTypeOK, Fits(2)
    PROVE  /\ Value(2) \in Nat /\ at + 2 + Value(2) <= Len(file)
           /\ Slice(2, Value(2)) \in Bytes /\ Len(Slice(2, Value(2))) = Value(2)
           /\ Matches(file, at, Big16(Value(2))) /\ Matches(file, at + 2, Slice(2, Value(2)))
  <1>1. file \in Seq(Nat) /\ at \in Nat /\ Len(file) \in Nat /\ at + 2 <= Len(file)
    BY BytesAreNumbers DEF ImageTypeOK, Fits, Readable
  <1>2. PICK n \in Nat : n = Value(2) /\ Matches(file, at, Big16(n))
    <2>1. Value(2) = WordAt(file, at)
      BY DEF Value, Word, WordAt
    <2> QED
      BY <1>1, <2>1, Written16 DEF ImageTypeOK
  <1>3. Len(file) - (at + 2) \in Nat /\ (Len(file) - (at + 2)) % SizeMax = Len(file) - (at + 2)
    <2>1. Len(file) - (at + 2) \in Nat /\ Len(file) - (at + 2) < SizeMax
      BY <1>1, SizesAssumption DEF ImageTypeOK
    <2> QED
      BY <2>1, SmallModulo, SizesAssumption
  <1>4. at + 2 + n <= Len(file)
    BY <1>1, <1>2, <1>3 DEF Fits, Left
  <1>5. PICK p \in Nat :
            p = at + 2 /\ Slice(2, n) = SubSeq(file, p + 1, p + n) /\ p + n <= Len(file)
    BY <1>1, <1>4 DEF Slice
  <1>6. Len(Slice(2, n)) = n /\ Matches(file, at + 2, Slice(2, n))
    <2>1. /\ Len(SubSeq(file, p + 1, p + n)) = n
          /\ Matches(file, p, SubSeq(file, p + 1, p + n))
      BY <1>1, <1>5, MatchesPart
    <2> QED
      BY <2>1, <1>5, Zenon
  <1>7. Slice(2, n) \in Bytes
    BY <1>5, PartOfBytes DEF ImageTypeOK
  <1> QED
    BY <1>2, <1>4, <1>6, <1>7

\* and one that was written.
LEMMA FieldThere ==
    ASSUME ImageTypeOK, NEW n \in Nat, at + 2 <= Len(file), Matches(file, at, Big16(n))
    PROVE  Value(2) = n /\ (at + 2 + n <= Len(file) => Fits(2))
  <1>1. file \in Seq(Nat) /\ at \in Nat /\ Len(file) \in Nat
    BY BytesAreNumbers DEF ImageTypeOK
  <1>2. Value(2) = n
    <2>1. Value(2) = WordAt(file, at)
      BY DEF Value, Word, WordAt
    <2> QED
      BY <1>1, <2>1, Read16
  <1>3. Len(file) - (at + 2) \in Nat /\ (Len(file) - (at + 2)) % SizeMax = Len(file) - (at + 2)
    <2>1. Len(file) - (at + 2) \in Nat /\ Len(file) - (at + 2) < SizeMax
      BY <1>1, SizesAssumption DEF ImageTypeOK
    <2> QED
      BY <2>1, SmallModulo, SizesAssumption
  <1>4. at + 2 + n <= Len(file) => Fits(2)
    BY <1>1, <1>2, <1>3 DEF Fits, Left, Readable
  <1> QED
    BY <1>2, <1>4

\* The same of the payload.
LEMMA PayloadHere ==
    ASSUME ImageTypeOK, Readable(4)
    PROVE  /\ Value(4) \in Nat /\ Left(4) \in Nat /\ at + 4 + Left(4) = Len(file)
           /\ Matches(file, at, Big32(Value(4)))
           /\ at + 4 + Value(4) <= Len(file) =>
                 /\ Slice(4, Value(4)) \in Bytes /\ Len(Slice(4, Value(4))) = Value(4)
                 /\ Matches(file, at + 4, Slice(4, Value(4)))
  <1>1. file \in Seq(Nat) /\ at \in Nat /\ Len(file) \in Nat /\ at + 4 <= Len(file)
    BY BytesAreNumbers DEF ImageTypeOK, Readable
  <1>2. PICK n \in Nat : n = Value(4) /\ Matches(file, at, Big32(n))
    <2>1. Value(4) = WordAt(file, at) * (Radix * Radix) + WordAt(file, at + 2)
      <3>1. 4 # 2 /\ Word(at) = WordAt(file, at) /\ Word(at + 2) = WordAt(file, at + 2)
        BY DEF Word, WordAt
      <3> QED
        BY <3>1, Zenon DEF Value
    <2> QED
      BY <1>1, <2>1, Written32 DEF ImageTypeOK
  <1>3. Len(file) - (at + 4) \in Nat /\ (Len(file) - (at + 4)) % SizeMax = Len(file) - (at + 4)
    <2>1. Len(file) - (at + 4) \in Nat /\ Len(file) - (at + 4) < SizeMax
      BY <1>1, SizesAssumption DEF ImageTypeOK
    <2> QED
      BY <2>1, SmallModulo, SizesAssumption
  <1>4. Left(4) \in Nat /\ at + 4 + Left(4) = Len(file)
    BY <1>1, <1>3 DEF Left
  <1>5. PICK p \in Nat : p = at + 4 /\ Slice(4, n) = SubSeq(file, p + 1, p + n)
    BY <1>1 DEF Slice
  <1>6. ASSUME at + 4 + n <= Len(file)
        PROVE  Len(Slice(4, n)) = n /\ Matches(file, at + 4, Slice(4, n)) /\ Slice(4, n) \in Bytes
    <2>1. Len(Slice(4, n)) = n /\ Matches(file, at + 4, Slice(4, n))
      <3>1. /\ Len(SubSeq(file, p + 1, p + n)) = n
            /\ Matches(file, p, SubSeq(file, p + 1, p + n))
        BY <1>1, <1>5, <1>6, MatchesPart
      <3> QED
        BY <3>1, <1>5, Zenon
    <2>2. Slice(4, n) \in Bytes
      BY <1>5, <1>6, PartOfBytes DEF ImageTypeOK
    <2> QED
      BY <2>1, <2>2
  <1> QED
    BY <1>2, <1>4, <1>6

\* and one that was written.
LEMMA PayloadThere ==
    ASSUME ImageTypeOK, NEW f \in Bytes, at + 4 <= Len(file), Matches(file, at, Big32(Len(f))),
           Matches(file, at + 4, f)
    PROVE  /\ Readable(4) /\ Value(4) = Len(f) /\ at + 4 + Left(4) = Len(file) /\ Left(4) \in Nat
           /\ at + 4 + Len(f) <= Len(file) => Fits(4) /\ Slice(4, Value(4)) = f
  <1>1. file \in Seq(Nat) /\ at \in Nat /\ Len(file) \in Nat /\ f \in Seq(Nat)
    BY BytesAreNumbers DEF ImageTypeOK
  <1>2. Value(4) = Len(f)
    <2>1. Value(4) = WordAt(file, at) * (Radix * Radix) + WordAt(file, at + 2)
      <3>1. 4 # 2 /\ Word(at) = WordAt(file, at) /\ Word(at + 2) = WordAt(file, at + 2)
        BY DEF Word, WordAt
      <3> QED
        BY <3>1, Zenon DEF Value
    <2> QED
      BY <1>1, <2>1, Read32, Len(f) \in Nat
  <1>3. Readable(4) /\ at + 4 + Left(4) = Len(file) /\ Left(4) \in Nat
    BY PayloadHere DEF Readable
  <1>4. ASSUME at + 4 + Len(f) <= Len(file)
        PROVE  Fits(4) /\ Slice(4, Len(f)) = f
    <2>1. SubSeq(file, (at + 4) + 1, (at + 4) + Len(f)) = f
      BY <1>1, <1>4, MatchesUnique, at + 4 \in Nat
    <2>2. Len(f) <= Left(4)
      BY <1>1, <1>3, <1>4, Len(f) \in Nat
    <2> QED
      BY <1>2, <1>3, <2>1, <2>2 DEF Fits, Slice
  <1> QED
    BY <1>2, <1>3, <1>4

\* The file of an image is bytes, and fits.
LEMMA ImageFile ==
    ASSUME NEW i, IsImage(i)
    PROVE  /\ Shaped(i, 4) /\ i.payload \in Bytes /\ Len(i.payload) \in Nat \ {0}
           /\ Encode(i) \in Bytes /\ Len(Encode(i)) + 1 < SizeMax
  <1> DEFINE B == 0 .. Radix - 1
  <1>1. /\ i.header \in Seq(B) /\ Len(i.header) < Radix * Radix /\ i.fields \in Seq(Seq(B))
        /\ Len(i.fields) = 4 /\ \A k \in 1 .. 4 : Len(i.fields[k]) < Radix * Radix
        /\ i.payload \in Seq(B) /\ i.payload # <<>>
        /\ Len(i.payload) < Radix * Radix * (Radix * Radix) /\ Len(Encode(i)) + 1 < SizeMax
    BY DEF IsImage
  <1>2. Bytes = Seq(B)
    BY DEF Bytes
  <1>3. \A k \in 1 .. 5 : Tags[k] \in B
    BY TagsAssumption
  <1> HIDE DEF B
  <1>4. Shaped(i, 4)
    BY <1>1, <1>2 DEF Shaped
  <1>5. Len(i.payload) \in Nat \ {0}
    <2>1. PICK p \in Seq(B) : p = i.payload /\ p # <<>>
      BY <1>1
    <2> QED
      BY <2>1
  <1>6. \A x \in Seq(B), y \in Seq(B) : x \o y \in Seq(B)
    OBVIOUS
  <1>7. \A n \in Nat : /\ n < Radix * Radix => Big16(n) \in Seq(B)
                       /\ n < Radix * Radix * (Radix * Radix) => Big32(n) \in Seq(B)
    BY <1>2, Number16, Number32
  <1>8. Big16(Len(i.header)) \in Seq(B) /\ Big32(Len(i.payload)) \in Seq(B)
    BY <1>1, <1>5, <1>7, Len(i.header) \in Nat
  <1>9. Big16(1) \in Seq(B)
    BY <1>7, RadixAssumption, 1 < Radix * Radix
  <1>10. Start(i) \in Seq(B)
    BY <1>1, <1>6, <1>8, <1>9, Zenon DEF Start
  <1>11. \A k \in 1 .. 4 : FieldOf(Tags[k], i.fields[k]) \in Seq(B)
    <2> TAKE k \in 1 .. 4
    <2>1. i.fields[k] \in Seq(B) /\ Len(i.fields[k]) < Radix * Radix
      BY <1>1, ElementOfSeq
    <2>2. Big16(Len(i.fields[k])) \in Seq(B)
      BY <2>1, <1>7, Len(i.fields[k]) \in Nat
    <2>3. <<Tags[k]>> \in Seq(B)
      BY <1>3
    <2> QED
      BY <2>1, <2>2, <2>3, <1>6, Zenon DEF FieldOf
  <1>12. Shaped(i, 0) /\ Shaped(i, 1) /\ Shaped(i, 2) /\ Shaped(i, 3)
    BY <1>4 DEF Shaped
  <1>13. Upto(i, 0) \in Seq(B)
    BY <1>10, <1>12, UptoStep
  <1>14. Upto(i, 1) \in Seq(B)
    <2>1. Upto(i, 1) = Upto(i, 0) \o FieldOf(Tags[1], i.fields[1])
      BY <1>12, UptoStep, 1 > 0, 1 - 1 = 0
    <2> QED
      BY <2>1, <1>6, <1>11, <1>13, 1 \in 1 .. 4, Zenon
  <1>15. Upto(i, 2) \in Seq(B)
    <2>1. Upto(i, 2) = Upto(i, 1) \o FieldOf(Tags[2], i.fields[2])
      BY <1>12, UptoStep, 2 > 0, 2 - 1 = 1
    <2> QED
      BY <2>1, <1>6, <1>11, <1>14, 2 \in 1 .. 4, Zenon
  <1>16. Upto(i, 3) \in Seq(B)
    <2>1. Upto(i, 3) = Upto(i, 2) \o FieldOf(Tags[3], i.fields[3])
      BY <1>12, UptoStep, 3 > 0, 3 - 1 = 2
    <2> QED
      BY <2>1, <1>6, <1>11, <1>15, 3 \in 1 .. 4, Zenon
  <1>17. Upto(i, 4) \in Seq(B)
    <2>1. Upto(i, 4) = Upto(i, 3) \o FieldOf(Tags[4], i.fields[4])
      BY <1>4, UptoStep, 4 > 0, 4 - 1 = 3
    <2> QED
      BY <2>1, <1>6, <1>11, <1>16, 4 \in 1 .. 4, Zenon
  <1>18. <<Tags[5]>> \in Seq(B)
    BY <1>3
  <1>19. Encode(i) \in Seq(B)
    BY <1>1, <1>6, <1>8, <1>17, <1>18, Zenon DEF Encode
  <1> QED
    BY <1>1, <1>2, <1>4, <1>5, <1>19

\* What may have happened to it: JudgedInv says what the reader may meet.
Undamaged(i) ==
    /\ Matches(file, 0, Encode(i))
    /\ damage = "none"   => Len(file) = Len(Encode(i))
    /\ damage = "cut"    => Len(file) < Len(Encode(i))
    /\ damage = "longer" => Len(file) > Len(Encode(i))
JudgedInv ==
    /\ stage \in Reading /\ damage # "altered" => \E i \in Images : Undamaged(i) /\ Along(i)
    /\ UploadsAreJudged

\* A reader that starts has read nothing, of an image or what became of it.
LEMMA ImageInitKeeps == ImageInit => ReaderInv /\ JudgedInv
  <1> SUFFICES ASSUME ImageInit
               PROVE  ReaderInv /\ JudgedInv
    OBVIOUS
  <1>1. PICK i \in Images :
            \/ damage = "none" /\ file = Encode(i)
            \/ damage = "cut"  /\ file \in {SubSeq(Encode(i), 1, n) : n \in 0 .. Len(Encode(i)) - 1}
            \/ damage = "longer"  /\ file \in {Append(Encode(i), b) : b \in Byte}
            \/ damage = "altered" /\ file \in {[Encode(i) EXCEPT ![n] = b] :
                                                   n \in 1 .. Len(Encode(i)), b \in Byte}
    BY DEF ImageInit
  <1>2. PICK e \in Bytes : e = Encode(i) /\ Len(e) + 1 < SizeMax
    BY ImagesAssumption, ImageFile
  <1>3. e \in Seq(Nat) /\ Len(e) \in Nat /\ \A b \in Byte : b \in 0 .. Radix - 1
    BY BytesAreNumbers, RadixAssumption
  <1> DEFINE Case(d) ==
        /\ file \in Bytes /\ Len(file) < SizeMax /\ damage = d
        /\ d # "altered" => Matches(file, 0, e)
        /\ d = "none"   => Len(file) = Len(e)
        /\ d = "cut"    => Len(file) < Len(e)
        /\ d = "longer" => Len(file) > Len(e)
  <1>4. ASSUME damage = "none", file = e
        PROVE  Case("none")
    <2>1. Matches(e, 0, e)
      BY <1>3 DEF Matches
    <2> QED
      BY <2>1, <1>2, <1>3, <1>4, SizesAssumption
  <1>5. ASSUME damage = "cut", NEW n \in 0 .. Len(e) - 1, file = SubSeq(e, 1, n)
        PROVE  Case("cut")
    <2>1. n \in Nat /\ 0 + n <= Len(e) /\ 0 + 1 = 1 /\ 0 + n = n /\ n < Len(e)
      BY <1>3
    <2>2. file \in Bytes
      BY <1>5, <2>1, PartOfBytes
    <2>3. Len(file) = n /\ Matches(e, 0, file)
      <3>1. Len(SubSeq(e, 0 + 1, 0 + n)) = n /\ Matches(e, 0, SubSeq(e, 0 + 1, 0 + n))
        BY <1>3, <2>1, MatchesPart, 0 \in Nat, Zenon
      <3> QED
        BY <3>1, <2>1, <1>5, Zenon
    <2>4. Matches(file, 0, e)
      BY <2>1, <2>3, <1>3 DEF Matches
    <2> QED
      BY <2>1, <2>2, <2>3, <2>4, <1>2, <1>3, <1>5, SizesAssumption
  <1>6. ASSUME damage = "longer", NEW b \in Byte, file = Append(e, b)
        PROVE  Case("longer")
    <2>1. Append(e, b) \in Bytes /\ Len(Append(e, b)) = Len(e) + 1
          /\ \A n \in 1 .. Len(e) : Append(e, b)[n] = e[n]
      BY <1>3, AppendProperties DEF Bytes
    <2>2. Matches(Append(e, b), 0, e)
      BY <2>1, <1>3 DEF Matches
    <2> QED
      BY <2>1, <2>2, <1>2, <1>3, <1>6, SizesAssumption
  <1>7. ASSUME damage = "altered", NEW n \in 1 .. Len(e), NEW b \in Byte, file = [e EXCEPT ![n] = b]
        PROVE  Case("altered")
    <2>1. [e EXCEPT ![n] = b] \in Bytes /\ Len([e EXCEPT ![n] = b]) = Len(e)
      BY <1>3, ExceptSeq DEF Bytes
    <2> QED
      BY <2>1, <1>2, <1>3, <1>7, SizesAssumption
  <1>8. \E d \in {"none", "cut", "longer", "altered"} : Case(d)
    <2> HIDE DEF Case
    <2> QED
      BY <1>1, <1>2, <1>4, <1>5, <1>6, <1>7
  <1>9. ImageTypeOK
    <2>1. <<>> \in Bytes /\ <<>> \in Seq(Bytes)
      BY DEF Bytes
    <2>2. Len(file) \in Nat
      BY <1>8, BytesAreNumbers
    <2> QED
      BY <2>1, <2>2, <1>8 DEF ImageInit, ImageTypeOK, Reading
  <1>10. ReadInv
    BY DEF ImageInit, ReadInv, Along
  <1>11. AcceptedInv
    BY UnsetAssumption DEF ImageInit, AcceptedInv
  <1>12. damage # "altered" => Undamaged(i) /\ Along(i)
    BY <1>2, <1>8 DEF Undamaged, Along, ImageInit
  <1>13. JudgedInv
    BY <1>12 DEF JudgedInv, UploadsAreJudged, ImageInit
  <1> QED
    BY <1>9, <1>10, <1>11, <1>13 DEF ReaderInv

-----------------------------------------------------------------------------
\* With a verdict against the file the first reader is done;
LEMMA RejectReads ==
    ASSUME ReaderInv, stage \in Reading, Verdict(FALSE),
           file' = file, damage' = damage, field' = field, read' = read
    PROVE  ReaderInv'
  <1>1. stage' = "loadHeader" /\ at' = 0 /\ valid' = FALSE
    BY DEF Verdict
  <1>2. ImageTypeOK'
    BY <1>1 DEF ReaderInv, ImageTypeOK, Loading
  <1>3. ReadInv' /\ AcceptedInv'
    BY <1>1 DEF ReadInv, AcceptedInv, Reading
  <1> QED
    BY <1>2, <1>3 DEF ReaderInv

\* else it takes the header,
LEMMA HeaderReads == ReaderInv /\ Header => ReaderInv'
  <1> SUFFICES ASSUME ReaderInv, Header
               PROVE  ReaderInv'
    OBVIOUS
  <1>1. ImageTypeOK /\ at = 0 /\ field = 1 /\ read.fields = <<>>
        /\ file' = file /\ damage' = damage /\ field' = field /\ stage = "header" /\ valid = Unset
    <2>1. Len(read.fields) = 0 /\ read.fields \in Seq(Bytes)
      BY DEF ReaderInv, ReadInv, Along, Header, Reading, ImageTypeOK
    <2> QED
      BY <2>1 DEF ReaderInv, ReadInv, Along, Header, Reading, ImageTypeOK, Loading
  <1>2. CASE Fits(2)
    <2>1. PICK n \in Nat, h \in Bytes :
              /\ n = Value(2) /\ h = Slice(2, n) /\ Len(h) = n /\ at + 2 + n <= Len(file)
              /\ Matches(file, at, Big16(n)) /\ Matches(file, at + 2, h)
      BY <1>1, <1>2, FieldHere
    <2>2. stage' = "marker" /\ at' = 2 + n /\ valid' = Unset /\ read' = [read EXCEPT !.header = h]
      BY <1>1, <1>2, <2>1 DEF Header
    <2>3. read' \in [header : Bytes, fields : Seq(Bytes), payload : Bytes]
          /\ read'.header = h /\ read'.fields = <<>>
      BY <1>1, <2>2 DEF ImageTypeOK
    <2>4. ImageTypeOK'
      BY <1>1, <2>1, <2>2, <2>3 DEF ImageTypeOK, Reading
    <2>5. ReadInv'
      BY <1>1, <2>1, <2>2, <2>3 DEF ReadInv, Along, Reading
    <2> QED
      BY <2>2, <2>4, <2>5, UnsetAssumption DEF ReaderInv, AcceptedInv
  <1>3. CASE ~ Fits(2)
    <2>1. /\ Verdict(FALSE) /\ stage \in Reading
          /\ file' = file /\ damage' = damage /\ field' = field /\ read' = read
      BY <1>3 DEF Header, Reading
    <2> QED
      BY <2>1, RejectReads
  <1> QED
    BY <1>2, <1>3

\* the marker,
LEMMA MarkerReads == ReaderInv /\ Marker => ReaderInv'
  <1> SUFFICES ASSUME ReaderInv, Marker
               PROVE  ReaderInv'
    OBVIOUS
  <1>1. /\ ImageTypeOK /\ at = 2 + Len(read.header) /\ field = 1 /\ Len(read.fields) = 0
        /\ Matches(file, 0, Big16(Len(read.header))) /\ Matches(file, 2, read.header)
        /\ file' = file /\ damage' = damage /\ field' = field /\ read' = read
        /\ stage = "marker" /\ valid = Unset
    BY DEF ReaderInv, ReadInv, Along, Marker, Reading, ImageTypeOK, Loading
  <1>2. CASE Readable(2) /\ Value(2) = 1
    <2>1. stage' = "tag" /\ at' = at + 2 /\ valid' = Unset /\ at + 2 <= Len(file)
      BY <1>1, <1>2 DEF Marker, Readable
    <2>2. Matches(file, 2 + Len(read.header), Big16(1))
      <3>1. Value(2) = WordAt(file, at)
        BY DEF Value, Word, WordAt
      <3> QED
        BY <1>1, <1>2, <2>1, <3>1, Written16 DEF ImageTypeOK
    <2>3. Shaped(read, 0) /\ read.header \in Seq(Nat) /\ file \in Seq(Nat)
      BY <1>1, BytesAreNumbers DEF Shaped, ImageTypeOK
    <2>4. Upto(read, 0) = Start(read)
      BY <2>3, UptoStep
    <2>5. Matches(file, 0, Start(read)) /\ Len(Start(read)) = 4 + Len(read.header)
      <3>1. Matches(file, 0 + 2, read.header) /\ Matches(file, 0 + 2 + Len(read.header), Big16(1))
        BY <1>1, <2>2
      <3> QED
        BY <1>1, <2>3, <3>1, StartParts, 0 \in Nat
    <2>6. Place(read, 1) = 4 + Len(read.header)
      BY <2>4, <2>5, 1 - 1 = 0 DEF Place
    <2>7. ImageTypeOK'
      BY <1>1, <2>1 DEF ImageTypeOK, Reading
    <2>8. at' = Place(read, 1)
      BY <1>1, <2>1, <2>3, <2>6, Len(read.header) \in Nat
    <2>9. ReadInv'
      BY <1>1, <2>1, <2>4, <2>5, <2>8, 1 - 1 = 0 DEF ReadInv, Along, Reading, Place
    <2> QED
      BY <2>1, <2>7, <2>9, UnsetAssumption DEF ReaderInv, AcceptedInv
  <1>3. CASE ~ (Readable(2) /\ Value(2) = 1)
    <2>1. /\ Verdict(FALSE) /\ stage \in Reading
          /\ file' = file /\ damage' = damage /\ field' = field /\ read' = read
      BY <1>3 DEF Marker, Reading
    <2> QED
      BY <2>1, RejectReads
  <1> QED
    BY <1>2, <1>3

\* a tag,
LEMMA TagReads == ReaderInv /\ Tag => ReaderInv'
  <1> SUFFICES ASSUME ReaderInv, Tag
               PROVE  ReaderInv'
    OBVIOUS
  <1>1. /\ ImageTypeOK /\ at = Place(read, field) /\ Len(read.fields) = field - 1
        /\ Matches(file, 0, Upto(read, field - 1)) /\ at <= Len(file)
        /\ file' = file /\ damage' = damage /\ field' = field /\ read' = read
        /\ stage = "tag" /\ valid = Unset
    BY DEF ReaderInv, ReadInv, Along, Tag, Reading, ImageTypeOK, Loading
  <1>2. CASE at # Len(file) /\ file[at + 1] = Tags[field]
    <2>1. stage' = (IF field = 5 THEN "payload" ELSE "field") /\ at' = at + 1 /\ valid' = Unset
      BY <1>1, <1>2 DEF Tag
    <2>2. at' <= Len(file) /\ at' \in Nat /\ field \in 1 .. 5
      BY <1>1, <1>2, <2>1, BytesAreNumbers DEF ImageTypeOK
    <2>3. Matches(file, Place(read, field), <<Tags[field]>>)
      BY <1>1, <1>2 DEF Matches
    <2>4. ImageTypeOK'
      BY <1>1, <2>1, <2>2 DEF ImageTypeOK, Reading
    <2>5. ReadInv'
      BY <1>1, <2>1, <2>2, <2>3 DEF ReadInv, Along, Reading, Place
    <2> QED
      BY <2>1, <2>4, <2>5, UnsetAssumption DEF ReaderInv, AcceptedInv
  <1>3. CASE ~ (at # Len(file) /\ file[at + 1] = Tags[field])
    <2>1. /\ Verdict(FALSE) /\ stage \in Reading
          /\ file' = file /\ damage' = damage /\ field' = field /\ read' = read
      BY <1>3 DEF Tag, Reading
    <2> QED
      BY <2>1, RejectReads
  <1> QED
    BY <1>2, <1>3

\* a field
LEMMA FieldReads == ReaderInv /\ Field => ReaderInv'
  <1> SUFFICES ASSUME ReaderInv, Field
               PROVE  ReaderInv'
    OBVIOUS
  <1>1. /\ ImageTypeOK /\ at = Place(read, field) + 1 /\ Len(read.fields) = field - 1
        /\ Matches(file, 0, Upto(read, field - 1))
        /\ Matches(file, Place(read, field), <<Tags[field]>>)
        /\ file' = file /\ damage' = damage /\ field \in 1 .. 4
        /\ stage = "field" /\ valid = Unset
    BY DEF ReaderInv, ReadInv, Along, Field, Reading, ImageTypeOK, Loading
  <1>2. CASE Fits(2)
    <2>1. PICK n \in Nat, f \in Bytes :
              /\ n = Value(2) /\ f = Slice(2, n) /\ Len(f) = n /\ at + 2 + n <= Len(file)
              /\ Matches(file, at, Big16(n)) /\ Matches(file, at + 2, f)
      BY <1>1, <1>2, FieldHere
    <2>2. /\ stage' = "tag" /\ at' = at + 2 + n /\ valid' = Unset /\ field' = field + 1
          /\ read' = [read EXCEPT !.fields = Append(read.fields, f)]
      BY <1>1, <1>2, <2>1 DEF Field
    <2>3. PICK g \in Seq(Bytes) : g = Append(read.fields, f) /\ Len(g) = field /\ g[field] = f
                                 /\ \A k \in 1 .. field - 1 : g[k] = read.fields[k]
      <3>1. read.fields \in Seq(Bytes)
        BY <1>1 DEF ImageTypeOK
      <3> QED
        <4>1. PICK r \in Seq(Bytes) : r = read.fields
          BY <3>1
        <4>2. /\ Append(r, f) \in Seq(Bytes) /\ Len(Append(r, f)) = Len(r) + 1
              /\ \A k \in 1 .. Len(r) : Append(r, f)[k] = r[k]
              /\ Append(r, f)[Len(r) + 1] = f
          BY AppendProperties
        <4>3. Len(r) = field - 1 /\ Len(r) + 1 = field
          BY <1>1, <4>1
        <4> QED
          BY <4>1, <4>2, <4>3, Zenon
    <2>4. read' \in [header : Bytes, fields : Seq(Bytes), payload : Bytes]
          /\ read'.header = read.header /\ read'.fields = g
      BY <1>1, <2>2, <2>3 DEF ImageTypeOK
    <2>5. Shaped(read', field)
      BY <1>1, <2>3, <2>4 DEF Shaped
    <2>6. Upto(read', field - 1) = Upto(read, field - 1)
      BY <1>1, <2>3, <2>4, UptoSame, field - 1 \in 0 .. 4
    <2>7. Place(read', field) = Place(read, field)
      BY <2>6 DEF Place
    <2>8. PICK p \in Nat : p = Place(read', field) /\ at = p + 1 /\ at + 2 = p + 3
      <3>1. Place(read', field) \in Nat
        <4>1. file \in Seq(Nat) /\ field > 0
          BY <1>1, BytesAreNumbers DEF ImageTypeOK
        <4> QED
          BY <4>1, <2>5, UptoMatches
      <3> QED
        BY <1>1, <2>7, <3>1
    <2>9. Matches(file, 0, Upto(read', field)) /\ Place(read', field + 1) = p + 3 + n
      <3>1. file \in Seq(Nat) /\ field > 0
        BY <1>1, BytesAreNumbers DEF ImageTypeOK
      <3>2. /\ Matches(file, 0, Upto(read', field - 1)) /\ Matches(file, p, <<Tags[field]>>)
            /\ Matches(file, p + 1, Big16(n)) /\ Matches(file, p + 3, f)
        BY <1>1, <2>1, <2>6, <2>7, <2>8
      <3>3. read'.fields[field] = f /\ Len(f) = n
        BY <2>1, <2>3, <2>4
      <3> QED
        BY <2>5, <2>8, <3>1, <3>2, <3>3, UptoMatches
    <2>10. (field + 1) - 1 = field /\ field + 1 \in 2 .. 5 /\ at' = p + 3 + n /\ at' \in Nat
      BY <1>1, <2>1, <2>2, <2>8
    <2>11. ImageTypeOK'
      BY <1>1, <2>1, <2>2, <2>4, <2>10 DEF ImageTypeOK, Reading
    <2>12. ReadInv'
      BY <1>1, <2>2, <2>3, <2>4, <2>9, <2>10 DEF ReadInv, Along, Reading
    <2> QED
      BY <2>2, <2>11, <2>12, UnsetAssumption DEF ReaderInv, AcceptedInv
  <1>3. CASE ~ Fits(2)
    <2>1. /\ Verdict(FALSE) /\ stage \in Reading
          /\ file' = file /\ damage' = damage /\ field' = field /\ read' = read
      BY <1>3 DEF Field, Reading
    <2> QED
      BY <2>1, RejectReads
  <1> QED
    BY <1>2, <1>3

\* or the payload, and what it has read is the file so far.
LEMMA PayloadReads == ReaderInv /\ Payload => ReaderInv'
  <1> SUFFICES ASSUME ReaderInv, Payload
               PROVE  ReaderInv'
    OBVIOUS
  <1>1. /\ ImageTypeOK /\ field = 5 /\ at = Place(read, 5) + 1 /\ Len(read.fields) = 4
        /\ Matches(file, 0, Upto(read, 4)) /\ Matches(file, Place(read, 5), <<Tags[5]>>)
        /\ file' = file /\ damage' = damage /\ field' = field /\ stage = "payload" /\ valid = Unset
    BY 5 - 1 = 4 DEF ReaderInv, ReadInv, Along, Payload, Reading, ImageTypeOK, Loading
  <1>2. CASE Complete
    <2>1. PICK n \in Nat, f \in Bytes :
              /\ n = Value(4) /\ f = Slice(4, n) /\ Len(f) = n /\ at + 4 + n = Len(file)
              /\ Matches(file, at, Big32(n)) /\ Matches(file, at + 4, f)
      <3>1. Readable(4) /\ Value(4) = Left(4)
        BY <1>2 DEF Complete
      <3> QED
        BY <1>1, <3>1, PayloadHere, BytesAreNumbers DEF ImageTypeOK
    <2>2. /\ stage' = "loadHeader" /\ at' = 0 /\ valid' = TRUE
          /\ read' = [read EXCEPT !.payload = f]
      BY <1>1, <1>2, <2>1 DEF Payload, Verdict
    <2>3. read' \in [header : Bytes, fields : Seq(Bytes), payload : Bytes]
          /\ read'.header = read.header /\ read'.fields = read.fields /\ read'.payload = f
      BY <1>1, <2>2 DEF ImageTypeOK
    <2>4. Upto(read', 4) = Upto(read, 4) /\ Shaped(read', 4)
      <3>1. Upto(read', 4) = Upto(read, 4)
        BY <2>3, UptoSame, 4 \in 0 .. 4, Zenon
      <3>2. read'.fields \in Seq(Bytes) /\ read'.header \in Bytes
        BY <2>3
      <3>3. 4 <= Len(read'.fields)
        <4>1. Len(read'.fields) = 4
          BY <1>1, <2>3, Zenon
        <4> QED
          BY <4>1
      <3> QED
        BY <3>1, <3>2, <3>3 DEF Shaped
    <2>5. PICK u \in Seq(Nat) : u = Upto(read', 4) /\ Len(u) = Place(read, 5) /\ Len(u) \in Nat
      BY <2>4, UptoStep, 5 - 1 = 4 DEF Place
    <2>6. file \in Seq(Nat) /\ f \in Seq(Nat) /\ at = Len(u) + 1 /\ at + 4 = Len(u) + 5
      BY <1>1, <2>5, BytesAreNumbers DEF ImageTypeOK
    <2>7. /\ Matches(file, 0, Encode(read')) /\ Encode(read') \in Seq(Nat)
          /\ Len(Encode(read')) = Len(u) + 5 + n
      BY <1>1, <2>1, <2>3, <2>4, <2>5, <2>6, PayloadParts
    <2>8. file = Encode(read')
      BY <2>1, <2>6, <2>7, MatchesAll
    <2>9. ImageTypeOK'
      BY <1>1, <2>2, <2>3 DEF ImageTypeOK, Loading
    <2>10. AcceptedInv'
      BY <1>1, <2>3, <2>8 DEF AcceptedInv
    <2> QED
      BY <2>2, <2>9, <2>10 DEF ReaderInv, ReadInv, Reading
  <1>3. CASE ~ Complete
    <2>1. /\ Verdict(FALSE) /\ stage \in Reading
          /\ file' = file /\ damage' = damage /\ field' = field /\ read' = read
      <3>1. Complete = FALSE
        BY <1>3 DEF Complete
      <3> QED
        BY <3>1 DEF Payload, Reading
    <2> QED
      BY <2>1, RejectReads
  <1> QED
    BY <1>2, <1>3

\* loadImage changes neither the file nor what the first reader made of it.
LEMMA LoadReads ==
    ASSUME ReaderInv, stage \in Loading \ {"done"}, Keep, stage' \in Loading, at' \in Nat
    PROVE  ReaderInv'
  <1>1. ImageTypeOK'
    BY DEF ReaderInv, ImageTypeOK, Keep, Loading, Reading
  <1>2. ReadInv' /\ AcceptedInv'
    BY DEF ReaderInv, ReadInv, AcceptedInv, Keep, Loading, Reading
  <1> QED
    BY <1>1, <1>2 DEF ReaderInv

\* The words that loadImage reads are numbers.
LEMMA WordHere ==
    ASSUME ImageTypeOK, NEW p \in Nat, p + 2 <= Len(file)
    PROVE  Word(p) \in Nat
  <1>1. Word(p) = WordAt(file, p)
    BY DEF Word, WordAt
  <1> QED
    BY <1>1, Written16 DEF ImageTypeOK

\* So every step keeps what has been read the beginning of the file.
LEMMA ReaderStep == ReaderInv /\ [ImageStep]_ivars => ReaderInv'
  <1> SUFFICES ASSUME ReaderInv, [ImageStep]_ivars
               PROVE  ReaderInv'
    OBVIOUS
  <1>1. ImageTypeOK /\ at \in Nat /\ Len(file) \in Nat
    BY BytesAreNumbers DEF ReaderInv, ImageTypeOK
  <1>2. CASE LoadHeader
    <2>1. Readable(2) => Value(2) \in Nat
      BY <1>1, WordHere DEF Readable, Value
    <2>2. stage \in Loading \ {"done"} /\ Keep /\ stage' \in Loading /\ at' \in Nat
      BY <1>1, <1>2, <2>1 DEF LoadHeader, Throw, Loading
    <2> QED
      BY <2>2, LoadReads
  <1>3. CASE LoadMarker
    <2>1. stage \in Loading \ {"done"} /\ Keep /\ stage' \in Loading /\ at' \in Nat
      BY <1>1, <1>3 DEF LoadMarker, Throw, Loading
    <2> QED
      BY <2>1, LoadReads
  <1>4. CASE LoadField
    <2>1. at + 3 <= Len(file) => Word(at + 1) \in Nat
      BY <1>1, WordHere, at + 1 \in Nat, (at + 1) + 2 = at + 3
    <2>2. stage \in Loading \ {"done"} /\ Keep /\ stage' \in Loading /\ at' \in Nat
      BY <1>1, <1>4, <2>1 DEF LoadField, Metadata, Throw, Loading
    <2> QED
      BY <2>2, LoadReads
  <1>5. CASE LoadTag
    <2>1. stage \in Loading \ {"done"} /\ Keep /\ stage' \in Loading /\ at' \in Nat
      BY <1>1, <1>5 DEF LoadTag, Loading
    <2> QED
      BY <2>1, LoadReads
  <1>6. CASE LoadEnd
    <2>1. stage \in Loading \ {"done"} /\ Keep /\ stage' \in Loading /\ at' \in Nat
      BY <1>1, <1>6 DEF LoadEnd, Throw, Loading
    <2> QED
      BY <2>1, LoadReads
  <1>7. CASE LoadPayload
    <2>1. stage \in Loading \ {"done"} /\ Keep /\ stage' \in Loading /\ at' \in Nat
      BY <1>1, <1>7 DEF LoadPayload, Throw, Loading
    <2> QED
      BY <2>1, LoadReads
  <1>8. CASE UNCHANGED ivars
    BY <1>8 DEF ivars, ReaderInv, ImageTypeOK, ReadInv, AcceptedInv, Along
  <1> QED
    BY <1>2, <1>3, <1>4, <1>5, <1>6, <1>7, <1>8,
       HeaderReads, MarkerReads, TagReads, FieldReads, PayloadReads DEF ImageStep

\* Of every file, undamaged or not, what is accepted is what was read, byte
\* for byte: whatever the sizes and however many images.
THEOREM AcceptedWhole == ImageSpec => []AcceptedIsWhole
  <1>1. ReaderInv => AcceptedIsWhole
    BY DEF ReaderInv, AcceptedInv, AcceptedIsWhole
  <1> QED
    BY <1>1, ImageInitKeeps, ReaderStep, PTL DEF ImageSpec

-----------------------------------------------------------------------------
\* The places of an image are one after the other.
LEMMA PlacesGrow ==
    ASSUME NEW s, NEW i, Laid(s, i), NEW k \in 1 .. 4
    PROVE  Place(i, k) \in Nat /\ Place(i, k + 1) \in Nat /\ Place(i, k + 1) <= Place(i, 5)
  <1>1. \A n \in 1 .. 4 : /\ Place(i, n) \in Nat /\ Place(i, n + 1) \in Nat
                          /\ Place(i, n) <= Place(i, n + 1)
    <2> TAKE n \in 1 .. 4
    <2>1. PICK p \in Nat, l \in Nat :
              p = Place(i, n) /\ l = Len(i.fields[n]) /\ Place(i, n + 1) = p + 3 + l
      BY DEF Laid
    <2> QED
      BY <2>1
  <1>2. PICK a \in Nat, b \in Nat, c \in Nat, d \in Nat :
            /\ a = Place(i, 2) /\ b = Place(i, 3) /\ c = Place(i, 4) /\ d = Place(i, 5)
            /\ a <= b /\ b <= c /\ c <= d
    BY <1>1, 1 + 1 = 2, 2 + 1 = 3, 3 + 1 = 4, 4 + 1 = 5
  <1>3. k = 1 \/ k = 2 \/ k = 3 \/ k = 4
    OBVIOUS
  <1>4. CASE k = 1
    BY <1>1, <1>2, <1>4
  <1>5. CASE k = 2
    BY <1>1, <1>2, <1>5
  <1>6. CASE k = 3
    BY <1>1, <1>2, <1>6
  <1>7. CASE k = 4
    BY <1>1, <1>2, <1>7
  <1> QED
    BY <1>3, <1>4, <1>5, <1>6, <1>7

\* The image behind the file, and where validateBitImage is in it.
Followed(i) ==
    /\ ImageTypeOK /\ stage \in Reading /\ damage # "altered"
    /\ Undamaged(i) /\ Along(i) /\ Laid(file, i) /\ Len(i.payload) \in Nat \ {0}
    /\ i.payload \in Bytes

\* A verdict,
LEMMA RejectJudged ==
    ASSUME valid' = FALSE, stage' \notin Reading, damage' = damage, damage # "none"
    PROVE  JudgedInv'
  BY DEF JudgedInv, UploadsAreJudged

\* or the next place in the same image:
LEMMA OnJudged ==
    ASSUME NEW i \in Images, Undamaged(i), Along(i)', valid' = Unset,
           file' = file, damage' = damage
    PROVE  JudgedInv'
  <1>1. Undamaged(i)'
    BY DEF Undamaged
  <1> QED
    BY <1>1 DEF JudgedInv, UploadsAreJudged

\* at the header,
LEMMA HeaderJudged ==
    ASSUME NEW i \in Images, Followed(i), Header
    PROVE  JudgedInv'
  <1>1. PICK n \in Nat, e \in Nat, l \in Nat :
            /\ n = Len(i.header) /\ e = Len(Encode(i)) /\ l = Len(file)
            /\ 4 + n <= e /\ at = 0 /\ Matches(file, 0, Big16(n)) /\ (damage = "none" => l = e)
    <2>1. PICK p \in Nat : p = Place(i, 5) /\ 4 + Len(i.header) <= p
      <3>1. Place(i, 1) = 4 + Len(i.header) /\ Place(i, 1 + 1) <= Place(i, 5) /\ Place(i, 1) \in Nat
            /\ Place(i, 1 + 1) = Place(i, 1) + 3 + Len(i.fields[1]) /\ Len(i.fields[1]) \in Nat
            /\ Place(i, 5) \in Nat /\ Len(i.header) \in Nat
        BY PlacesGrow, 1 \in 1 .. 4 DEF Followed, Laid
      <3> QED
        BY <3>1
    <2>2. Len(Encode(i)) = p + 5 + Len(i.payload) /\ Len(i.header) \in Nat /\ Len(i.payload) \in Nat
          /\ Len(file) \in Nat
      BY <2>1, BytesAreNumbers DEF Followed, Laid, ImageTypeOK
    <2>3. at = 0 /\ Matches(file, 0, Big16(Len(i.header)))
          /\ (damage = "none" => Len(file) = Len(Encode(i)))
      BY DEF Followed, Along, Header, Laid, Undamaged
    <2> QED
      BY <2>1, <2>2, <2>3
  <1>2. at + 2 <= Len(file) => Value(2) = n /\ (at + 2 + n <= Len(file) => Fits(2))
    BY <1>1, FieldThere DEF Followed
  <1>3. CASE Fits(2)
    <2>1. Value(2) = n
      BY <1>2, <1>3 DEF Fits, Readable
    <2>2. stage' = "marker" /\ at' = 2 + n /\ valid' = Unset /\ field' = 1
          /\ file' = file /\ damage' = damage
      BY <1>1, <1>3, <2>1 DEF Header, Followed, Along, ImageTypeOK, Reading, Loading
    <2>3. Along(i)'
      BY <1>1, <2>2 DEF Along
    <2> QED
      BY <2>2, <2>3, OnJudged DEF Followed
  <1>4. CASE ~ Fits(2)
    <2>1. damage # "none"
      BY <1>1, <1>2, <1>4
    <2> QED
      BY <1>4, <2>1, RejectJudged DEF Header, Verdict, Reading
  <1> QED
    BY <1>3, <1>4

\* the marker,
LEMMA MarkerJudged ==
    ASSUME NEW i \in Images, Followed(i), Marker
    PROVE  JudgedInv'
  <1>1. PICK n \in Nat, e \in Nat, l \in Nat :
            /\ n = Len(i.header) /\ e = Len(Encode(i)) /\ l = Len(file) /\ 4 + n <= e
            /\ at = 2 + n /\ field = 1 /\ Matches(file, at, Big16(1)) /\ (damage = "none" => l = e)
            /\ Place(i, 1) = 4 + n
    <2>1. PICK p \in Nat : p = Place(i, 5) /\ 4 + Len(i.header) <= p
      <3>1. Place(i, 1) = 4 + Len(i.header) /\ Place(i, 1 + 1) <= Place(i, 5) /\ Place(i, 1) \in Nat
            /\ Place(i, 1 + 1) = Place(i, 1) + 3 + Len(i.fields[1]) /\ Len(i.fields[1]) \in Nat
            /\ Place(i, 5) \in Nat /\ Len(i.header) \in Nat
        BY PlacesGrow, 1 \in 1 .. 4 DEF Followed, Laid
      <3> QED
        BY <3>1
    <2>2. PICK n \in Nat, m \in Nat, l \in Nat : /\ n = Len(i.header) /\ m = Len(i.payload)
                                              /\ l = Len(file) /\ Len(Encode(i)) = p + 5 + m
      <3>1. /\ Len(i.header) \in Nat /\ Len(i.payload) \in Nat /\ Len(file) \in Nat
            /\ Len(Encode(i)) = Place(i, 5) + 5 + Len(i.payload)
        BY BytesAreNumbers DEF Followed, Laid, ImageTypeOK
      <3> QED
        BY <2>1, <3>1, Zenon
    <2>3. at = 2 + Len(i.header) /\ field = 1 /\ Matches(file, 2 + Len(i.header), Big16(1))
          /\ (damage = "none" => Len(file) = Len(Encode(i))) /\ Place(i, 1) = 4 + Len(i.header)
      BY DEF Followed, Along, Marker, Laid, Undamaged
    <2>4. Matches(file, at, Big16(1))
      BY <2>3, Zenon
    <2>5. p + 5 + m \in Nat /\ 4 + n <= p + 5 + m
      BY <2>1, <2>2
    <2> QED
      BY <2>2, <2>3, <2>4, <2>5
  <1>2. at + 2 <= Len(file) => Value(2) = 1
    BY <1>1, FieldThere DEF Followed
  <1>3. CASE Readable(2) /\ Value(2) = 1
    <2>1. stage' = "tag" /\ at' = at + 2 /\ valid' = Unset /\ field' = 1
          /\ file' = file /\ damage' = damage
      BY <1>1, <1>3 DEF Marker, Followed, ImageTypeOK, Reading, Loading
    <2>2. Along(i)'
      BY <1>1, <2>1 DEF Along, Place
    <2> QED
      BY <2>1, <2>2, OnJudged DEF Followed
  <1>4. CASE ~ (Readable(2) /\ Value(2) = 1)
    <2>1. damage # "none"
      BY <1>1, <1>2, <1>4 DEF Readable
    <2> QED
      BY <1>4, <2>1, RejectJudged DEF Marker, Verdict, Reading
  <1> QED
    BY <1>3, <1>4

\* a tag,
LEMMA TagJudged ==
    ASSUME NEW i \in Images, Followed(i), Tag
    PROVE  JudgedInv'
  <1>1. /\ field \in 1 .. 5 /\ at = Place(i, field) /\ Matches(file, at, <<Tags[field]>>)
        /\ at \in Nat /\ at < Len(Encode(i)) /\ Len(Encode(i)) \in Nat /\ Len(file) \in Nat
        /\ at <= Len(file) /\ (damage = "none" => Len(file) = Len(Encode(i)))
    <2>1. field \in 1 .. 5 /\ at = Place(i, field) /\ at \in Nat /\ Len(file) \in Nat
          /\ at <= Len(file) /\ (damage = "none" => Len(file) = Len(Encode(i)))
      BY BytesAreNumbers DEF Followed, ImageTypeOK, Along, Tag, Undamaged, Loading, Reading
    <2>2. PICK p \in Nat, m \in Nat : /\ p = Place(i, 5) /\ m = Len(i.payload)
                                    /\ Len(Encode(i)) = p + 5 + m
      BY DEF Followed, Laid
    <2>3. CASE field = 5
      <3>1. at = p /\ Matches(file, at, <<Tags[field]>>)
        BY <2>1, <2>2, <2>3 DEF Followed, Laid
      <3>2. p < p + 5 + m /\ p + 5 + m \in Nat
        OBVIOUS
      <3> QED
        BY <2>1, <2>2, <3>1, <3>2
    <2>4. CASE field \in 1 .. 4
      <3>1. PICK q \in Nat, l \in Nat : /\ q = Place(i, field) /\ l = Len(i.fields[field])
                                      /\ Place(i, field + 1) = q + 3 + l
                                      /\ Matches(file, q, <<Tags[field]>>)
        BY <2>4 DEF Followed, Laid
      <3>2. q + 3 + l <= p
        BY <2>2, <2>4, <3>1, PlacesGrow DEF Followed
      <3>3. q < p + 5 + m /\ p + 5 + m \in Nat
        BY <3>2
      <3> QED
        BY <2>1, <2>2, <3>1, <3>3
    <2> QED
      BY <2>1, <2>3, <2>4
  <1>2. at # Len(file) => file[at + 1] = Tags[field]
    BY <1>1 DEF Matches
  <1>3. CASE at # Len(file) /\ file[at + 1] = Tags[field]
    <2>1. /\ stage' = (IF field = 5 THEN "payload" ELSE "field") /\ at' = at + 1 /\ valid' = Unset
          /\ field' = field /\ file' = file /\ damage' = damage
      BY <1>1, <1>3 DEF Tag, Followed, ImageTypeOK, Reading, Loading
    <2>2. Along(i)'
      BY <1>1, <2>1 DEF Along, Place
    <2> QED
      BY <2>1, <2>2, OnJudged DEF Followed
  <1>4. CASE ~ (at # Len(file) /\ file[at + 1] = Tags[field])
    <2>1. damage # "none"
      BY <1>1, <1>2, <1>4
    <2> QED
      BY <1>4, <2>1, RejectJudged DEF Tag, Verdict, Reading
  <1> QED
    BY <1>3, <1>4

\* a field
LEMMA FieldJudged ==
    ASSUME NEW i \in Images, Followed(i), Field
    PROVE  JudgedInv'
  <1>1. field \in 1 .. 4 /\ at = Place(i, field) + 1
    BY DEF Followed, ImageTypeOK, Along, Field
  <1>2. PICK q \in Nat, n \in Nat : /\ q = Place(i, field) /\ n = Len(i.fields[field])
                                  /\ Place(i, field + 1) = q + 3 + n
                                  /\ Matches(file, q + 1, Big16(n))
    BY <1>1 DEF Followed, Laid
  <1>3. PICK e \in Nat, l \in Nat :
            /\ e = Len(Encode(i)) /\ l = Len(file) /\ q + 3 + n <= e /\ (damage = "none" => l = e)
    <2>1. PICK p \in Nat, m \in Nat : /\ p = Place(i, 5) /\ m = Len(i.payload)
                                    /\ Len(Encode(i)) = p + 5 + m
      BY DEF Followed, Laid
    <2>2. q + 3 + n <= p
      BY <1>1, <1>2, <2>1, PlacesGrow DEF Followed
    <2>3. Len(file) \in Nat /\ (damage = "none" => Len(file) = Len(Encode(i)))
      BY BytesAreNumbers DEF Followed, ImageTypeOK, Undamaged
    <2> QED
      BY <2>1, <2>2, <2>3
  <1>4. at + 2 <= Len(file) => Value(2) = n /\ (at + 2 + n <= Len(file) => Fits(2))
    BY <1>1, <1>2, FieldThere DEF Followed
  <1>5. CASE Fits(2)
    <2>1. Value(2) = n
      BY <1>4, <1>5 DEF Fits, Readable
    <2>2. /\ stage' = "tag" /\ at' = at + 2 + n /\ valid' = Unset /\ field' = field + 1
          /\ file' = file /\ damage' = damage
      BY <1>5, <2>1 DEF Field, Followed, ImageTypeOK, Reading, Loading
    <2>3. at' = Place(i, field')
      BY <1>1, <1>2, <2>2
    <2>4. Along(i)'
      BY <2>2, <2>3 DEF Along
    <2> QED
      BY <2>2, <2>4, OnJudged DEF Followed
  <1>6. CASE ~ Fits(2)
    <2>1. damage # "none"
      BY <1>1, <1>2, <1>3, <1>4, <1>6
    <2> QED
      BY <1>6, <2>1, RejectJudged DEF Field, Verdict, Reading
  <1> QED
    BY <1>5, <1>6

\* and the payload, where only an undamaged file is complete.
LEMMA PayloadJudged ==
    ASSUME NEW i \in Images, Followed(i), Payload
    PROVE  JudgedInv'
  <1>1. PICK p \in Nat, m \in Nat \ {0}, l \in Nat :
            /\ at = p + 1 /\ m = Len(i.payload) /\ l = Len(file) /\ Len(Encode(i)) = p + 5 + m
            /\ Matches(file, p + 1, Big32(m)) /\ Matches(file, p + 5, i.payload)
            /\ (damage = "none" => l = p + 5 + m) /\ (damage = "cut" => l < p + 5 + m)
            /\ (damage = "longer" => l > p + 5 + m)
    <2>1. PICK p \in Nat, m \in Nat \ {0}, l \in Nat, e \in Nat :
              /\ p = Place(i, 5) /\ m = Len(i.payload) /\ l = Len(file) /\ e = Len(Encode(i))
              /\ e = p + 5 + m
      <3>1. /\ Place(i, 5) \in Nat /\ Len(i.payload) \in Nat \ {0} /\ Len(file) \in Nat
            /\ Len(Encode(i)) = Place(i, 5) + 5 + Len(i.payload)
        BY BytesAreNumbers DEF Followed, Laid, ImageTypeOK
      <3>2. PICK p \in Nat, m \in Nat \ {0} : p = Place(i, 5) /\ m = Len(i.payload)
        BY <3>1, Zenon
      <3>3. p + 5 + m \in Nat /\ Len(Encode(i)) = p + 5 + m
        BY <3>1, <3>2
      <3> QED
        BY <3>1, <3>2, <3>3, Zenon
    <2>2. at = p + 1
      BY <2>1 DEF Followed, Along, Payload
    <2>3. Matches(file, p + 1, Big32(m)) /\ Matches(file, p + 5, i.payload)
      BY <2>1, Zenon DEF Followed, Laid
    <2>4. /\ (damage = "none" => l = e) /\ (damage = "cut" => l < e)
          /\ (damage = "longer" => l > e)
      BY <2>1 DEF Followed, Undamaged
    <2> QED
      BY <2>1, <2>2, <2>3, <2>4
  <1>2. at + 4 <= Len(file) =>
            Readable(4) /\ Value(4) = m /\ at + 4 + Left(4) = Len(file) /\ Left(4) \in Nat
    <2>1. Matches(file, at + 4, i.payload) /\ Matches(file, at, Big32(Len(i.payload)))
      BY <1>1, p + 1 + 4 = p + 5
    <2> QED
      BY <1>1, <2>1, PayloadThere DEF Followed
  <1>3. Complete <=> damage = "none"
    <2>1. damage \in {"none", "cut", "longer"}
      BY DEF Followed, ImageTypeOK
    <2>2. CASE at + 4 <= Len(file)
      <3>1. PICK r \in Nat : r = Left(4) /\ p + 1 + 4 + r = l
        BY <1>1, <1>2, <2>2
      <3>2. m = r <=> l = p + 5 + m
        BY <3>1
      <3>3. Complete <=> m = r
        BY <1>2, <2>2, <3>1 DEF Complete
      <3>4. damage = "none" <=> l = p + 5 + m
        <4>1. CASE damage = "none"
          BY <1>1, <4>1, Zenon
        <4>2. CASE damage = "cut"
          <5>1. l < p + 5 + m
            BY <1>1, <4>2, Zenon
          <5> QED
            BY <5>1, <4>2
        <4>3. CASE damage = "longer"
          <5>1. l > p + 5 + m
            BY <1>1, <4>3, Zenon
          <5> QED
            BY <5>1, <4>3
        <4> QED
          BY <2>1, <4>1, <4>2, <4>3
      <3> QED
        BY <3>2, <3>3, <3>4
    <2>3. CASE ~ (at + 4 <= Len(file))
      <3>1. at = p + 1 /\ l = Len(file) /\ (damage = "none" => l = p + 5 + m)
        BY <1>1, Zenon
      <3>2. damage # "none"
        BY <2>3, <3>1
      <3>3. ~ Readable(4)
        BY <2>3 DEF Readable
      <3> QED
        BY <3>2, <3>3 DEF Complete
    <2> QED
      BY <2>2, <2>3
  <1> QED
    BY <1>3 DEF Payload, Verdict, JudgedInv, UploadsAreJudged, Reading, Complete

\* So an undamaged file is followed to its end, and no other one is.
LEMMA JudgedStep == ReaderInv /\ JudgedInv /\ [ImageStep]_ivars => JudgedInv'
  <1> SUFFICES ASSUME ReaderInv, JudgedInv, [ImageStep]_ivars
               PROVE  JudgedInv'
    OBVIOUS
  <1>1. ImageTypeOK
    BY DEF ReaderInv
  <1>2. CASE stage \in Reading /\ damage # "altered" /\ ImageStep
    <2>1. PICK i \in Images : Undamaged(i) /\ Along(i)
      BY <1>2 DEF JudgedInv
    <2>2. Followed(i)
      <3>1. Shaped(i, 4) /\ i.payload \in Bytes /\ Len(i.payload) \in Nat \ {0}
        BY ImagesAssumption, ImageFile
      <3>2. Laid(file, i)
        BY <1>1, <2>1, <3>1, Layout, BytesAreNumbers DEF Undamaged, ImageTypeOK
      <3> QED
        BY <1>1, <1>2, <2>1, <3>1, <3>2 DEF Followed
    <2>3. Header \/ Marker \/ Tag \/ Field \/ Payload
      BY <1>2 DEF ImageStep, Reading, LoadHeader, LoadMarker, LoadField, LoadTag, LoadEnd,
                  LoadPayload
    <2> QED
      BY <2>2, <2>3, HeaderJudged, MarkerJudged, TagJudged, FieldJudged, PayloadJudged
  <1>3. CASE stage \in Reading /\ damage = "altered" /\ ImageStep
    <2>1. damage' = damage
      BY <1>3 DEF ImageStep, Header, Marker, Tag, Field, Payload, LoadHeader, LoadMarker,
                  LoadField, LoadTag, LoadEnd, LoadPayload, Keep
    <2> QED
      BY <1>3, <2>1 DEF JudgedInv, UploadsAreJudged
  <1>4. CASE stage \notin Reading /\ ImageStep
    <2>1. Keep /\ stage' \notin Reading
      BY <1>4 DEF ImageStep, Header, Marker, Tag, Field, Payload, LoadHeader, LoadMarker,
                  LoadField, LoadTag, LoadEnd, LoadPayload, Throw, Reading
    <2> QED
      BY <2>1 DEF JudgedInv, UploadsAreJudged, Keep
  <1>5. CASE UNCHANGED ivars
    BY <1>5 DEF ivars, JudgedInv, UploadsAreJudged, Undamaged, Along
  <1> QED
    BY <1>2, <1>3, <1>4, <1>5

\* The images may have any fields and payload, and be cut anywhere: a complete
\* file is accepted, one that is cut or has a byte more is not.
THEOREM UploadsJudged == ImageSpec => []UploadsAreJudged
  <1>1. ReaderInv /\ JudgedInv => UploadsAreJudged
    BY DEF JudgedInv
  <1> QED
    BY <1>1, ImageInitKeeps, ReaderStep, JudgedStep, PTL DEF ImageSpec

-----------------------------------------------------------------------------
\* Where loadImage is in a file that validateBitImage accepted.
LoadInv ==
    valid = TRUE =>
        /\ stage = "loadHeader"  => at = 0
        /\ stage = "loadMarker"  => at = 2 + Len(read.header)
        /\ stage = "loadField"   => \E k \in 1 .. 5 : at = Place(read, k)
        /\ stage = "loadPayload" => at = Place(read, 5) + 1
        /\ stage \in {"loadMarker", "loadField", "loadPayload"} => Len(file) >= MinSize
        /\ stage = "done" =>
              image = IF HasSync(read.payload) /\ Len(file) >= MinSize THEN read.payload ELSE Unset
ImageUnset == stage # "done" => image = Unset
AgreeInv == LoadInv /\ ImageUnset

\* An accepted file is that of the image that was read.
Accepted(i) ==
    /\ ImageTypeOK /\ file = Encode(i) /\ Laid(file, i) /\ i.payload \in Bytes
    /\ Len(i.payload) \in Nat

\* It is laid out like one.
LEMMA AcceptedFile == ReaderInv /\ valid = TRUE => Accepted(read)
  <1> SUFFICES ASSUME ReaderInv, valid = TRUE
               PROVE  Accepted(read)
    OBVIOUS
  <1>1. /\ ImageTypeOK /\ file = Encode(read) /\ Len(read.fields) = 4 /\ read.payload \in Bytes
        /\ read.fields \in Seq(Bytes) /\ read.header \in Bytes
    BY DEF ReaderInv, AcceptedInv, ImageTypeOK
  <1>2. Shaped(read, 4)
    BY <1>1 DEF Shaped
  <1>3. file \in Seq(Nat) /\ Len(read.payload) \in Nat
    BY <1>1, BytesAreNumbers DEF ImageTypeOK
  <1>4. Matches(file, 0, Encode(read))
    <2>1. Matches(file, 0, file)
      BY <1>3 DEF Matches
    <2> QED
      BY <2>1, <1>1, Zenon
  <1>5. Laid(file, read)
    BY <1>1, <1>2, <1>3, <1>4, Layout
  <1> QED
    BY <1>1, <1>3, <1>5 DEF Accepted

\* What the second reader finds in it: the header and the marker,
LEMMA AcceptedStart ==
    ASSUME NEW i, Accepted(i)
    PROVE  /\ at = 0 => Readable(2) /\ Value(2) = Len(i.header)
           /\ at = 2 + Len(i.header) => Readable(2) /\ Value(2) = 1 /\ at + 2 = Place(i, 1)
  <1>1. PICK p \in Nat, n \in Nat, m \in Nat :
            /\ p = Place(i, 5) /\ n = Len(i.header) /\ m = Len(i.payload)
            /\ 4 + n <= p /\ Place(i, 1) = 4 + n
    <2>1. /\ Place(i, 1) = 4 + Len(i.header) /\ Place(i, 1) \in Nat
          /\ Place(i, 1 + 1) <= Place(i, 5)
          /\ Place(i, 1 + 1) = Place(i, 1) + 3 + Len(i.fields[1]) /\ Len(i.fields[1]) \in Nat
          /\ Place(i, 5) \in Nat /\ Len(i.header) \in Nat /\ Len(i.payload) \in Nat
      BY PlacesGrow, 1 \in 1 .. 4 DEF Accepted, Laid
    <2>2. 4 + Len(i.header) <= Place(i, 5)
      BY <2>1
    <2> QED
      BY <2>1, <2>2, Zenon
  <1>2. Len(file) = p + 5 + m
    BY <1>1, Zenon DEF Accepted, Laid
  <1>3. 0 + 2 <= Len(file) /\ 2 + n + 2 <= Len(file)
    BY <1>1, <1>2
  <1>4. Matches(file, 0, Big16(n)) /\ Matches(file, 2 + n, Big16(1))
    BY <1>1, Zenon DEF Accepted, Laid
  <1>5. CASE at = 0
    BY <1>1, <1>3, <1>4, <1>5, FieldThere DEF Accepted, Readable
  <1>6. CASE at = 2 + n
    <2>1. at + 2 <= Len(file) /\ Matches(file, at, Big16(1)) /\ at + 2 = 4 + n
      BY <1>3, <1>4, <1>6
    <2>2. Readable(2) /\ Value(2) = 1
      BY <2>1, FieldThere, 1 \in Nat DEF Accepted, Readable
    <2>3. at + 2 = Place(i, 1)
      BY <2>1, <1>1, Zenon
    <2> QED
      BY <1>1, <1>6, <2>2, <2>3
  <1> QED
    BY <1>1, <1>5, <1>6

\* a field, that is not the payload and ends where the next one starts,
LEMMA AcceptedField ==
    ASSUME NEW i, Accepted(i), NEW k \in 1 .. 4, at = Place(i, k)
    PROVE  /\ at < Len(file) /\ file[at + 1] # Tags[5] /\ Metadata
           /\ at + 3 + Word(at + 1) = Place(i, k + 1)
  <1>1. PICK q \in Nat, n \in Nat, p \in Nat, m \in Nat :
            /\ q = Place(i, k) /\ n = Len(i.fields[k]) /\ p = Place(i, 5) /\ m = Len(i.payload)
            /\ Place(i, k + 1) = q + 3 + n /\ q + 3 + n <= p
            /\ Matches(file, q, <<Tags[k]>>) /\ Matches(file, q + 1, Big16(n))
    <2>1. /\ Place(i, k) \in Nat /\ Len(i.fields[k]) \in Nat /\ Place(i, 5) \in Nat
          /\ Place(i, k + 1) = Place(i, k) + 3 + Len(i.fields[k]) /\ Len(i.payload) \in Nat
          /\ Matches(file, Place(i, k), <<Tags[k]>>)
          /\ Matches(file, Place(i, k) + 1, Big16(Len(i.fields[k])))
      BY DEF Accepted, Laid
    <2>2. Place(i, k + 1) <= Place(i, 5)
      BY PlacesGrow DEF Accepted
    <2> QED
      BY <2>1, <2>2, Zenon
  <1>2. Len(file) = p + 5 + m
    BY <1>1, Zenon DEF Accepted, Laid
  <1>3. at = q /\ at \in Nat /\ q + 3 + n <= Len(file) /\ q < Len(file) /\ q + 3 <= Len(file)
    <2>1. at = q /\ q + 3 + n <= p
      BY <1>1, Zenon
    <2> QED
      BY <1>2, <2>1
  <1>4. file \in Seq(Nat) /\ Len(file) \in Nat
    BY BytesAreNumbers DEF Accepted, ImageTypeOK
  <1>5. file[q + 1] = Tags[k]
    BY <1>1, <1>3 DEF Matches
  <1>6. Tags[k] # Tags[5] /\ Tags[k] \in Nat
    BY TagsAssumption, BytesAreNumbers
  <1>7. Word(q + 1) = n
    <2>1. WordAt(file, q + 1) = n
      <3>1. q + 1 \in Nat /\ (q + 1) + 2 <= Len(file)
        BY <1>3
      <3> QED
        BY <1>1, <1>4, <3>1, Read16
    <2> QED
      BY <2>1 DEF Word, WordAt
  <1>8. n <= Left(3)
    <2>1. Len(file) - (q + 3) \in Nat /\ Len(file) - (q + 3) < SizeMax
          /\ n <= Len(file) - (q + 3)
      BY <1>3, <1>4, SizesAssumption DEF Accepted, ImageTypeOK
    <2>2. (Len(file) - (q + 3)) % SizeMax = Len(file) - (q + 3)
      BY <2>1, SmallModulo, SizesAssumption
    <2> QED
      BY <2>1, <2>2, <1>3 DEF Left
  <1>9. Slice(0, 1) # <<Tags[5]>>
    <2>1. Slice(0, 1) = SubSeq(file, q + 1, q + 1) /\ q + 1 \in 1 .. Len(file)
      BY <1>3, <1>4 DEF Slice
    <2>2. SubSeq(file, q + 1, q + 1)[1] = file[q + 1]
      BY <1>4, <2>1
    <2> QED
      BY <2>1, <2>2, <1>5, <1>6
  <1> QED
    BY <1>1, <1>3, <1>5, <1>6, <1>7, <1>8, <1>9 DEF Metadata

\* and the payload.
LEMMA AcceptedEnd ==
    ASSUME NEW i, Accepted(i)
    PROVE  /\ at = Place(i, 5) => at < Len(file) /\ file[at + 1] = Tags[5]
           /\ at = Place(i, 5) + 1 => Fits(4) /\ Slice(4, Value(4)) = i.payload
  <1>1. PICK p \in Nat, m \in Nat : p = Place(i, 5) /\ m = Len(i.payload)
    BY DEF Accepted, Laid
  <1>2. Len(file) = p + 5 + m
    BY <1>1, Zenon DEF Accepted, Laid
  <1>3. /\ Matches(file, p, <<Tags[5]>>) /\ Matches(file, p + 1, Big32(m))
        /\ Matches(file, p + 5, i.payload)
    BY <1>1, Zenon DEF Accepted, Laid
  <1>4. p + 1 <= Len(file) /\ p + 1 + 4 + m = Len(file) /\ p + 1 + 4 = p + 5 /\ p < Len(file)
        /\ p + 1 + 4 <= Len(file)
    BY <1>2
  <1>5. file[p + 1] = Tags[5]
    BY <1>3, <1>4 DEF Matches
  <1>6. ASSUME at = p + 1
        PROVE  Fits(4) /\ Slice(4, Value(4)) = i.payload
    <2>1. /\ at + 4 <= Len(file) /\ at + 4 + Len(i.payload) <= Len(file)
          /\ Matches(file, at, Big32(Len(i.payload))) /\ Matches(file, at + 4, i.payload)
      BY <1>1, <1>3, <1>4, <1>6
    <2> QED
      BY <2>1, PayloadThere DEF Accepted
  <1> QED
    BY <1>1, <1>4, <1>5, <1>6

\* So the second reader follows the image that the first one has read.
LEMMA AgreeStep == ReaderInv /\ AgreeInv /\ [ImageStep]_ivars => AgreeInv'
  <1> SUFFICES ASSUME ReaderInv, AgreeInv, [ImageStep]_ivars
               PROVE  AgreeInv'
    OBVIOUS
  <1>1. ImageTypeOK
    BY DEF ReaderInv
  <1>2. CASE Header \/ Marker \/ Tag \/ Field \/ Payload
    <2>1. image' = image /\ stage # "done" /\ stage' # "done"
      BY <1>2 DEF Header, Marker, Tag, Field, Payload, Verdict
    <2>2. valid' = TRUE => stage' = "loadHeader" /\ at' = 0
      <3>1. valid = Unset
        BY <1>1, <1>2 DEF Header, Marker, Tag, Field, Payload, ImageTypeOK, Loading
      <3> QED
        BY <1>2, <3>1, UnsetAssumption DEF Header, Marker, Tag, Field, Payload, Verdict
    <2> QED
      BY <2>1, <2>2 DEF AgreeInv, LoadInv, ImageUnset
  <1>3. ASSUME valid # TRUE,
               LoadHeader \/ LoadMarker \/ LoadField \/ LoadTag \/ LoadEnd \/ LoadPayload
        PROVE  AgreeInv'
    BY <1>3 DEF LoadHeader, LoadMarker, LoadField, LoadTag, LoadEnd, LoadPayload,
                Keep, Throw, AgreeInv, LoadInv, ImageUnset
  <1>4. ASSUME valid = TRUE
        PROVE  Accepted(read)
    BY <1>4, AcceptedFile
  <1>5. CASE valid = TRUE /\ LoadHeader
    <2>1. at = 0 /\ Readable(2) /\ Value(2) = Len(read.header) /\ image = Unset
      BY <1>4, <1>5, AcceptedStart DEF AgreeInv, LoadInv, ImageUnset, LoadHeader
    <2>2. Len(read.header) \in Nat /\ Len(file) \in Nat /\ MinSize \in Nat
      BY <1>1, SizesAssumption, BytesAreNumbers DEF ImageTypeOK
    <2>3. CASE Len(file) >= MinSize
      <3>1. stage' = "loadMarker" /\ at' = 2 + Len(read.header) /\ image' = image /\ Keep
        BY <1>5, <2>1, <2>2, <2>3 DEF LoadHeader
      <3> QED
        BY <2>1, <2>3, <3>1 DEF AgreeInv, LoadInv, ImageUnset, Keep
    <2>4. CASE ~ (Len(file) >= MinSize)
      <3>1. stage' = "done" /\ image' = image /\ Keep
        BY <1>5, <2>4 DEF LoadHeader, Throw
      <3> QED
        BY <2>1, <2>4, <3>1 DEF AgreeInv, LoadInv, ImageUnset, Keep
    <2> QED
      BY <2>3, <2>4
  <1>6. CASE valid = TRUE /\ LoadMarker
    <2>1. /\ Readable(2) /\ Value(2) = 1 /\ at + 2 = Place(read, 1) /\ image = Unset
          /\ Len(file) >= MinSize
      BY <1>4, <1>6, AcceptedStart DEF AgreeInv, LoadInv, ImageUnset, LoadMarker
    <2>2. stage' = "loadField" /\ at' = Place(read, 1) /\ image' = image /\ Keep
      BY <1>6, <2>1 DEF LoadMarker
    <2> QED
      BY <2>1, <2>2, 1 \in 1 .. 5 DEF AgreeInv, LoadInv, ImageUnset, Keep
  <1>7. ASSUME valid = TRUE, stage = "loadField"
        PROVE  /\ image = Unset /\ Len(file) >= MinSize
               /\ \/ \E k \in 1 .. 4 : at = Place(read, k)
                  \/ at = Place(read, 5)
    <2>1. image = Unset /\ Len(file) >= MinSize /\ \E k \in 1 .. 5 : at = Place(read, k)
      BY <1>7 DEF AgreeInv, LoadInv, ImageUnset
    <2> QED
      BY <2>1
  <1>8. CASE valid = TRUE /\ LoadField
    <2>1. at # Place(read, 5)
      BY <1>4, <1>8, AcceptedEnd DEF LoadField
    <2>2. PICK k \in 1 .. 4 : at = Place(read, k)
      BY <1>7, <1>8, <2>1 DEF LoadField
    <2>3. Metadata /\ at + 3 + Word(at + 1) = Place(read, k + 1)
      BY <1>4, <1>8, <2>2, AcceptedField
    <2>4. stage' = "loadField" /\ at' = Place(read, k + 1) /\ image' = image /\ Keep
      BY <1>8, <2>3 DEF LoadField
    <2>5. k + 1 \in 1 .. 5
      OBVIOUS
    <2> QED
      BY <1>7, <1>8, <2>4, <2>5 DEF AgreeInv, LoadInv, ImageUnset, Keep, LoadField
  <1>9. CASE valid = TRUE /\ LoadTag
    <2>1. ~ \E k \in 1 .. 4 : at = Place(read, k)
      BY <1>4, <1>9, AcceptedField DEF LoadTag
    <2>2. at = Place(read, 5) /\ image = Unset /\ Len(file) >= MinSize
      BY <1>7, <1>9, <2>1 DEF LoadTag
    <2>3. stage' = "loadPayload" /\ at' = Place(read, 5) + 1 /\ image' = image /\ Keep
      BY <1>9, <2>2 DEF LoadTag
    <2> QED
      BY <2>2, <2>3 DEF AgreeInv, LoadInv, ImageUnset, Keep
  <1>10. CASE valid = TRUE /\ LoadEnd
    <2>1. at \in Nat /\ Len(file) \in Nat /\ ~ (at < Len(file)) /\ stage = "loadField"
      BY <1>1, <1>10, BytesAreNumbers DEF ImageTypeOK, LoadEnd
    <2> QED
      BY <1>4, <1>7, <1>10, <2>1, AcceptedField, AcceptedEnd
  <1>11. CASE valid = TRUE /\ LoadPayload
    <2>1. /\ Fits(4) /\ Slice(4, Value(4)) = read.payload /\ image = Unset /\ Len(file) >= MinSize
      BY <1>4, <1>11, AcceptedEnd DEF AgreeInv, LoadInv, ImageUnset, LoadPayload
    <2>2. /\ stage' = "done" /\ Keep
          /\ image' = IF HasSync(read.payload) THEN read.payload ELSE Unset
      BY <1>11, <2>1 DEF LoadPayload, Throw
    <2> QED
      BY <2>1, <2>2 DEF AgreeInv, LoadInv, ImageUnset, Keep
  <1>12. CASE UNCHANGED ivars
    BY <1>12 DEF ivars, AgreeInv, LoadInv, ImageUnset, HasSync
  <1> QED
    BY <1>2, <1>3, <1>5, <1>6, <1>8, <1>9, <1>10, <1>11, <1>12 DEF ImageStep

\* What the one reader accepts the other reads, to the last byte.
THEOREM ReadersAgreed == ImageSpec => []ReadersAgree
  <1>1. ImageInit => AgreeInv
    BY UnsetAssumption DEF ImageInit, AgreeInv, LoadInv, ImageUnset
  <1>2. ReaderInv /\ AgreeInv => ReadersAgree
    <2> SUFFICES ASSUME ReaderInv, AgreeInv, stage = "done", valid
                 PROVE  image = IF HasSync(read.payload) /\ Len(file) >= MinSize
                                THEN read.payload ELSE Unset
      BY DEF ReadersAgree
    <2>1. valid = TRUE
      BY DEF ReaderInv, ImageTypeOK, Reading
    <2> QED
      BY <2>1 DEF AgreeInv, LoadInv
  <1> QED
    BY <1>1, <1>2, ImageInitKeeps, ReaderStep, AgreeStep, PTL DEF ImageSpec
=============================================================================
