------------------------- MODULE MessageQueueProofs -------------------------
(***************************************************************************)
(* What each call of an agent's message queue (MessageQueue, msg_queue.rs) *)
(* keeps: a message in flight has exactly one timer, whatever is sent,     *)
(* sent again, answered or grows old.  The lemmas are about the operators  *)
(* of Connector and about sequences, not about its steps.                  *)
(***************************************************************************)
EXTENDS Connector, FiniteSetTheorems, SequenceTheorems, WellFoundedInduction,
        TLAPS

------------------------------------------------------------------------------
(* A queue that is in order.                                               *)

Entry == [age : 0 .. ResendAfter, ids : Seq(Nat) \ {<<>>}]

\* The numbers the timers name.
Named(ts) == {x \in Nat : \E g, i \in Nat : Stands(ts, x, g, i)}

\* What the message queue of an agent keeps, also over restarts: the numbers
\* it holds were given out, one that waits to be sent waits at one place and
\* has no timer, and one in flight has one.
QueueOK(seed, q, fl, ts) ==
  /\ q \in Seq(Nat) /\ fl \in SUBSET Nat /\ ts \in Seq(Entry)
  /\ \A i, j \in DOMAIN q : q[i] = q[j] => i = j
  /\ Range(q) \cap (fl \cup Named(ts)) = {}
  /\ \A id \in Range(q) \cup fl \cup Named(ts) : id < seed
  /\ \A id \in fl : OneTimer(ts, id)
  /\ InOrder(ts)
  /\ IsFiniteSet(fl) /\ Cardinality(fl) <= MaxInflight

------------------------------------------------------------------------------
(* Least and greatest.                                                     *)

\* Least of a set of numbers is its least element.
LEMMA LeastIs ==
  ASSUME NEW S \in SUBSET Nat, S # {}
  PROVE  Least(S) \in S /\ \A y \in S : Least(S) <= y
<1> DEFINE R == {ss \in Nat \X Nat : ss[1] < ss[2]}
<1>1. PICK x \in S : \A y \in S : ~(<<y, x>> \in R)
  <2>1. IsWellFoundedOn(R, Nat)
    BY NatLessThanWellFounded DEF OpToRel
  <2> HIDE DEF R
  <2> QED BY <2>1, WFMin
<1>2. \A y \in S : x <= y
  <2> SUFFICES ASSUME NEW y \in S PROVE x <= y
    OBVIOUS
  <2> DEFINE p == <<y, x>>
  <2>1. p \in Nat \X Nat /\ p[1] = y /\ p[2] = x
    OBVIOUS
  <2>2. ~(p[1] < p[2])
    <3> HIDE DEF p
    <3> QED BY <1>1, <2>1 DEF p
  <2> QED BY <2>1, <2>2
<1>3. QED
  BY <1>2 DEF Least

\* Greatest of a bounded set of numbers is its greatest element.
LEMMA GreatestIs ==
  ASSUME NEW N \in Nat, NEW S \in SUBSET (0 .. N), S # {}
  PROVE  Greatest(S) \in S /\ \A y \in S : y <= Greatest(S)
<1> DEFINE T == {N - x : x \in S}
<1>1. T \in SUBSET Nat /\ T # {}
  <2>1. \A x \in S : N - x \in Nat
    OBVIOUS
  <2> QED BY <2>1
<1>2. Least(T) \in T /\ \A y \in T : Least(T) <= y
  <2> HIDE DEF T
  <2> QED BY <1>1, LeastIs
<1>3. PICK x \in S : Least(T) = N - x
  BY <1>2
<1>4. \A y \in S : y <= x
  <2> SUFFICES ASSUME NEW y \in S PROVE y <= x
    OBVIOUS
  <2>1. N - x <= N - y
    BY <1>2, <1>3
  <2> QED BY <2>1
<1>5. QED
  BY <1>4 DEF Greatest

------------------------------------------------------------------------------
(* The timers.                                                             *)

\* A message has one timer iff there is one place where it stands.
LEMMA OneTimerIs ==
  ASSUME NEW ts, NEW id
  PROVE  OneTimer(ts, id) <=> \E g, i : /\ Stands(ts, id, g, i)
                                        /\ \A h, j : Stands(ts, id, h, j) => h = g /\ j = i
<1>1. ASSUME OneTimer(ts, id)
      PROVE  \E g, i : /\ Stands(ts, id, g, i)
                       /\ \A h, j : Stands(ts, id, h, j) => h = g /\ j = i
  <2>1. PICK g \in DOMAIN ts : \E i \in DOMAIN ts[g].ids :
               /\ Stands(ts, id, g, i)
               /\ \A h \in DOMAIN ts : \A j \in DOMAIN ts[h].ids :
                    Stands(ts, id, h, j) => h = g /\ j = i
    BY <1>1 DEF OneTimer
  <2>2. PICK i \in DOMAIN ts[g].ids :
               /\ Stands(ts, id, g, i)
               /\ \A h \in DOMAIN ts : \A j \in DOMAIN ts[h].ids :
                    Stands(ts, id, h, j) => h = g /\ j = i
    BY <2>1
  <2>3. \A h, j : Stands(ts, id, h, j) => h \in DOMAIN ts /\ j \in DOMAIN ts[h].ids
    BY DEF Stands
  <2> QED BY <2>2, <2>3
<1>2. ASSUME NEW g, NEW i, Stands(ts, id, g, i),
             \A h, j : Stands(ts, id, h, j) => h = g /\ j = i
      PROVE  OneTimer(ts, id)
  <2>1. g \in DOMAIN ts /\ i \in DOMAIN ts[g].ids
    BY <1>2 DEF Stands
  <2> QED BY <1>2, <2>1 DEF OneTimer
<1>3. QED
  BY <1>1, <1>2

\* The places of a list of timers.
LEMMA Places ==
  ASSUME NEW ts \in Seq(Entry), NEW id, NEW g, NEW i, Stands(ts, id, g, i)
  PROVE  /\ g \in 1 .. Len(ts) /\ i \in 1 .. Len(ts[g].ids)
         /\ ts[g] \in Entry /\ ts[g].ids \in Seq(Nat) /\ ts[g].age \in 0 .. ResendAfter
         /\ ts[g].ids[i] = id /\ id \in Nat /\ g \in Nat /\ i \in Nat /\ id \in Named(ts)
<1>1. g \in 1 .. Len(ts) /\ g \in Nat
  BY DEF Stands
<1>2. ts[g] \in Entry
  BY <1>1, ElementOfSeq
<1>3. ts[g].ids \in Seq(Nat) /\ ts[g].age \in 0 .. ResendAfter
  BY <1>2 DEF Entry
<1>4. i \in 1 .. Len(ts[g].ids) /\ i \in Nat /\ ts[g].ids[i] = id
  BY <1>3 DEF Stands
<1>5. id \in Nat
  BY <1>3, <1>4, ElementOfSeq
<1>6. QED
  BY <1>1, <1>2, <1>3, <1>4, <1>5 DEF Named

\* The numbers of a list of timers are those that stand in it.
LEMMA NamedIs ==
  ASSUME NEW ts \in Seq(Entry), NEW x
  PROVE  x \in Named(ts) <=> \E g, i : Stands(ts, x, g, i)
BY Places DEF Named

\* The places of us are those of ts, moved by d and up to place i0 of entry g0.
Rest(ts, us, d, g0, i0) ==
  \A x, g, i : Stands(us, x, g, i) <=> /\ g \in Nat \ {0} /\ Stands(ts, x, g + d, i)
                                       /\ g + d = g0 => i < i0

\* A list whose places are places of another one, moved by d and up to place
\* i0 of entry g0, names what stands there, and once what stands there once.
LEMMA Moved ==
  ASSUME NEW ts \in Seq(Entry), NEW us \in Seq(Entry), NEW d \in Nat,
         NEW g0 \in Nat, NEW i0 \in Nat,
         Rest(ts, us, d, g0, i0)
  PROVE  /\ Named(us) \subseteq Named(ts)
         /\ \A x, g, i :
              /\ OneTimer(ts, x) /\ Stands(ts, x, g, i)
              /\ g > d /\ (g = g0 => i < i0)
              => OneTimer(us, x)
<1>0. \A x, g, i : Stands(us, x, g, i) <=> /\ g \in Nat \ {0} /\ Stands(ts, x, g + d, i)
                                           /\ g + d = g0 => i < i0
  BY DEF Rest
<1>1. Named(us) \subseteq Named(ts)
  <2> SUFFICES ASSUME NEW x \in Named(us) PROVE x \in Named(ts)
    OBVIOUS
  <2>1. PICK g, i : Stands(us, x, g, i)
    BY NamedIs
  <2>2. Stands(ts, x, g + d, i)
    BY <1>0, <2>1
  <2> QED BY <2>2, NamedIs
<1>2. ASSUME NEW x, NEW g, NEW i, OneTimer(ts, x), Stands(ts, x, g, i),
             g > d, g = g0 => i < i0
      PROVE  OneTimer(us, x)
  <2>1. \A h, j : Stands(ts, x, h, j) => h = g /\ j = i
    BY <1>2, OneTimerIs
  <2>2. g \in Nat /\ g - d \in Nat \ {0} /\ (g - d) + d = g
    BY <1>2, Places
  <2>3. Stands(us, x, g - d, i)
    BY <1>0, <1>2, <2>2
  <2>4. \A h, j : Stands(us, x, h, j) => h = g - d /\ j = i
    <3> SUFFICES ASSUME NEW h, NEW j, Stands(us, x, h, j) PROVE h = g - d /\ j = i
      OBVIOUS
    <3>1. h \in Nat /\ h + d = g /\ j = i
      BY <1>0, <2>1
    <3> QED BY <3>1, <2>2
  <2> QED BY <2>3, <2>4, OneTimerIs
<1>3. QED
  BY <1>1, <1>2

\* us is ts with id at one more place, <<g0, i0>>.
MorePlace(ts, us, id, g0, i0) ==
  /\ \A x : ~Stands(ts, x, g0, i0)
  /\ \A x, g, i : Stands(us, x, g, i) <=>
       Stands(ts, x, g, i) \/ (x = id /\ g = g0 /\ i = i0)

\* Stamp puts id at one new place and leaves the others where they are.
LEMMA StampIs ==
  ASSUME NEW ts \in Seq(Entry), NEW id \in Nat, InOrder(ts)
  PROVE  /\ Stamp(ts, id) \in Seq(Entry) /\ InOrder(Stamp(ts, id))
         /\ \E g0, i0 : MorePlace(ts, Stamp(ts, id), id, g0, i0)
<1> DEFINE n == Len(ts)
<1>0. n \in Nat /\ ResendAfter \in Nat \ {0} /\ \A g \in 1 .. n : ts[g] \in Entry
  BY ElementOfSeq, SizesAssumption
<1>1. CASE ts # <<>> /\ ts[n].age = 0
  <2> DEFINE e == [age |-> 0, ids |-> Append(ts[n].ids, id)]
             us == [ts EXCEPT ![n] = e]
             m == Len(ts[n].ids)
  <2>1. n \in 1 .. n /\ DOMAIN ts = 1 .. n
    BY <1>0, <1>1, EmptySeq, LenProperties
  <2>2. ts[n].ids \in Seq(Nat) /\ m \in Nat
    BY <1>0, <2>1, LenProperties DEF Entry
  <2>3. /\ e.ids \in Seq(Nat) /\ Len(e.ids) = m + 1 /\ e.ids # <<>>
        /\ \A i \in 1 .. m : e.ids[i] = ts[n].ids[i]
        /\ e.ids[m + 1] = id
    BY <2>2, AppendProperties
  <2>4. e \in Entry
    BY <1>0, <2>3 DEF Entry
  <2>5. us \in Seq(Entry) /\ Len(us) = n
    BY <2>1, <2>4, ExceptSeq
  <2>6. Stamp(ts, id) = us
    BY <1>1 DEF Stamp
  <2>7. DOMAIN us = 1 .. n /\ \A g \in 1 .. n : us[g] = IF g = n THEN e ELSE ts[g]
    BY <2>1
  <2>8. \A g \in 1 .. n : us[g].age = ts[g].age
    BY <1>1, <2>7
  <2>9. InOrder(us)
    BY <2>1, <2>7, <2>8 DEF InOrder
  <2>10. DOMAIN ts[n].ids = 1 .. m /\ DOMAIN e.ids = 1 .. m + 1
    BY <2>2, <2>3, LenProperties
  <2>11. \A x : ~Stands(ts, x, n, m + 1)
    BY <2>2, <2>10 DEF Stands
  <2>12. \A x, g, i : Stands(us, x, g, i) <=>
           Stands(ts, x, g, i) \/ (x = id /\ g = n /\ i = m + 1)
    <3> SUFFICES ASSUME NEW x, NEW g, NEW i
                 PROVE  Stands(us, x, g, i) <=>
                          Stands(ts, x, g, i) \/ (x = id /\ g = n /\ i = m + 1)
      OBVIOUS
    <3>1. CASE g = n
      <4>1. us[n] = e
        BY <2>1, <2>7
      <4>2. Stands(us, x, n, i) <=> i \in 1 .. m + 1 /\ e.ids[i] = x
        BY <2>1, <2>7, <4>1, <2>10 DEF Stands
      <4>3. Stands(ts, x, n, i) <=> i \in 1 .. m /\ ts[n].ids[i] = x
        BY <2>1, <2>10 DEF Stands
      <4>4. i \in 1 .. m + 1 <=> i \in 1 .. m \/ i = m + 1
        BY <2>2
      <4>5. ~(m + 1 \in 1 .. m)
        BY <2>2
      <4> HIDE DEF e, us, m, n
      <4> QED BY <3>1, <4>2, <4>3, <4>4, <4>5, <2>3
    <3>2. CASE g # n
      BY <3>2, <2>1, <2>7 DEF Stands
    <3> QED BY <3>1, <3>2
  <2>13. MorePlace(ts, us, id, n, m + 1)
    <3> HIDE DEF us, e, n, m
    <3> QED BY <2>11, <2>12 DEF MorePlace
  <2> HIDE DEF us, e
  <2> QED BY <2>5, <2>6, <2>9, <2>13
<1>2. CASE ~(ts # <<>> /\ ts[n].age = 0)
  <2> DEFINE e == [age |-> 0, ids |-> <<id>>]
             us == Append(ts, e)
  <2>1. e \in Entry /\ e.ids = <<id>> /\ e.age = 0
    BY <1>0 DEF Entry
  <2>2. /\ us \in Seq(Entry) /\ Len(us) = n + 1 /\ us[n + 1] = e
        /\ \A g \in 1 .. n : us[g] = ts[g]
        /\ DOMAIN us = 1 .. n + 1 /\ DOMAIN ts = 1 .. n
    <3> HIDE DEF e
    <3> QED BY <2>1, AppendProperties, LenProperties
  <2>3. Stamp(ts, id) = us
    BY <1>2 DEF Stamp
  <2>4. \A g \in 1 .. n : ts[g].age > 0
    <3> SUFFICES ASSUME NEW g \in 1 .. n PROVE ts[g].age > 0
      OBVIOUS
    <3>1. n \in 1 .. n /\ ts # <<>>
      BY <1>0
    <3>2. ts[n].age \in Nat /\ ts[g].age \in Nat /\ ts[n].age > 0
      BY <1>0, <1>2, <3>1 DEF Entry
    <3>3. g < n => ts[g].age > ts[n].age \/ ts[g].age = ResendAfter
      <4>1. g \in DOMAIN ts /\ n \in DOMAIN ts
        BY <2>2, <3>1
      <4> HIDE DEF n
      <4> QED BY <4>1 DEF InOrder
    <3> QED BY <1>0, <3>2, <3>3
  <2>5. InOrder(us)
    <3> HIDE DEF e, us
    <3> SUFFICES ASSUME NEW g \in DOMAIN us, NEW h \in DOMAIN us, g < h
                 PROVE  us[g].age > us[h].age \/ us[g].age = ResendAfter
      BY DEF InOrder
    <3>1. CASE h = n + 1
      BY <1>0, <3>1, <2>1, <2>2, <2>4
    <3>2. CASE h # n + 1
      BY <1>0, <3>2, <2>2 DEF InOrder
    <3> QED BY <3>1, <3>2
  <2>6. \A x : ~Stands(ts, x, n + 1, 1)
    BY <1>0, <2>2 DEF Stands
  <2>7. \A x, g, i : Stands(us, x, g, i) <=>
           Stands(ts, x, g, i) \/ (x = id /\ g = n + 1 /\ i = 1)
    <3> SUFFICES ASSUME NEW x, NEW g, NEW i
                 PROVE  Stands(us, x, g, i) <=>
                          Stands(ts, x, g, i) \/ (x = id /\ g = n + 1 /\ i = 1)
      OBVIOUS
    <3>1. DOMAIN e.ids = {1} /\ e.ids[1] = id
      BY <2>1
    <3> HIDE DEF e, us
    <3>2. CASE g = n + 1
      BY <1>0, <3>1, <3>2, <2>2 DEF Stands
    <3>3. CASE g # n + 1
      BY <1>0, <3>3, <2>2 DEF Stands
    <3> QED BY <3>2, <3>3
  <2>8. MorePlace(ts, us, id, n + 1, 1)
    <3> HIDE DEF us, e, n
    <3> QED BY <2>6, <2>7 DEF MorePlace
  <2> HIDE DEF us, e
  <2> QED BY <2>2, <2>3, <2>5, <2>8
<1>3. QED
  BY <1>1, <1>2

\* So id has one timer more than before, and nothing else changes.
LEMMA StampKeeps ==
  ASSUME NEW ts \in Seq(Entry), NEW id \in Nat, InOrder(ts), id \notin Named(ts)
  PROVE  /\ Stamp(ts, id) \in Seq(Entry) /\ InOrder(Stamp(ts, id))
         /\ Named(Stamp(ts, id)) = Named(ts) \cup {id}
         /\ OneTimer(Stamp(ts, id), id)
         /\ \A x : OneTimer(ts, x) => OneTimer(Stamp(ts, id), x)
<1> DEFINE us == Stamp(ts, id)
<1>1. us \in Seq(Entry) /\ InOrder(us)
  BY StampIs
<1>2a. PICK g0, i0 : MorePlace(ts, us, id, g0, i0)
  BY StampIs
<1> HIDE DEF us
<1>2. /\ \A x : ~Stands(ts, x, g0, i0)
      /\ \A x, g, i : Stands(us, x, g, i) <=>
           Stands(ts, x, g, i) \/ (x = id /\ g = g0 /\ i = i0)
  BY <1>2a DEF MorePlace
<1>3. \A g, i : ~Stands(ts, id, g, i)
  BY NamedIs
<1>4. Named(us) = Named(ts) \cup {id}
  <2>1. \A x : x \in Named(us) <=> x \in Named(ts) \/ x = id
    BY <1>1, <1>2, NamedIs
  <2> QED BY <2>1
<1>5. OneTimer(us, id)
  BY <1>2, <1>3, OneTimerIs
<1>6. ASSUME NEW x, OneTimer(ts, x) PROVE OneTimer(us, x)
  <2>1. PICK g, i : Stands(ts, x, g, i) /\ \A h, j : Stands(ts, x, h, j) => h = g /\ j = i
    BY <1>6, OneTimerIs
  <2>2. x # id
    BY <1>3, <2>1
  <2> QED BY <1>2, <2>1, <2>2, OneTimerIs
<1>7. QED
  BY <1>1, <1>4, <1>5, <1>6 DEF us

\* The end of a list of timers from entry d + 1 on.
LEMMA CutIs ==
  ASSUME NEW ts \in Seq(Entry), InOrder(ts), NEW d \in 0 .. Len(ts)
  PROVE  LET us == SubSeq(ts, d + 1, Len(ts)) IN
         /\ us \in Seq(Entry) /\ Len(us) = Len(ts) - d
         /\ \A g \in 1 .. Len(ts) - d : us[g] = ts[g + d]
         /\ InOrder(us) /\ Rest(ts, us, d, 0, 0)
<1> DEFINE us == SubSeq(ts, d + 1, Len(ts))
<1>1. Len(ts) \in Nat /\ DOMAIN ts = 1 .. Len(ts) /\ d \in Nat /\ d <= Len(ts)
  BY LenProperties
<1>2. \A g \in d + 1 .. Len(ts) : ts[g] \in Entry
  BY <1>1, ElementOfSeq
<1>3. /\ us \in Seq(Entry)
      /\ Len(us) = IF d + 1 <= Len(ts) THEN Len(ts) - (d + 1) + 1 ELSE 0
      /\ \A g \in 1 .. Len(ts) - (d + 1) + 1 : us[g] = ts[(d + 1) + g - 1]
  BY <1>1, <1>2, SubSeqProperties
<1> HIDE DEF us
<1>4. Len(us) = Len(ts) - d
  <2>1. CASE d + 1 <= Len(ts)
    <3>1. Len(ts) - (d + 1) + 1 = Len(ts) - d
      BY <1>1
    <3> QED BY <1>3, <2>1, <3>1
  <2>2. CASE ~(d + 1 <= Len(ts))
    <3>1. Len(ts) = d
      <4>1. \A a, b \in Nat : a <= b /\ ~(a + 1 <= b) => b = a
        OBVIOUS
      <4> QED BY <1>1, <2>2, <4>1
    <3> QED BY <1>1, <1>3, <2>2, <3>1
  <2> QED BY <2>1, <2>2
<1>5. \A g \in 1 .. Len(ts) - d : us[g] = ts[g + d]
  <2> SUFFICES ASSUME NEW g \in 1 .. Len(ts) - d PROVE us[g] = ts[g + d]
    OBVIOUS
  <2>1. g \in 1 .. Len(ts) - (d + 1) + 1 /\ (d + 1) + g - 1 = g + d
    BY <1>1
  <2> QED BY <1>3, <2>1
<1>6. DOMAIN us = 1 .. Len(ts) - d
  BY <1>3, <1>4, LenProperties
<1>7. InOrder(us)
  <2> SUFFICES ASSUME NEW g \in DOMAIN us, NEW h \in DOMAIN us, g < h
               PROVE  us[g].age > us[h].age \/ us[g].age = ResendAfter
    BY DEF InOrder
  <2>1. g + d \in DOMAIN ts /\ h + d \in DOMAIN ts /\ g + d < h + d
    BY <1>1, <1>6
  <2>2. ts[g + d].age > ts[h + d].age \/ ts[g + d].age = ResendAfter
    BY <2>1 DEF InOrder
  <2> QED BY <1>5, <1>6, <2>2
<1>8. Rest(ts, us, d, 0, 0)
  <2> SUFFICES ASSUME NEW x, NEW g, NEW i
               PROVE  Stands(us, x, g, i) <=> /\ g \in Nat \ {0} /\ Stands(ts, x, g + d, i)
                                              /\ g + d = 0 => i < 0
    BY DEF Rest
  <2>1. CASE g \in 1 .. Len(ts) - d
    BY <1>1, <1>5, <1>6, <2>1 DEF Stands
  <2>2. CASE g \notin 1 .. Len(ts) - d
    <3>1. ~Stands(us, x, g, i)
      BY <1>6, <2>2 DEF Stands
    <3>2. ASSUME g \in Nat \ {0}, g + d \in 1 .. Len(ts) PROVE FALSE
      BY <1>1, <2>2, <3>2
    <3> QED BY <1>1, <3>1, <3>2 DEF Stands
  <2> QED BY <2>1, <2>2
<1>9. QED
  BY <1>3, <1>4, <1>5, <1>7, <1>8 DEF us

\* When no entry of the list holds a due message, dropping the due entries
\* keeps the timer of every message in flight (retain in pop_retry_msg_id).
LEMMA NoneDueKeeps ==
  ASSUME NEW ts \in Seq(Entry), InOrder(ts), NEW live, Due(ts, live) = {},
         \A x \in live : OneTimer(ts, x)
  PROVE  /\ NoneDue(ts) \in Seq(Entry) /\ InOrder(NoneDue(ts))
         /\ Named(NoneDue(ts)) \subseteq Named(ts)
         /\ \A x \in live : OneTimer(NoneDue(ts), x)
<1> DEFINE old == {g \in DOMAIN ts : ts[g].age = ResendAfter}
           d == Greatest(old)
           us == SubSeq(ts, d + 1, Len(ts))
<1>1. CASE old = {}
  BY <1>1 DEF NoneDue
<1>2. CASE old # {}
  <2>1. Len(ts) \in Nat /\ DOMAIN ts = 1 .. Len(ts) /\ ResendAfter \in Nat
    BY LenProperties, SizesAssumption
  <2>2. old \in SUBSET (0 .. Len(ts))
    BY <2>1
  <2>3. d \in old /\ \A g \in old : g <= d
    <3> HIDE DEF old
    <3> QED BY <1>2, <2>1, <2>2, GreatestIs
  <2>4. d \in 1 .. Len(ts) /\ ts[d].age = ResendAfter
    BY <2>1, <2>3
  <2> HIDE DEF d
  <2>5. NoneDue(ts) = us
    BY <1>2 DEF NoneDue, d
  <2>6. us \in Seq(Entry) /\ InOrder(us) /\ Rest(ts, us, d, 0, 0)
    BY <2>1, <2>4, CutIs
  <2> HIDE DEF us
  <2>7. ASSUME NEW x \in live PROVE OneTimer(us, x)
    <3>1. PICK g, i : Stands(ts, x, g, i)
      BY OneTimerIs
    <3>2. g \in 1 .. Len(ts) /\ ts[g].age \in 0 .. ResendAfter
      BY <3>1, Places
    <3>3. ts[g].age # ResendAfter
      <4>1. i \in Live(ts[g], live)
        BY <3>1 DEF Stands, Live
      <4>2. g \in DOMAIN ts
        BY <3>1 DEF Stands
      <4> QED BY <4>1, <4>2 DEF Due
    <3>4. ~(g < d)
      <4>1. g < d => ts[g].age > ts[d].age \/ ts[g].age = ResendAfter
        BY <2>1, <2>4, <3>2 DEF InOrder
      <4> QED BY <2>1, <2>4, <3>2, <3>3, <4>1
    <3>5. g > d
      BY <2>1, <2>4, <3>2, <3>3, <3>4
    <3>6. d \in Nat /\ (g = 0 => i < 0)
      BY <2>4, <3>2
    <3> QED BY <2>6, <3>1, <3>5, <3>6, Moved
  <2>8. Named(us) \subseteq Named(ts)
    <3>1. d \in Nat
      BY <2>4
    <3> QED BY <2>6, <3>1, Moved
  <2>9. QED
    BY <2>5, <2>6, <2>7, <2>8
<1>3. QED
  BY <1>1, <1>2

\* The end of a list of timers from entry g0 on, which keeps the first i0 - 1
\* messages of that entry.
LEMMA TrimIs ==
  ASSUME NEW ts \in Seq(Entry), InOrder(ts), NEW g0 \in 1 .. Len(ts),
         NEW i0 \in 2 .. Len(ts[g0].ids)
  PROVE  LET us == <<[age |-> ts[g0].age, ids |-> SubSeq(ts[g0].ids, 1, i0 - 1)]>>
                     \o SubSeq(ts, g0 + 1, Len(ts)) IN
         us \in Seq(Entry) /\ InOrder(us) /\ Rest(ts, us, g0 - 1, g0, i0)
<1> DEFINE n == Len(ts)
           ids == ts[g0].ids
           cut == SubSeq(ids, 1, i0 - 1)
           e == [age |-> ts[g0].age, ids |-> cut]
           rs == SubSeq(ts, g0 + 1, n)
           us == <<e>> \o rs
<1>1. n \in Nat /\ DOMAIN ts = 1 .. n /\ g0 \in Nat \ {0} /\ g0 <= n /\ ts[g0] \in Entry
  BY LenProperties, ElementOfSeq
<1>2. ids \in Seq(Nat) /\ ts[g0].age \in 0 .. ResendAfter
  BY <1>1 DEF Entry
<1>3. Len(ids) \in Nat /\ DOMAIN ids = 1 .. Len(ids) /\ i0 \in Nat /\ i0 >= 2 /\ i0 <= Len(ids)
  BY <1>2, LenProperties
<1>4. \A i \in 1 .. i0 - 1 : ids[i] \in Nat
  BY <1>2, <1>3, ElementOfSeq
<1>5. /\ cut \in Seq(Nat)
      /\ Len(cut) = IF 1 <= i0 - 1 THEN (i0 - 1) - 1 + 1 ELSE 0
      /\ \A i \in 1 .. (i0 - 1) - 1 + 1 : cut[i] = ids[1 + i - 1]
  <2> HIDE DEF ids
  <2>1. 1 \in Int /\ i0 - 1 \in Int
    BY <1>3
  <2> QED BY <1>2, <1>4, <2>1, SubSeqProperties
<1>6. Len(cut) = i0 - 1 /\ \A i \in 1 .. i0 - 1 : cut[i] = ids[i]
  <2> HIDE DEF cut, ids
  <2>1. 1 <= i0 - 1 /\ (i0 - 1) - 1 + 1 = i0 - 1 /\ \A i \in 1 .. i0 - 1 : 1 + i - 1 = i
    BY <1>3
  <2> QED BY <1>5, <2>1
<1>7. DOMAIN cut = 1 .. i0 - 1 /\ cut # <<>>
  <2> HIDE DEF cut
  <2> QED BY <1>3, <1>5, <1>6, LenProperties, EmptySeq
<1>8. e \in Entry /\ e.age = ts[g0].age /\ e.ids = cut
  <2> HIDE DEF cut
  <2> QED BY <1>2, <1>5, <1>7 DEF Entry
<1>9. /\ rs \in Seq(Entry) /\ Len(rs) = n - g0
      /\ \A g \in 1 .. n - g0 : rs[g] = ts[g + g0]
  <2>1. g0 \in 0 .. Len(ts)
    BY <1>1
  <2> QED BY <2>1, CutIs
<1> HIDE DEF e, rs, cut, ids
<1>10. /\ <<e>> \in Seq(Entry) /\ Len(<<e>>) = 1 /\ <<e>>[1] = e
  BY <1>8
<1>11. /\ us \in Seq(Entry) /\ Len(us) = 1 + (n - g0)
       /\ \A g \in 1 .. 1 + (n - g0) : us[g] = IF g <= 1 THEN <<e>>[g] ELSE rs[g - 1]
  <2> DEFINE one == <<e>>
  <2>1. one \in Seq(Entry) /\ Len(one) = 1 /\ us = one \o rs
    BY <1>10
  <2> HIDE DEF one, us
  <2>2. /\ one \o rs \in Seq(Entry) /\ Len(one \o rs) = Len(one) + Len(rs)
        /\ \A g \in 1 .. Len(one) + Len(rs) : (one \o rs)[g] =
              IF g <= Len(one) THEN one[g] ELSE rs[g - Len(one)]
    BY <1>9, <2>1, ConcatProperties
  <2> QED BY <1>9, <2>1, <2>2 DEF one
<1> HIDE DEF us
<1>12. DOMAIN us = 1 .. 1 + (n - g0) /\ us[1] = e
  BY <1>1, <1>10, <1>11, LenProperties
<1>13. \A g \in 2 .. 1 + (n - g0) : us[g] = ts[g + (g0 - 1)]
  <2> SUFFICES ASSUME NEW g \in 2 .. 1 + (n - g0) PROVE us[g] = ts[g + (g0 - 1)]
    OBVIOUS
  <2>1. g \in 1 .. 1 + (n - g0) /\ ~(g <= 1) /\ g - 1 \in 1 .. n - g0
        /\ (g - 1) + g0 = g + (g0 - 1)
    BY <1>1
  <2> QED BY <1>9, <1>11, <2>1
<1>14. \A g \in 1 .. 1 + (n - g0) : /\ g + (g0 - 1) \in DOMAIN ts
                                    /\ us[g].age = ts[g + (g0 - 1)].age
  <2> SUFFICES ASSUME NEW g \in 1 .. 1 + (n - g0)
               PROVE  g + (g0 - 1) \in DOMAIN ts /\ us[g].age = ts[g + (g0 - 1)].age
    OBVIOUS
  <2>1. g + (g0 - 1) \in DOMAIN ts
    BY <1>1
  <2>2. CASE g = 1
    BY <1>1, <1>8, <1>12, <2>1, <2>2
  <2>3. CASE g # 1
    BY <1>1, <1>13, <2>1, <2>3
  <2> QED BY <2>1, <2>2, <2>3
<1>15. InOrder(us)
  <2> SUFFICES ASSUME NEW g \in DOMAIN us, NEW h \in DOMAIN us, g < h
               PROVE  us[g].age > us[h].age \/ us[g].age = ResendAfter
    BY DEF InOrder
  <2>1. g + (g0 - 1) < h + (g0 - 1)
    BY <1>1, <1>12
  <2> QED BY <1>12, <1>14, <2>1 DEF InOrder
<1>16. Rest(ts, us, g0 - 1, g0, i0)
  <2> SUFFICES ASSUME NEW x, NEW g, NEW i
               PROVE  Stands(us, x, g, i) <=>
                        /\ g \in Nat \ {0} /\ Stands(ts, x, g + (g0 - 1), i)
                        /\ g + (g0 - 1) = g0 => i < i0
    BY DEF Rest
  <2>1. CASE g = 1
    <3>1. 1 \in DOMAIN us /\ g + (g0 - 1) = g0 /\ g \in Nat \ {0}
      BY <1>1, <1>12, <2>1
    <3>2. Stands(us, x, 1, i) <=> i \in 1 .. i0 - 1 /\ cut[i] = x
      BY <1>7, <1>8, <1>12, <3>1 DEF Stands
    <3>3. Stands(ts, x, g0, i) <=> i \in 1 .. Len(ids) /\ ids[i] = x
      BY <1>1, <1>3 DEF Stands, ids
    <3>4. i \in 1 .. i0 - 1 <=> i \in 1 .. Len(ids) /\ i < i0
      BY <1>3
    <3> QED BY <1>6, <2>1, <3>1, <3>2, <3>3, <3>4
  <2>2. CASE g \in 2 .. 1 + (n - g0)
    <3>1. g \in DOMAIN us /\ g + (g0 - 1) \in DOMAIN ts /\ g + (g0 - 1) # g0 /\ g \in Nat \ {0}
      BY <1>1, <1>12, <2>2
    <3> QED BY <1>13, <2>2, <3>1 DEF Stands
  <2>3. CASE g # 1 /\ g \notin 2 .. 1 + (n - g0)
    <3>1. g \notin DOMAIN us
      BY <1>1, <1>12, <2>3
    <3>2. ASSUME g \in Nat \ {0}, g + (g0 - 1) \in 1 .. n PROVE FALSE
      BY <1>1, <2>3, <3>2
    <3> QED BY <1>1, <3>1, <3>2 DEF Stands
  <2> QED BY <2>1, <2>2, <2>3
<1>17. QED
  BY <1>11, <1>15, <1>16 DEF us, e, rs, cut, ids

\* The message that is resent is in flight, and with it goes its place in the
\* timers; the other messages in flight keep theirs (pop_retry_msg_id).
LEMMA AfterDueKeeps ==
  ASSUME NEW ts \in Seq(Entry), InOrder(ts), NEW live, Due(ts, live) # {},
         \A x \in live : OneTimer(ts, x)
  PROVE  /\ DueId(ts, live) \in live /\ DueId(ts, live) \in Named(ts)
         /\ AfterDue(ts, live) \in Seq(Entry) /\ InOrder(AfterDue(ts, live))
         /\ Named(AfterDue(ts, live)) \subseteq Named(ts) \ {DueId(ts, live)}
         /\ \A x \in live \ {DueId(ts, live)} : OneTimer(AfterDue(ts, live), x)
<1> DEFINE g0 == Least(Due(ts, live))
           i0 == Greatest(Live(ts[g0], live))
           id == DueId(ts, live)
           us == AfterDue(ts, live)
<1>1. Len(ts) \in Nat /\ DOMAIN ts = 1 .. Len(ts) /\ ResendAfter \in Nat
  BY LenProperties, SizesAssumption
<1>2. Due(ts, live) \in SUBSET Nat
  BY <1>1 DEF Due
<1>3. g0 \in Due(ts, live) /\ \A g \in Due(ts, live) : g0 <= g
  BY <1>2, LeastIs
<1>4. id = ts[g0].ids[i0]
  BY DEF DueId
<1>5. us = IF i0 = 1 THEN SubSeq(ts, g0 + 1, Len(ts))
           ELSE <<[age |-> ts[g0].age, ids |-> SubSeq(ts[g0].ids, 1, i0 - 1)]>>
                  \o SubSeq(ts, g0 + 1, Len(ts))
  BY DEF AfterDue
<1> HIDE DEF g0
<1>6. /\ g0 \in 1 .. Len(ts) /\ g0 \in Nat \ {0} /\ ts[g0].age = ResendAfter
      /\ Live(ts[g0], live) # {} /\ ts[g0] \in Entry
  BY <1>1, <1>3, ElementOfSeq DEF Due
<1>7. ts[g0].ids \in Seq(Nat)
  BY <1>6 DEF Entry
<1>8. Len(ts[g0].ids) \in Nat /\ DOMAIN ts[g0].ids = 1 .. Len(ts[g0].ids)
  BY <1>7, LenProperties
<1>9. Live(ts[g0], live) \in SUBSET (0 .. Len(ts[g0].ids))
  BY <1>8 DEF Live
<1>10. i0 \in Live(ts[g0], live) /\ \A i \in Live(ts[g0], live) : i <= i0
  BY <1>6, <1>8, <1>9, GreatestIs
<1> HIDE DEF i0, id, us
<1>11. i0 \in 1 .. Len(ts[g0].ids) /\ i0 \in Nat \ {0} /\ id \in live
  BY <1>4, <1>8, <1>10 DEF Live
<1>12. Stands(ts, id, g0, i0)
  BY <1>1, <1>4, <1>6, <1>8, <1>11 DEF Stands
<1>13. \A g, i : Stands(ts, id, g, i) => g = g0 /\ i = i0
  BY <1>11, <1>12, OneTimerIs
<1>14. ASSUME NEW x \in live, x # id
       PROVE  \E g, i : Stands(ts, x, g, i) /\ g \in Nat /\ g >= g0 /\ (g = g0 => i \in Nat \ {0} /\ i < i0)
  <2>1. PICK g, i : Stands(ts, x, g, i)
    BY OneTimerIs
  <2>2. g \in 1 .. Len(ts) /\ g \in Nat /\ ts[g].age \in 0 .. ResendAfter /\ i \in Nat \ {0}
    BY <2>1, Places
  <2>3. i \in Live(ts[g], live)
    BY <2>1 DEF Stands, Live
  <2>4. g >= g0
    <3>1. ASSUME g < g0 PROVE ts[g].age = ResendAfter
      <4>1. ts[g].age > ts[g0].age \/ ts[g].age = ResendAfter
        BY <1>1, <1>6, <2>2, <3>1 DEF InOrder
      <4> QED BY <1>1, <1>6, <2>2, <4>1
    <3>2. ts[g].age = ResendAfter => g \in Due(ts, live)
      BY <1>1, <2>2, <2>3 DEF Due
    <3> QED BY <1>3, <1>6, <2>2, <3>1, <3>2
  <2>5. g = g0 => i <= i0 /\ i # i0
    BY <1>4, <1>10, <1>14, <2>1, <2>3 DEF Stands
  <2>6. g = g0 => i < i0
    BY <1>11, <2>2, <2>5
  <2> QED BY <2>1, <2>2, <2>4, <2>6
<1>15. ASSUME NEW d \in Nat, NEW g1 \in Nat, NEW i1 \in Nat, us \in Seq(Entry),
              Rest(ts, us, d, g1, i1),
              \/ d = g0 /\ i0 = 1 /\ g1 = 0 /\ i1 = 0
              \/ d = g0 - 1 /\ g1 = g0 /\ i1 = i0
       PROVE  Named(us) \subseteq Named(ts) \ {id} /\ \A x \in live \ {id} : OneTimer(us, x)
  <2>1. Named(us) \subseteq Named(ts)
    BY <1>15, Moved
  <2>2. id \notin Named(us)
    <3> SUFFICES ASSUME id \in Named(us) PROVE FALSE
      OBVIOUS
    <3>1. PICK g, i : Stands(us, id, g, i)
      BY <1>15, NamedIs
    <3>2. g \in Nat \ {0} /\ Stands(ts, id, g + d, i) /\ (g + d = g1 => i < i1)
      BY <1>15, <3>1 DEF Rest
    <3>3. g + d = g0 /\ i = i0
      BY <1>13, <3>2
    <3> QED BY <1>6, <1>11, <1>15, <3>2, <3>3
  <2>3. ASSUME NEW x \in live \ {id} PROVE OneTimer(us, x)
    <3>1. PICK g, i : Stands(ts, x, g, i) /\ g \in Nat /\ g >= g0 /\ (g = g0 => i \in Nat \ {0} /\ i < i0)
      BY <1>14
    <3>2. g > d /\ (g = g1 => i < i1)
      <4>1. CASE d = g0 /\ i0 = 1 /\ g1 = 0 /\ i1 = 0
        BY <1>6, <3>1, <4>1
      <4>2. CASE d = g0 - 1 /\ g1 = g0 /\ i1 = i0
        BY <1>6, <3>1, <4>2
      <4> QED BY <1>15, <4>1, <4>2
    <3> QED BY <1>15, <3>1, <3>2, Moved
  <2> QED BY <2>1, <2>2, <2>3
<1>16. CASE i0 = 1
  <2>1. us = SubSeq(ts, g0 + 1, Len(ts))
    BY <1>5, <1>16
  <2>2. us \in Seq(Entry) /\ InOrder(us) /\ Rest(ts, us, g0, 0, 0)
    <3>1. g0 \in 0 .. Len(ts)
      BY <1>1, <1>6
    <3> QED BY <2>1, <3>1, CutIs
  <2>3. Named(us) \subseteq Named(ts) \ {id} /\ \A x \in live \ {id} : OneTimer(us, x)
    BY <1>6, <1>15, <1>16, <2>2
  <2> QED BY <1>11, <1>12, <2>2, <2>3, NamedIs DEF id, us
<1>17. CASE i0 # 1
  <2>1. us = <<[age |-> ts[g0].age, ids |-> SubSeq(ts[g0].ids, 1, i0 - 1)]>>
                  \o SubSeq(ts, g0 + 1, Len(ts))
    BY <1>5, <1>17
  <2>2. us \in Seq(Entry) /\ InOrder(us) /\ Rest(ts, us, g0 - 1, g0, i0)
    <3>1. i0 \in 2 .. Len(ts[g0].ids)
      BY <1>8, <1>11, <1>17
    <3> QED BY <1>6, <2>1, <3>1, TrimIs
  <2>3. Named(us) \subseteq Named(ts) \ {id} /\ \A x \in live \ {id} : OneTimer(us, x)
    <3>1. g0 - 1 \in Nat
      BY <1>6
    <3> QED BY <1>6, <1>11, <1>15, <2>2, <3>1
  <2> QED BY <1>11, <1>12, <2>2, <2>3, NamedIs DEF id, us
<1>18. QED
  BY <1>16, <1>17

\* The timers of one moment later.
Later(ts) == [g \in DOMAIN ts |-> IF ts[g].age < ResendAfter
                                  THEN [age |-> ts[g].age + 1, ids |-> ts[g].ids]
                                  ELSE ts[g]]

\* Time moves no message.
LEMMA LaterKeeps ==
  ASSUME NEW ts \in Seq(Entry), InOrder(ts)
  PROVE  /\ Later(ts) \in Seq(Entry) /\ InOrder(Later(ts))
         /\ Named(Later(ts)) = Named(ts)
         /\ \A x : OneTimer(ts, x) => OneTimer(Later(ts), x)
<1> DEFINE us == Later(ts)
<1>1. Len(ts) \in Nat /\ DOMAIN ts = 1 .. Len(ts) /\ ResendAfter \in Nat
  BY LenProperties, SizesAssumption
<1>2. \A g \in 1 .. Len(ts) : /\ us[g] \in Entry /\ us[g].ids = ts[g].ids
                              /\ us[g].age = IF ts[g].age < ResendAfter THEN ts[g].age + 1 ELSE ts[g].age
                              /\ ts[g].age \in 0 .. ResendAfter
  <2> SUFFICES ASSUME NEW g \in 1 .. Len(ts)
               PROVE  /\ us[g] \in Entry /\ us[g].ids = ts[g].ids
                      /\ us[g].age = IF ts[g].age < ResendAfter THEN ts[g].age + 1 ELSE ts[g].age
                      /\ ts[g].age \in 0 .. ResendAfter
    OBVIOUS
  <2>1. ts[g] \in Entry
    BY ElementOfSeq
  <2>2. us[g] = IF ts[g].age < ResendAfter THEN [age |-> ts[g].age + 1, ids |-> ts[g].ids] ELSE ts[g]
    BY <1>1 DEF Later
  <2>3. CASE ts[g].age < ResendAfter
    <3> HIDE DEF us
    <3> QED BY <1>1, <2>1, <2>2, <2>3 DEF Entry
  <2>4. CASE ~(ts[g].age < ResendAfter)
    <3> HIDE DEF us
    <3> QED BY <1>1, <2>1, <2>2, <2>4 DEF Entry
  <2> QED BY <2>3, <2>4
<1>3. DOMAIN us = 1 .. Len(ts) /\ us \in Seq(Entry)
  <2>1. us = [g \in 1 .. Len(ts) |-> us[g]]
    BY <1>1 DEF Later
  <2> HIDE DEF us
  <2> QED BY <1>1, <1>2, <2>1
<1> HIDE DEF us
<1>4. InOrder(us)
  <2> SUFFICES ASSUME NEW g \in DOMAIN us, NEW h \in DOMAIN us, g < h
               PROVE  us[g].age > us[h].age \/ us[g].age = ResendAfter
    BY DEF InOrder
  <2>1. ts[g].age > ts[h].age \/ ts[g].age = ResendAfter
    BY <1>1, <1>3 DEF InOrder
  <2> QED BY <1>1, <1>2, <1>3, <2>1
<1>5. \A x, g, i : Stands(us, x, g, i) <=> Stands(ts, x, g, i)
  BY <1>1, <1>2, <1>3 DEF Stands
<1>6. \A x : x \in Named(us) <=> x \in Named(ts)
  BY <1>3, <1>5, NamedIs
<1>7. ASSUME NEW x, OneTimer(ts, x) PROVE OneTimer(us, x)
  BY <1>5, <1>7, OneTimerIs
<1>8. QED
  BY <1>3, <1>4, <1>6, <1>7 DEF us

------------------------------------------------------------------------------
(* Sequences.                                                              *)

\* What Append adds to a sequence.
LEMMA AppendIs ==
  ASSUME NEW S, NEW s \in Seq(S), NEW x \in S
  PROVE  /\ Append(s, x) \in Seq(S) /\ Range(Append(s, x)) = Range(s) \cup {x}
         /\ (x \notin Range(s) /\ \A i, j \in DOMAIN s : s[i] = s[j] => i = j)
            => \A i, j \in DOMAIN Append(s, x) : Append(s, x)[i] = Append(s, x)[j] => i = j
<1> DEFINE t == Append(s, x)
<1>1. /\ t \in Seq(S) /\ Len(t) = Len(s) + 1 /\ Len(s) \in Nat
      /\ \A i \in 1 .. Len(s) : t[i] = s[i]
      /\ t[Len(s) + 1] = x
  BY AppendProperties, LenProperties
<1>2. DOMAIN s = 1 .. Len(s) /\ DOMAIN t = 1 .. Len(s) + 1
  BY <1>1, LenProperties
<1>3. Range(s) = {s[i] : i \in 1 .. Len(s)} /\ Range(t) = {t[i] : i \in 1 .. Len(s) + 1}
  BY <1>2 DEF Range
<1> HIDE DEF t
<1>4. \A i \in 1 .. Len(s) + 1 : i \in 1 .. Len(s) \/ i = Len(s) + 1
  BY <1>1
<1>5. 1 .. Len(s) \subseteq 1 .. Len(s) + 1 /\ Len(s) + 1 \in 1 .. Len(s) + 1
  BY <1>1
<1>6. Range(t) = Range(s) \cup {x}
  BY <1>1, <1>3, <1>4, <1>5
<1>7. ASSUME x \notin Range(s), \A i, j \in DOMAIN s : s[i] = s[j] => i = j,
             NEW i \in DOMAIN t, NEW j \in DOMAIN t, t[i] = t[j]
      PROVE  i = j
  <2>1. \A k \in 1 .. Len(s) : s[k] # x
    BY <1>3, <1>7
  <2>2. (i \in 1 .. Len(s) \/ i = Len(s) + 1) /\ (j \in 1 .. Len(s) \/ j = Len(s) + 1)
    BY <1>2, <1>4
  <2> QED BY <1>1, <1>2, <1>7, <2>1, <2>2
<1>8. QED
  BY <1>1, <1>6, <1>7 DEF t

\* What Head and Tail part.
LEMMA TailIs ==
  ASSUME NEW S, NEW s \in Seq(S), s # <<>>
  PROVE  /\ Head(s) \in S /\ Tail(s) \in Seq(S)
         /\ Range(s) = Range(Tail(s)) \cup {Head(s)}
         /\ (\A i, j \in DOMAIN s : s[i] = s[j] => i = j)
            => /\ Head(s) \notin Range(Tail(s))
               /\ \A i, j \in DOMAIN Tail(s) : Tail(s)[i] = Tail(s)[j] => i = j
<1> DEFINE t == Tail(s)
<1>1. /\ Head(s) \in S /\ t \in Seq(S) /\ Len(t) = Len(s) - 1
      /\ \A i \in 1 .. Len(t) : t[i] = s[i + 1]
  BY HeadTailProperties
<1>2. Head(s) = s[1]
  OBVIOUS
<1>3. Len(s) \in Nat \ {0} /\ DOMAIN s = 1 .. Len(s)
  BY LenProperties, EmptySeq
<1> HIDE DEF t
<1>4. DOMAIN t = 1 .. Len(s) - 1
  BY <1>1, LenProperties
<1>5. \A i \in 1 .. Len(s) - 1 : i + 1 \in 1 .. Len(s) /\ i + 1 # 1 /\ t[i] = s[i + 1]
  BY <1>1, <1>3
<1>6. \A i \in 1 .. Len(s) : i = 1 \/ (i - 1 \in 1 .. Len(s) - 1 /\ (i - 1) + 1 = i)
  BY <1>3
<1>7. 1 \in 1 .. Len(s)
  BY <1>3
<1>8. Range(s) = {s[i] : i \in 1 .. Len(s)} /\ Range(t) = {t[i] : i \in 1 .. Len(s) - 1}
  BY <1>3, <1>4 DEF Range
<1>9. Range(s) = Range(t) \cup {Head(s)}
  <2>1. ASSUME NEW y \in Range(s) PROVE y \in Range(t) \cup {Head(s)}
    <3>1. PICK i \in 1 .. Len(s) : y = s[i]
      BY <1>8
    <3>2. CASE i = 1
      BY <1>2, <3>1, <3>2
    <3>3. CASE i # 1
      <4>1. i - 1 \in 1 .. Len(s) - 1 /\ t[i - 1] = s[i]
        BY <1>5, <1>6, <3>3
      <4> QED BY <1>8, <3>1, <4>1
    <3> QED BY <3>2, <3>3
  <2>2. ASSUME NEW y \in Range(t) \cup {Head(s)} PROVE y \in Range(s)
    BY <1>2, <1>5, <1>7, <1>8
  <2> QED BY <2>1, <2>2
<1>10. ASSUME \A i, j \in DOMAIN s : s[i] = s[j] => i = j
       PROVE  /\ Head(s) \notin Range(t)
              /\ \A i, j \in DOMAIN t : t[i] = t[j] => i = j
  <2>1. Head(s) \notin Range(t)
    BY <1>2, <1>3, <1>5, <1>7, <1>8, <1>10
  <2>2. ASSUME NEW i \in DOMAIN t, NEW j \in DOMAIN t, t[i] = t[j] PROVE i = j
    <3>1. i + 1 = j + 1 /\ i \in Nat /\ j \in Nat
      BY <1>3, <1>4, <1>5, <1>10, <2>2
    <3> QED BY <3>1
  <2> QED BY <2>1, <2>2
<1>11. QED
  BY <1>1, <1>9, <1>10 DEF t

\* Touch moves a key that is there to the end.
LEMMA TouchIs ==
  ASSUME NEW S, NEW s \in Seq(S), NEW k \in Range(s)
  PROVE  Touch(s, k) \in Seq(S) /\ Range(Touch(s, k)) = Range(s)
<1> DEFINE p == CHOOSE i \in DOMAIN s : s[i] = k
           n == Len(s)
           t == [j \in DOMAIN s |-> IF j < p THEN s[j] ELSE IF j = n THEN k ELSE s[j + 1]]
<1>1. n \in Nat /\ DOMAIN s = 1 .. n /\ \A i \in 1 .. n : s[i] \in S
  BY LenProperties, ElementOfSeq
<1>2. p \in DOMAIN s /\ s[p] = k
  BY DEF Range
<1>3. Touch(s, k) = t
  BY DEF Touch
<1> HIDE DEF p, n
<1>4. p \in 1 .. n /\ p \in Nat
  BY <1>1, <1>2
<1>5. \A j \in 1 .. n : /\ t[j] = IF j < p THEN s[j] ELSE IF j = n THEN k ELSE s[j + 1]
                        /\ ~(j < p) /\ j # n => j + 1 \in 1 .. n
  BY <1>1, <1>4
<1>6. t \in Seq(S)
  <2>1. \A j \in 1 .. n : t[j] \in S
    BY <1>1, <1>2, <1>4, <1>5
  <2>2. t = [j \in 1 .. n |-> t[j]]
    BY <1>1
  <2> HIDE DEF t
  <2> QED BY <1>1, <2>1, <2>2
<1>7. DOMAIN t = 1 .. n
  BY <1>1
<1> HIDE DEF t
<1>8. Range(s) = {s[i] : i \in 1 .. n} /\ Range(t) = {t[i] : i \in 1 .. n}
  BY <1>1, <1>7 DEF Range
<1>9. ASSUME NEW y \in Range(t) PROVE y \in Range(s)
  <2>1. PICK j \in 1 .. n : y = t[j]
    BY <1>8
  <2> QED BY <1>2, <1>4, <1>5, <1>8, <2>1
<1>10. ASSUME NEW y \in Range(s) PROVE y \in Range(t)
  <2>1. PICK i \in 1 .. n : y = s[i]
    BY <1>8
  <2>2. CASE i < p
    BY <1>5, <1>8, <2>1, <2>2
  <2>3. CASE i = p
    <3>1. n \in 1 .. n /\ t[n] = k
      BY <1>1, <1>4, <1>5
    <3> QED BY <1>2, <1>8, <2>1, <2>3, <3>1
  <2>4. CASE i > p
    <3>1. i - 1 \in 1 .. n /\ ~(i - 1 < p) /\ i - 1 # n /\ (i - 1) + 1 = i
      BY <1>1, <1>4, <2>4
    <3> QED BY <1>5, <1>8, <2>1, <3>1
  <2> QED BY <1>1, <1>4, <2>2, <2>3, <2>4
<1>11. QED
  BY <1>3, <1>6, <1>9, <1>10

------------------------------------------------------------------------------
(* The message queue of one agent: what each call keeps.                   *)

\* MessageQueue::new.
LEMMA QueueNew == QueueOK(0, <<>>, {}, <<>>)
<1>1. Named(<<>>) = {}
  BY DEF Named, Stands
<1>2. Range(<<>>) = {}
  BY DEF Range
<1>3. InOrder(<<>>)
  BY DEF InOrder
<1>4. IsFiniteSet({}) /\ Cardinality({}) = 0 /\ 0 <= MaxInflight
  BY FS_EmptySet, SizesAssumption
<1>5. <<>> \in Seq(Nat) /\ <<>> \in Seq(Entry)
  OBVIOUS
<1>6. QED
  BY <1>1, <1>2, <1>3, <1>4, <1>5 DEF QueueOK

\* Control::Request puts a new number at the end of the queue.
LEMMA QueueRequest ==
  ASSUME NEW seed \in Nat, NEW q, NEW fl, NEW ts, QueueOK(seed, q, fl, ts)
  PROVE  QueueOK(seed + 1, Append(q, seed), fl, ts)
<1>0. /\ q \in Seq(Nat) /\ fl \in SUBSET Nat /\ ts \in Seq(Entry)
      /\ \A i, j \in DOMAIN q : q[i] = q[j] => i = j
      /\ Range(q) \cap (fl \cup Named(ts)) = {}
      /\ \A id \in Range(q) \cup fl \cup Named(ts) : id < seed
  BY DEF QueueOK
<1>1. seed \notin Range(q) \cup fl \cup Named(ts)
  BY <1>0
<1>2. Range(q) \cup fl \cup Named(ts) \subseteq Nat
  BY <1>0, RangeOfSeq DEF Named
<1>3. \A id \in Range(q) \cup fl \cup Named(ts) : id < seed + 1
  BY <1>0, <1>2
<1>4. /\ Append(q, seed) \in Seq(Nat) /\ Range(Append(q, seed)) = Range(q) \cup {seed}
      /\ \A i, j \in DOMAIN Append(q, seed) : Append(q, seed)[i] = Append(q, seed)[j] => i = j
  BY <1>0, <1>1, AppendIs
<1>5. Range(Append(q, seed)) \cap (fl \cup Named(ts)) = {}
  BY <1>0, <1>1, <1>4
<1>6. \A id \in Range(Append(q, seed)) \cup fl \cup Named(ts) : id < seed + 1
  BY <1>3, <1>4
<1>7. QED
  BY <1>0, <1>4, <1>5, <1>6 DEF QueueOK

\* pop of a due message takes its timer and gives it a new one.
LEMMA QueueResend ==
  ASSUME NEW seed \in Nat, NEW q, NEW fl, NEW ts, QueueOK(seed, q, fl, ts),
         Due(ts, fl) # {}
  PROVE  /\ DueId(ts, fl) \in fl
         /\ QueueOK(seed, q, fl, Stamp(AfterDue(ts, fl), DueId(ts, fl)))
<1> DEFINE id == DueId(ts, fl)
           us == AfterDue(ts, fl)
           new == Stamp(us, id)
<1>0. /\ q \in Seq(Nat) /\ fl \in SUBSET Nat /\ ts \in Seq(Entry)
      /\ Range(q) \cap (fl \cup Named(ts)) = {}
      /\ \A x \in Range(q) \cup fl \cup Named(ts) : x < seed
      /\ \A x \in fl : OneTimer(ts, x)
      /\ InOrder(ts)
  BY DEF QueueOK
<1>1. /\ id \in fl /\ id \in Named(ts) /\ us \in Seq(Entry) /\ InOrder(us)
      /\ Named(us) \subseteq Named(ts) \ {id}
      /\ \A x \in fl \ {id} : OneTimer(us, x)
  BY <1>0, AfterDueKeeps
<1> HIDE DEF id, us
<1>2. id \in Nat /\ id \notin Named(us)
  BY <1>0, <1>1
<1>3. /\ new \in Seq(Entry) /\ InOrder(new) /\ Named(new) = Named(us) \cup {id}
      /\ OneTimer(new, id) /\ \A x : OneTimer(us, x) => OneTimer(new, x)
  BY <1>1, <1>2, StampKeeps
<1> HIDE DEF new
<1>4. Named(new) \subseteq Named(ts)
  BY <1>1, <1>3
<1>5. \A x \in fl : OneTimer(new, x)
  BY <1>1, <1>3
<1>6. Range(q) \cap (fl \cup Named(new)) = {}
  BY <1>0, <1>4
<1>7. \A x \in Range(q) \cup fl \cup Named(new) : x < seed
  BY <1>0, <1>4
<1>8. QueueOK(seed, q, fl, new)
  BY <1>0, <1>3, <1>5, <1>6, <1>7 DEF QueueOK
<1>9. QED
  BY <1>1, <1>8 DEF new, us, id

\* pop with nothing due drops the timers that have run out.
LEMMA QueueNone ==
  ASSUME NEW seed \in Nat, NEW q, NEW fl, NEW ts, QueueOK(seed, q, fl, ts),
         Due(ts, fl) = {}
  PROVE  QueueOK(seed, q, fl, NoneDue(ts))
<1> DEFINE us == NoneDue(ts)
<1>0. /\ ts \in Seq(Entry)
      /\ Range(q) \cap (fl \cup Named(ts)) = {}
      /\ \A x \in Range(q) \cup fl \cup Named(ts) : x < seed
      /\ \A x \in fl : OneTimer(ts, x)
      /\ InOrder(ts)
  BY DEF QueueOK
<1>1. /\ us \in Seq(Entry) /\ InOrder(us) /\ Named(us) \subseteq Named(ts)
      /\ \A x \in fl : OneTimer(us, x)
  BY <1>0, NoneDueKeeps
<1> HIDE DEF us
<1>2. Range(q) \cap (fl \cup Named(us)) = {}
  BY <1>0, <1>1
<1>3. \A x \in Range(q) \cup fl \cup Named(us) : x < seed
  BY <1>0, <1>1
<1>4. QueueOK(seed, q, fl, us)
  BY <1>1, <1>2, <1>3 DEF QueueOK
<1>5. QED
  BY <1>4 DEF us

\* The window is open.
Open(fl) == Cardinality(fl) < MaxInflight

\* pop of a new message moves it from the queue into the window.
LEMMA QueueSend ==
  ASSUME NEW seed \in Nat, NEW q, NEW fl, NEW ts, QueueOK(seed, q, fl, ts),
         Due(ts, fl) = {}, q # <<>>, Open(fl),
         NEW id, id = Head(q), NEW t, t = Tail(q), NEW fl2, fl2 = fl \cup {id}
  PROVE  QueueOK(seed, t, fl2, Stamp(NoneDue(ts), id))
<1> DEFINE us == NoneDue(ts)
           new == Stamp(us, id)
<1>0. QueueOK(seed, q, fl, us)
  BY QueueNone
<1> HIDE DEF us
<1>1. /\ q \in Seq(Nat) /\ fl \in SUBSET Nat /\ us \in Seq(Entry)
      /\ \A i, j \in DOMAIN q : q[i] = q[j] => i = j
      /\ Range(q) \cap (fl \cup Named(us)) = {}
      /\ \A x \in Range(q) \cup fl \cup Named(us) : x < seed
      /\ \A x \in fl : OneTimer(us, x)
      /\ InOrder(us)
      /\ IsFiniteSet(fl)
  BY <1>0 DEF QueueOK
<1>2. /\ id \in Nat /\ t \in Seq(Nat) /\ Range(q) = Range(t) \cup {id}
      /\ id \notin Range(t)
      /\ \A i, j \in DOMAIN t : t[i] = t[j] => i = j
  BY <1>1, TailIs
<1>3. id \notin fl /\ id \notin Named(us)
  BY <1>1, <1>2
<1>4. /\ new \in Seq(Entry) /\ InOrder(new) /\ Named(new) = Named(us) \cup {id}
      /\ OneTimer(new, id) /\ \A x : OneTimer(us, x) => OneTimer(new, x)
  BY <1>1, <1>2, <1>3, StampKeeps
<1> HIDE DEF new
<1>5. IsFiniteSet(fl2) /\ Cardinality(fl2) <= MaxInflight
  <2>1. IsFiniteSet(fl2) /\ Cardinality(fl2) = Cardinality(fl) + 1 /\ Cardinality(fl) \in Nat
    BY <1>1, <1>3, FS_AddElement, FS_CardinalityType
  <2> QED BY <2>1, SizesAssumption DEF Open
<1>6. fl2 \in SUBSET Nat /\ \A x \in fl2 : OneTimer(new, x)
  BY <1>1, <1>2, <1>4
<1>7. Range(t) \cap (fl2 \cup Named(new)) = {}
  BY <1>1, <1>2, <1>4
<1>8. \A x \in Range(t) \cup fl2 \cup Named(new) : x < seed
  BY <1>1, <1>2, <1>4
<1>9. QueueOK(seed, t, fl2, new)
  BY <1>2, <1>4, <1>5, <1>6, <1>7, <1>8 DEF QueueOK
<1>10. QED
  BY <1>9 DEF new, us

\* Time passes for the timers.
LEMMA QueueLater ==
  ASSUME NEW seed \in Nat, NEW q, NEW fl, NEW ts, QueueOK(seed, q, fl, ts)
  PROVE  QueueOK(seed, q, fl, Later(ts))
<1> DEFINE us == Later(ts)
<1>0. ts \in Seq(Entry) /\ InOrder(ts) /\ \A x \in fl : OneTimer(ts, x)
  BY DEF QueueOK
<1>1. /\ us \in Seq(Entry) /\ InOrder(us) /\ Named(us) = Named(ts)
      /\ \A x : OneTimer(ts, x) => OneTimer(us, x)
  BY <1>0, LaterKeeps
<1> HIDE DEF us
<1>2. QueueOK(seed, q, fl, us)
  BY <1>0, <1>1 DEF QueueOK
<1>3. QED
  BY <1>2 DEF us

\* on_ack takes a message out of the window; its timer stays.
LEMMA QueueAck ==
  ASSUME NEW seed \in Nat, NEW q, NEW fl, NEW ts, QueueOK(seed, q, fl, ts), NEW x
  PROVE  QueueOK(seed, q, fl \ {x}, ts)
<1>0. IsFiniteSet(fl) /\ Cardinality(fl) <= MaxInflight
  BY DEF QueueOK
<1>1. IsFiniteSet(fl \ {x}) /\ Cardinality(fl \ {x}) <= Cardinality(fl)
  <2>1. fl \ {x} \in SUBSET fl
    OBVIOUS
  <2> QED BY <1>0, <2>1, FS_Subset
<1>2. Cardinality(fl \ {x}) \in Nat /\ Cardinality(fl) \in Nat /\ MaxInflight \in Nat
  BY <1>0, <1>1, FS_CardinalityType, SizesAssumption
<1>3. Cardinality(fl \ {x}) <= MaxInflight
  BY <1>0, <1>1, <1>2
<1>4. fl \ {x} \subseteq fl
  OBVIOUS
<1>5. QED
  BY <1>1, <1>3, <1>4 DEF QueueOK
=============================================================================
