------------------------ MODULE ControlStreamProofs ------------------------
(***************************************************************************)
(* Lemmas about maps of sets and about legal streams.                      *)
(***************************************************************************)
EXTENDS ControlStream, TLAPS

-----------------------------------------------------------------------------
(* Maps of sets.                                                           *)

\* A map of sets is a function with keys in S and values that are subsets of T.
LEMMA SetMapDef ==
  ASSUME NEW S, NEW T, NEW f
  PROVE  f \in SetMap(S, T) <=>
           /\ f = [x \in DOMAIN f |-> f[x]]
           /\ DOMAIN f \subseteq S
           /\ \A x \in DOMAIN f : f[x] \subseteq T
<1>1. ASSUME f \in SetMap(S, T)
      PROVE  /\ f = [x \in DOMAIN f |-> f[x]]
             /\ DOMAIN f \subseteq S
             /\ \A x \in DOMAIN f : f[x] \subseteq T
  <2>1. PICK D \in SUBSET S : f \in [D -> SUBSET T]
    BY <1>1 DEF SetMap
  <2>2. QED
    BY <2>1
<1>2. ASSUME f = [x \in DOMAIN f |-> f[x]], DOMAIN f \subseteq S,
             \A x \in DOMAIN f : f[x] \subseteq T
      PROVE  f \in SetMap(S, T)
  <2>1. f \in [DOMAIN f -> SUBSET T]
    BY <1>2
  <2>2. QED
    BY <1>2, <2>1 DEF SetMap
<1>3. QED
  BY <1>1, <1>2

\* The empty map.
LEMMA EmptyMap ==
  ASSUME NEW S, NEW T
  PROVE  Empty \in SetMap(S, T) /\ DOMAIN Empty = {} /\ \A y : Members(Empty, y) = {}
<1>1. Empty \in [{} -> SUBSET T] /\ DOMAIN Empty = {}
  BY DEF Empty
<1>2. QED
  BY <1>1 DEF SetMap, Members

\* With and Keep give maps of sets.
LEMMA MapTypes ==
  ASSUME NEW S, NEW T, NEW f \in SetMap(S, T), NEW x \in S, NEW v \in SUBSET T
  PROVE  With(f, x, v) \in SetMap(S, T) /\ Keep(f, x, v) \in SetMap(S, T)
<1>1. DOMAIN f \subseteq S /\ \A y \in DOMAIN f : f[y] \subseteq T
  BY SetMapDef
<1>2. With(f, x, v) \in [DOMAIN f \union {x} -> SUBSET T] /\ DOMAIN f \union {x} \in SUBSET S
  BY <1>1 DEF With
<1>3. Without(f, x) \in [DOMAIN f \ {x} -> SUBSET T] /\ DOMAIN f \ {x} \in SUBSET S
  BY <1>1 DEF Without
<1>4. With(f, x, v) \in SetMap(S, T) /\ Without(f, x) \in SetMap(S, T)
  BY <1>2, <1>3 DEF SetMap
<1>5. QED
  BY <1>4 DEF Keep

-----------------------------------------------------------------------------
(* Streams.                                                                *)

\* Nothing to send: the network already knows.
LEMMA LegalEmpty ==
  ASSUME NEW b \in 0..1
  PROVE  Legal(<<>>, b, b)
<1> DEFINE lv == [i \in 0..0 |-> b]
<1>1. Len(<<>>) = 0 /\ lv \in [0..0 -> 0..1] /\ lv[0] = b /\ 1..0 = {}
  OBVIOUS
<1>2. QED
  BY <1>1 DEF Legal

\* A legal stream stays legal when an output that fits its end is appended.
LEMMA LegalAppend ==
  ASSUME NEW q \in Seq(Op), NEW op \in Op,
         NEW was \in 0..1, NEW b \in 0..1, NEW will \in 0..1,
         Legal(q, was, b),
         op = "Start" => b = 0 /\ will = 1,
         op = "Stop" => b = 1 /\ will = 0,
         op = "Data" => b = 1 /\ will = 1
  PROVE  Legal(Append(q, op), was, will)
<1> DEFINE n == Len(q)
           r == Append(q, op)
<1>1. PICK lv \in [0..n -> 0..1] :
        /\ lv[0] = was /\ lv[n] = b
        /\ \A i \in 1..n :
             /\ q[i] = "Start" => lv[i-1] = 0 /\ lv[i] = 1
             /\ q[i] = "Stop" => lv[i-1] = 1 /\ lv[i] = 0
             /\ q[i] = "Data" => lv[i-1] = 1 /\ lv[i] = 1
  BY DEF Legal
<1> DEFINE lw == [i \in 0..n+1 |-> IF i = n+1 THEN will ELSE lv[i]]
<1>2. n \in Nat /\ Len(r) = n + 1 /\ r[n+1] = op /\ \A i \in 1..n : r[i] = q[i]
  OBVIOUS
<1>3. lw \in [0..Len(r) -> 0..1] /\ lw[0] = was /\ lw[Len(r)] = will
  BY <1>1, <1>2
<1>4. ASSUME NEW i \in 1..Len(r)
      PROVE  /\ r[i] = "Start" => lw[i-1] = 0 /\ lw[i] = 1
             /\ r[i] = "Stop" => lw[i-1] = 1 /\ lw[i] = 0
             /\ r[i] = "Data" => lw[i-1] = 1 /\ lw[i] = 1
  <2>1. CASE i = n + 1
    BY <1>1, <1>2, <2>1
  <2>2. CASE i # n + 1
    <3>1. i \in 1..n /\ lw[i-1] = lv[i-1] /\ lw[i] = lv[i] /\ r[i] = q[i]
      BY <1>2, <2>2
    <3>2. QED
      BY <1>1, <3>1
  <2>3. QED
    BY <2>1, <2>2
<1>5. QED
  BY <1>3, <1>4 DEF Legal

\* Handing the head of a legal stream to the network leaves a legal stream.
LEMMA LegalTail ==
  ASSUME NEW q \in Seq(Op), q # <<>>,
         NEW was \in 0..1, NEW will \in 0..1, NEW now \in 0..1,
         Legal(q, was, will),
         Head(q) = "Start" => now = 1,
         Head(q) = "Stop" => now = 0,
         Head(q) = "Data" => now = was
  PROVE  Legal(Tail(q), now, will)
<1> DEFINE n == Len(q)
           r == Tail(q)
<1>1. PICK lv \in [0..n -> 0..1] :
        /\ lv[0] = was /\ lv[n] = will
        /\ \A i \in 1..n :
             /\ q[i] = "Start" => lv[i-1] = 0 /\ lv[i] = 1
             /\ q[i] = "Stop" => lv[i-1] = 1 /\ lv[i] = 0
             /\ q[i] = "Data" => lv[i-1] = 1 /\ lv[i] = 1
  BY DEF Legal
<1> DEFINE lw == [i \in 0..n-1 |-> lv[i+1]]
<1>2. /\ n \in Nat /\ n > 0 /\ Len(r) = n - 1
      /\ \A i \in 1..n-1 : r[i] = q[i+1]
      /\ Head(q) = q[1] /\ q[1] \in Op
  OBVIOUS
<1>3. lw \in [0..Len(r) -> 0..1] /\ lw[Len(r)] = will
  BY <1>1, <1>2
<1>4. lw[0] = now
  BY <1>1, <1>2 DEF Op
<1>5. ASSUME NEW i \in 1..Len(r)
      PROVE  /\ r[i] = "Start" => lw[i-1] = 0 /\ lw[i] = 1
             /\ r[i] = "Stop" => lw[i-1] = 1 /\ lw[i] = 0
             /\ r[i] = "Data" => lw[i-1] = 1 /\ lw[i] = 1
  <2>1. i + 1 \in 1..n /\ lw[i-1] = lv[(i+1)-1] /\ lw[i] = lv[i+1] /\ r[i] = q[i+1]
    BY <1>2
  <2>2. QED
    BY <1>1, <2>1
<1>6. QED
  BY <1>3, <1>4, <1>5 DEF Legal

\* A drained legal stream means that the levels agree.
LEMMA LegalDrained ==
  ASSUME NEW a, NEW b, Legal(<<>>, a, b)
  PROVE  a = b
BY DEF Legal

\* A level is 0 or 1.
LEMMA LevelType == \A c, S : Level(c, S) \in 0..1
BY DEF Level
=============================================================================
