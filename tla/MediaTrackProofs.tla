-------------------------- MODULE MediaTrackProofs --------------------------
(***************************************************************************)
(* Proofs about MediaTrack, for any sets of sources, viewers and channels, *)
(* any feedback timeout and any queue bound.                               *)
(***************************************************************************)
EXTENDS MediaTrack, ControlStreamProofs

\* The streams of a half are legal towards a network in which the channels of
\* S are on.
HalfStreams(h, S) ==
  \A c \in Channels : Legal(h.queue[c], Level(c, S), Level(c, DOMAIN h.users))

\* What each half maintains: its type, its index and its streams.
HalfInv(h, U, S) == h \in Half(U) /\ Consistent(h, U) /\ HalfStreams(h, S)

-----------------------------------------------------------------------------
(* The operations of a half.                                               *)

\* The parts of a half.
LEMMA HalfParts ==
  ASSUME NEW h, NEW U
  PROVE  h \in Half(U) <=>
           /\ h = [chan |-> h.chan, users |-> h.users, queue |-> h.queue]
           /\ h.chan \in ChanMap(U)
           /\ h.users \in SetMap(Channels, U)
           /\ h.queue \in [Channels -> Seq(Op)]
BY DEF Half

\* A map from some users to channels.
LEMMA ChanMapDef ==
  ASSUME NEW f, NEW U
  PROVE  f \in ChanMap(U) <=>
           /\ f = [x \in DOMAIN f |-> f[x]]
           /\ DOMAIN f \subseteq U
           /\ \A x \in DOMAIN f : f[x] \in Channels
<1>1. ASSUME f \in ChanMap(U)
      PROVE  /\ f = [x \in DOMAIN f |-> f[x]]
             /\ DOMAIN f \subseteq U
             /\ \A x \in DOMAIN f : f[x] \in Channels
  <2>1. PICK D \in SUBSET U : f \in [D -> Channels]
    BY <1>1 DEF ChanMap
  <2>2. QED
    BY <2>1
<1>2. ASSUME f = [x \in DOMAIN f |-> f[x]], DOMAIN f \subseteq U,
             \A x \in DOMAIN f : f[x] \in Channels
      PROVE  f \in ChanMap(U)
  <2>1. f \in [DOMAIN f -> Channels] /\ DOMAIN f \in SUBSET U
    BY <1>2
  <2>2. QED
    BY <2>1 DEF ChanMap
<1>3. QED
  BY <1>1, <1>2

\* Pushed queues are queues.
LEMMA QueuedType ==
  ASSUME NEW U, NEW h \in Half(U), NEW C, NEW op \in Op
  PROVE  Queued(h, C, op) \in [Channels -> Seq(Op)]
BY HalfParts DEF Queued

\* Pushing to the channels of C an output that fits there keeps the streams
\* legal.
LEMMA PushStreams ==
  ASSUME NEW U, NEW h \in Half(U), NEW g \in Half(U), NEW S, HalfStreams(h, S),
         NEW C \in SUBSET Channels, NEW op \in Op,
         g.queue = Queued(h, C, op),
         \A c \in Channels \ C : c \in DOMAIN g.users <=> c \in DOMAIN h.users,
         \A c \in C : c \in DOMAIN h.users <=> op # "Start",
         \A c \in C : c \in DOMAIN g.users <=> op # "Stop"
  PROVE  HalfStreams(g, S)
<1> SUFFICES ASSUME NEW c \in Channels
             PROVE  Legal(g.queue[c], Level(c, S), Level(c, DOMAIN g.users))
  BY DEF HalfStreams
<1>1. Legal(h.queue[c], Level(c, S), Level(c, DOMAIN h.users)) /\ h.queue[c] \in Seq(Op)
  BY HalfParts DEF HalfStreams
<1>2. CASE c \in C
  <2>1. /\ op = "Start" => Level(c, DOMAIN h.users) = 0 /\ Level(c, DOMAIN g.users) = 1
        /\ op = "Stop" => Level(c, DOMAIN h.users) = 1 /\ Level(c, DOMAIN g.users) = 0
        /\ op = "Data" => Level(c, DOMAIN h.users) = 1 /\ Level(c, DOMAIN g.users) = 1
    BY <1>2 DEF Level
  <2>2. Legal(Append(h.queue[c], op), Level(c, S), Level(c, DOMAIN g.users))
    BY <1>1, <2>1, LevelType, LegalAppend
  <2>3. QED
    BY <1>2, <2>2 DEF Queued
<1>3. CASE c \notin C
  BY <1>1, <1>3 DEF Level, Queued
<1>4. QED
  BY <1>2, <1>3

\* A new half satisfies its invariant.
LEMMA NewHalfInv ==
  ASSUME NEW U
  PROVE  HalfInv(NewHalf, U, {})
<1>1. Empty \in ChanMap(U)
  BY EmptyMap, ChanMapDef DEF Empty
<1>2. NewHalf \in Half(U) /\ NewHalf.users = Empty /\ NewHalf.chan = Empty
  BY <1>1, EmptyMap DEF NewHalf, Half
<1>3. Consistent(NewHalf, U)
  BY <1>2, EmptyMap DEF Consistent
<1>4. HalfStreams(NewHalf, {})
  <2> SUFFICES ASSUME NEW c \in Channels
               PROVE  Legal(NewHalf.queue[c], Level(c, {}), Level(c, DOMAIN NewHalf.users))
    BY DEF HalfStreams
  <2>1. NewHalf.queue[c] = <<>> /\ Level(c, {}) = 0 /\ Level(c, DOMAIN NewHalf.users) = 0
    BY <1>2, EmptyMap DEF NewHalf, Level
  <2>2. QED
    BY <2>1, LegalEmpty
<1>5. QED
  BY <1>2, <1>3, <1>4 DEF HalfInv

\* The first user starts the channel, any other only enters the index.
LEMMA EnterInv ==
  ASSUME NEW h, NEW U, NEW S, HalfInv(h, U, S), NEW u \in U, NEW c \in Channels,
         u \in DOMAIN h.chan => h.chan[u] = c
  PROVE  HalfInv(Enter(h, u, c), U, S)
<1> DEFINE g == Enter(h, u, c)
           C == {c} \ DOMAIN h.users
           op == "Start"
<1>1. h \in Half(U) /\ Consistent(h, U) /\ HalfStreams(h, S)
  BY DEF HalfInv
<1>2. /\ g.chan = With(h.chan, u, c)
      /\ g.users = With(h.users, c, Members(h.users, c) \union {u})
      /\ g.queue = Queued(h, C, op)
      /\ g = [chan |-> g.chan, users |-> g.users, queue |-> g.queue]
  BY DEF Enter
<1> HIDE DEF g
<1>3. Members(h.users, c) \union {u} \in SUBSET U
  BY <1>1, HalfParts, SetMapDef DEF Members
<1>4. g.users \in SetMap(Channels, U)
  BY <1>1, <1>2, <1>3, HalfParts, MapTypes
<1>5. g.chan \in ChanMap(U)
  <2>1. h.chan \in ChanMap(U)
    BY <1>1, HalfParts
  <2>2. DOMAIN h.chan \subseteq U /\ \A x \in DOMAIN h.chan : h.chan[x] \in Channels
    BY <2>1, ChanMapDef
  <2>3. g.chan \in [DOMAIN h.chan \union {u} -> Channels] /\ DOMAIN h.chan \union {u} \in SUBSET U
    BY <1>2, <2>2 DEF With
  <2>4. QED
    BY <2>3 DEF ChanMap
<1>6. /\ DOMAIN g.users = DOMAIN h.users \union {c}
      /\ \A d : Members(g.users, d) = IF d = c THEN Members(h.users, c) \union {u} ELSE Members(h.users, d)
      /\ DOMAIN g.chan = DOMAIN h.chan \union {u}
      /\ \A x \in DOMAIN g.chan : g.chan[x] = IF x = u THEN c ELSE h.chan[x]
  BY <1>2 DEF With, Members
<1>7. /\ C \in SUBSET Channels /\ op \in Op
      /\ \A d \in Channels \ C : d \in DOMAIN g.users <=> d \in DOMAIN h.users
      /\ \A d \in C : d \in DOMAIN h.users <=> op # "Start"
      /\ \A d \in C : d \in DOMAIN g.users <=> op # "Stop"
  BY <1>6 DEF Op
<1>8. Consistent(g, U)
  BY <1>1, <1>6 DEF Consistent, Members
<1> HIDE DEF C, op
<1>9. g \in Half(U)
  BY <1>1, <1>2, <1>4, <1>5, <1>7, QueuedType, HalfParts
<1>10. HalfStreams(g, S)
  BY <1>1, <1>2, <1>7, <1>9, PushStreams
<1>11. QED
  BY <1>8, <1>9, <1>10 DEF HalfInv, g

\* The last user stops the channel, any other only leaves the index.
LEMMA ExitInv ==
  ASSUME NEW h, NEW U, NEW S, HalfInv(h, U, S), NEW u \in U
  PROVE  HalfInv(Exit(h, u), U, S)
<1> DEFINE g == Exit(h, u)
           c == h.chan[u]
           left == h.users[c] \ {u}
           C == IF left = {} THEN {c} ELSE {}
           op == "Stop"
<1>1. /\ h \in Half(U) /\ Consistent(h, U) /\ HalfStreams(h, S)
      /\ DOMAIN h.chan \subseteq U /\ \A x \in DOMAIN h.chan : h.chan[x] \in Channels
      /\ DOMAIN h.users \subseteq Channels /\ \A d \in DOMAIN h.users : h.users[d] \subseteq U
  <2>1. h \in Half(U) /\ Consistent(h, U) /\ HalfStreams(h, S)
    BY DEF HalfInv
  <2>2. h.chan \in ChanMap(U) /\ h.users \in SetMap(Channels, U)
    BY <2>1, HalfParts
  <2>3. DOMAIN h.chan \subseteq U /\ \A x \in DOMAIN h.chan : h.chan[x] \in Channels
    BY <2>2, ChanMapDef
  <2>4. QED
    BY <2>1, <2>2, <2>3, SetMapDef
<1>2. CASE u \notin DOMAIN h.chan
  BY <1>2 DEF Exit
<1>3. CASE u \in DOMAIN h.chan
  <2>1. /\ g.chan = Without(h.chan, u)
        /\ g.users = Keep(h.users, c, left)
        /\ g.queue = Queued(h, C, op)
        /\ g = [chan |-> g.chan, users |-> g.users, queue |-> g.queue]
    BY <1>3 DEF Exit
  <2> HIDE DEF g
  <2>2. c \in Channels /\ c \in DOMAIN h.users /\ u \in h.users[c] /\ left \in SUBSET U
    BY <1>1, <1>3 DEF Consistent, Members
  <2>3. g.users \in SetMap(Channels, U)
    BY <1>1, <2>1, <2>2, HalfParts, MapTypes
  <2>4. g.chan \in ChanMap(U)
    <3>1. g.chan \in [DOMAIN h.chan \ {u} -> Channels] /\ DOMAIN h.chan \ {u} \in SUBSET U
      BY <1>1, <2>1 DEF Without
    <3>2. QED
      BY <3>1 DEF ChanMap
  <2>5. /\ DOMAIN g.chan = DOMAIN h.chan \ {u}
        /\ \A x \in DOMAIN g.chan : g.chan[x] = h.chan[x]
    BY <2>1 DEF Without
  <2>6. /\ DOMAIN g.users = DOMAIN h.users \ C
        /\ \A d \in DOMAIN g.users : g.users[d] = IF d = c THEN left ELSE h.users[d]
    BY <2>1, <2>2 DEF Keep, With, Without
  <2>7. /\ C \in SUBSET Channels /\ op \in Op
        /\ \A d \in Channels \ C : d \in DOMAIN g.users <=> d \in DOMAIN h.users
        /\ \A d \in C : d \in DOMAIN h.users <=> op # "Start"
        /\ \A d \in C : d \in DOMAIN g.users <=> op # "Stop"
    BY <2>2, <2>6 DEF Op
  <2>8. Consistent(g, U)
    <3>1. \A d \in DOMAIN g.users : g.users[d] # {}
      BY <1>1, <2>6 DEF Consistent
    <3>2. ASSUME NEW d \in Channels, NEW x \in U
          PROVE  x \in Members(g.users, d) <=> (x \in DOMAIN g.chan /\ g.chan[x] = d)
      <4>1. x \in Members(h.users, d) <=> (x \in DOMAIN h.chan /\ h.chan[x] = d)
        BY <1>1 DEF Consistent
      <4>2. x \in Members(g.users, d) <=> x \in Members(h.users, d) /\ x # u
        <5>1. x \in Members(g.users, d) <=> x \in Members(h.users, d) /\ ~(d = c /\ x = u)
          BY <2>2, <2>6 DEF Members
        <5>2. x = u /\ x \in Members(h.users, d) => d = c
          BY <4>1
        <5>3. QED
          BY <5>1, <5>2
      <4>3. QED
        BY <2>5, <4>1, <4>2
    <3>3. QED
      BY <3>1, <3>2 DEF Consistent
  <2> HIDE DEF C, op, left, c
  <2>9. g \in Half(U)
    BY <1>1, <2>1, <2>3, <2>4, <2>7, QueuedType, HalfParts
  <2>10. HalfStreams(g, S)
    BY <1>1, <2>1, <2>7, <2>9, PushStreams
  <2>11. QED
    BY <2>8, <2>9, <2>10 DEF HalfInv, g
<1>4. QED
  BY <1>2, <1>3

\* Data for a live channel fits the end of its stream.
LEMMA DataInv ==
  ASSUME NEW h, NEW U, NEW S, HalfInv(h, U, S), NEW c \in Channels, c \in DOMAIN h.users
  PROVE  HalfInv(Push(h, c, "Data"), U, S)
<1> DEFINE g == Push(h, c, "Data")
           C == {c}
           op == "Data"
<1>1. h \in Half(U) /\ Consistent(h, U) /\ HalfStreams(h, S)
  BY DEF HalfInv
<1>2. /\ g.users = h.users /\ g.chan = h.chan
      /\ g.queue = Queued(h, C, op)
      /\ g = [chan |-> g.chan, users |-> g.users, queue |-> g.queue]
  BY DEF Push
<1> HIDE DEF g
<1>3. Consistent(g, U)
  BY <1>1, <1>2 DEF Consistent
<1>4. /\ C \in SUBSET Channels /\ op \in Op
      /\ \A d \in Channels \ C : d \in DOMAIN g.users <=> d \in DOMAIN h.users
      /\ \A d \in C : d \in DOMAIN h.users <=> op # "Start"
      /\ \A d \in C : d \in DOMAIN g.users <=> op # "Stop"
  BY <1>2 DEF Op
<1> HIDE DEF C, op
<1>5. g \in Half(U)
  BY <1>1, <1>2, <1>4, QueuedType, HalfParts
<1>6. HalfStreams(g, S)
  BY <1>1, <1>2, <1>4, <1>5, PushStreams
<1>7. QED
  BY <1>3, <1>5, <1>6 DEF HalfInv, g

\* A user's channel is live.
LEMMA UserIsLive ==
  ASSUME NEW h, NEW U, NEW S, HalfInv(h, U, S), NEW u \in U, u \in DOMAIN h.chan
  PROVE  h.chan[u] \in Channels /\ h.chan[u] \in DOMAIN h.users /\ u \in Members(h.users, h.chan[u])
<1>1. h.chan \in ChanMap(U) /\ Consistent(h, U)
  BY HalfParts DEF HalfInv
<1>2. h.chan[u] \in Channels
  BY <1>1, ChanMapDef
<1>3. QED
  BY <1>1, <1>2 DEF Consistent, Members

\* The network applies the head of a stream.
LEMMA PopInv ==
  ASSUME NEW h, NEW U, NEW S \in SUBSET Channels, HalfInv(h, U, S),
         NEW c \in Channels, h.queue[c] # <<>>
  PROVE  /\ HalfInv(Pop(h, c), U, Apply(S, c, Head(h.queue[c])))
         /\ Apply(S, c, Head(h.queue[c])) \in SUBSET Channels
<1> DEFINE g == Pop(h, c)
           A == Apply(S, c, Head(h.queue[c]))
<1>1. h \in Half(U) /\ Consistent(h, U) /\ HalfStreams(h, S) /\ h.queue \in [Channels -> Seq(Op)]
  BY HalfParts DEF HalfInv
<1>2. /\ g.users = h.users /\ g.chan = h.chan
      /\ g.queue = [h.queue EXCEPT ![c] = Tail(h.queue[c])]
      /\ g = [chan |-> g.chan, users |-> g.users, queue |-> g.queue]
  BY DEF Pop
<1> HIDE DEF g
<1>3. Head(h.queue[c]) \in Op
  BY <1>1
<1>4. /\ A \in SUBSET Channels
      /\ Head(h.queue[c]) = "Start" => A = S \union {c}
      /\ Head(h.queue[c]) = "Stop" => A = S \ {c}
      /\ Head(h.queue[c]) = "Data" => A = S
  BY <1>3 DEF Apply, Op
<1> HIDE DEF A
<1>5. g \in Half(U)
  <2>1. g.queue \in [Channels -> Seq(Op)]
    BY <1>1, <1>2
  <2>2. QED
    BY <1>1, <1>2, <2>1, HalfParts
<1>6. Consistent(g, U)
  BY <1>1, <1>2 DEF Consistent
<1>7. HalfStreams(g, A)
  <2> SUFFICES ASSUME NEW d \in Channels
               PROVE  Legal(g.queue[d], Level(d, A), Level(d, DOMAIN g.users))
    BY DEF HalfStreams
  <2>1. Legal(h.queue[d], Level(d, S), Level(d, DOMAIN h.users)) /\ h.queue[d] \in Seq(Op)
    BY <1>1 DEF HalfStreams
  <2>2. CASE d = c
    <3>1. /\ Head(h.queue[d]) = "Start" => Level(d, A) = 1
          /\ Head(h.queue[d]) = "Stop" => Level(d, A) = 0
          /\ Head(h.queue[d]) = "Data" => Level(d, A) = Level(d, S)
      BY <1>4, <2>2 DEF Level
    <3>2. Legal(Tail(h.queue[d]), Level(d, A), Level(d, DOMAIN h.users))
      BY <2>1, <2>2, <3>1, LevelType, LegalTail
    <3>3. g.queue[d] = Tail(h.queue[d])
      BY <1>1, <1>2, <2>2
    <3>4. QED
      BY <1>2, <3>2, <3>3
  <2>3. CASE d # c
    <3>1. g.queue[d] = h.queue[d]
      BY <1>1, <1>2, <2>3
    <3>2. Level(d, A) = Level(d, S)
      BY <1>3, <1>4, <2>3 DEF Level, Op
    <3>3. QED
      BY <1>2, <2>1, <3>1, <3>2
  <2>4. QED
    BY <2>2, <2>3
<1>8. QED
  BY <1>4, <1>5, <1>6, <1>7 DEF HalfInv, g, A

-----------------------------------------------------------------------------
(* The inductive invariant.                                                *)

\* A kept wish is never younger than the endpoint's absence is long, and an
\* endpoint with a viewer is not absent: what WishesOfViewers rests on.
WishInv ==
  /\ fbs \in [Channels -> [Endpoints -> 0..NoWish]]
  /\ summed \in [Channels -> SUBSET Endpoints]
  /\ idle \in [Channels -> [Endpoints -> 0..FbTimeout]]
  /\ \A c \in Channels, e \in Endpoints : fbs[c][e] < FbTimeout => idle[c][e] <= fbs[c][e]
  /\ \A c \in Channels, e \in Endpoints : Watches(e, c) => idle[c][e] = 0

IInv ==
  /\ sdnPub \in SUBSET Channels /\ sdnSub \in SUBSET Channels
  /\ HalfInv(pub, Sources, sdnPub)
  /\ HalfInv(sub, Viewers, sdnSub)
  /\ WishInv

\* The new room satisfies the invariant.
LEMMA InitIInv == Init => IInv
<1> SUFFICES ASSUME Init PROVE IInv
  OBVIOUS
<1>1. HalfInv(pub, Sources, sdnPub) /\ HalfInv(sub, Viewers, sdnSub)
  BY NewHalfInv DEF Init
<1>2. \A c : Members(sub.users, c) = {}
  BY EmptyMap DEF Init, NewHalf
<1>3. WishInv
  BY <1>2, FbTimeoutAssumption DEF Init, WishInv, NoWish, Watches
<1>4. QED
  BY <1>1, <1>3 DEF Init, IInv

\* What the subscriber's viewers see of a step that adds none.
LEMMA WishKept ==
  ASSUME WishInv, UNCHANGED <<fbs, summed, idle>>,
         \A c \in Channels : Members(sub'.users, c) \subseteq Members(sub.users, c)
  PROVE  WishInv'
BY DEF WishInv, Watches

\* Only a viewer that subscribes adds to the users of a channel.
LEMMA ExitShrinks ==
  ASSUME NEW u, NEW U, NEW S, HalfInv(sub, U, S), u \in U
  PROVE  \A c \in Channels : Members(Exit(sub, u).users, c) \subseteq Members(sub.users, c)
<1>1. CASE u \notin DOMAIN sub.chan
  BY <1>1 DEF Exit
<1>2. CASE u \in DOMAIN sub.chan
  <2> DEFINE d == sub.chan[u]
  <2>1. d \in DOMAIN sub.users
    BY <1>2, UserIsLive
  <2>2. Exit(sub, u).users = Keep(sub.users, d, sub.users[d] \ {u})
    BY <1>2 DEF Exit
  <2> HIDE DEF d
  <2>3. QED
    BY <2>1, <2>2 DEF Keep, With, Without, Members
<1>3. QED
  BY <1>1, <1>2

\* A new viewer is not absent.
LEMMA SubscribeWish ==
  ASSUME IInv, NEW v \in Viewers, NEW c \in Channels, Subscribe(v, c)
  PROVE  WishInv'
<1> USE DEF IInv
<1>1. /\ sub'.users = With(sub.users, c, Members(sub.users, c) \union {v})
      /\ idle' = [idle EXCEPT ![c] = [idle[c] EXCEPT ![EndpointOf[v]] = 0]]
      /\ UNCHANGED <<fbs, summed>>
  BY DEF Subscribe, Enter
<1>2. EndpointOf[v] \in Endpoints
  BY EndpointOfAssumption
<1>3. idle' \in [Channels -> [Endpoints -> 0..FbTimeout]]
  BY <1>1, <1>2, FbTimeoutAssumption DEF WishInv
<1>4. \A d \in Channels, e \in Endpoints :
        idle'[d][e] = IF d = c /\ e = EndpointOf[v] THEN 0 ELSE idle[d][e]
  BY <1>1, <1>2 DEF WishInv
<1>5. \A d \in Channels, e \in Endpoints : fbs'[d][e] < FbTimeout => idle'[d][e] <= fbs'[d][e]
  BY <1>1, <1>4, FbTimeoutAssumption DEF WishInv, NoWish
<1>6. ASSUME NEW d \in Channels, NEW e \in Endpoints, Watches(e, d)'
      PROVE  idle'[d][e] = 0
  <2>1. PICK w \in Members(sub'.users, d) : EndpointOf[w] = e
    BY <1>6 DEF Watches
  <2>2. w \in Members(sub.users, d) \/ (d = c /\ w = v)
    BY <1>1, <2>1 DEF With, Members
  <2>3. CASE w \in Members(sub.users, d)
    BY <1>4, <2>1, <2>3 DEF WishInv, Watches
  <2>4. CASE d = c /\ w = v
    BY <1>4, <2>1, <2>4
  <2>5. QED
    BY <2>2, <2>3, <2>4
<1>7. QED
  BY <1>1, <1>3, <1>5, <1>6 DEF WishInv

\* A container that goes takes its wishes along.
LEMMA UnsubscribeWish ==
  ASSUME IInv, NEW v \in Viewers, Unsubscribe(v)
  PROVE  WishInv'
<1> USE DEF IInv
<1>1. \A c \in Channels : Members(sub'.users, c) \subseteq Members(sub.users, c)
  BY ExitShrinks DEF Unsubscribe
<1>2. /\ UNCHANGED <<summed, idle>>
      /\ \A c \in Channels : fbs'[c] = fbs[c] \/ fbs'[c] = [e \in Endpoints |-> NoWish]
      /\ fbs' \in [Channels -> [Endpoints -> 0..NoWish]]
  BY FbTimeoutAssumption DEF Unsubscribe, WishInv, NoWish
<1>3. \A c \in Channels, e \in Endpoints : fbs'[c][e] = fbs[c][e] \/ fbs'[c][e] = NoWish
  BY <1>2
<1>4. ~(NoWish < FbTimeout)
  BY FbTimeoutAssumption DEF NoWish
<1>5. \A c \in Channels, e \in Endpoints : fbs'[c][e] < FbTimeout => idle'[c][e] <= fbs'[c][e]
  BY <1>2, <1>3, <1>4 DEF WishInv
<1>6. \A c \in Channels, e \in Endpoints : Watches(e, c)' => idle'[c][e] = 0
  BY <1>1, <1>2 DEF WishInv, Watches
<1>7. QED
  BY <1>2, <1>5, <1>6 DEF WishInv

\* A viewer's wish is a wish of an endpoint that watches the channel.
LEMMA DesiredWish ==
  ASSUME IInv, NEW v \in Viewers, DesiredBitrate(v)
  PROVE  /\ WishInv'
         /\ \A c \in Channels : summed'[c] # summed[c] => \A e \in summed'[c] : idle[c][e] < FbTimeout
<1> USE DEF IInv
<1> DEFINE d == sub.chan[v]
           x == EndpointOf[v]
           f == Live([fbs[d] EXCEPT ![x] = 0])
<1>1. d \in Channels /\ d \in DOMAIN sub.users /\ v \in Members(sub.users, d)
  BY UserIsLive DEF DesiredBitrate
<1>2. x \in Endpoints
  BY EndpointOfAssumption
<1>3. idle[d][x] = 0
  BY <1>1, <1>2 DEF WishInv, Watches
<1>4. /\ fbs' = [fbs EXCEPT ![d] = f]
      /\ summed' = [summed EXCEPT ![d] = {e \in Endpoints : f[e] # NoWish}]
      /\ sub'.users = sub.users
      /\ idle' = idle
  BY DEF DesiredBitrate, Push
<1>5. f \in [Endpoints -> 0..NoWish]
  BY <1>1, <1>2, FbTimeoutAssumption DEF WishInv, Live, NoWish
<1>6. ASSUME NEW e \in Endpoints
      PROVE  /\ f[e] = NoWish \/ (f[e] < FbTimeout /\ idle[d][e] <= f[e])
             /\ f[e] < FbTimeout => f[e] # NoWish
  <2>1. fbs[d][e] \in 0..NoWish /\ idle[d][e] \in 0..FbTimeout
    BY <1>1 DEF WishInv
  <2>2. [fbs[d] EXCEPT ![x] = 0][e] = IF e = x THEN 0 ELSE fbs[d][e]
    BY <1>1, <1>2 DEF WishInv
  <2>3. f[e] = IF e = x THEN 0 ELSE IF fbs[d][e] < FbTimeout THEN fbs[d][e] ELSE NoWish
    BY <2>2, FbTimeoutAssumption DEF Live
  <2> HIDE DEF f, d, x
  <2>4. fbs[d][e] < FbTimeout => idle[d][e] <= fbs[d][e]
    BY <1>1 DEF WishInv, d
  <2>5. QED
    BY <1>3, <2>1, <2>3, <2>4, FbTimeoutAssumption DEF NoWish
<1> HIDE DEF f, d, x
<1>7. fbs' \in [Channels -> [Endpoints -> 0..NoWish]] /\ summed' \in [Channels -> SUBSET Endpoints]
  BY <1>1, <1>4, <1>5 DEF WishInv
<1>8. ASSUME NEW c \in Channels, NEW e \in Endpoints, fbs'[c][e] < FbTimeout
      PROVE  idle'[c][e] <= fbs'[c][e]
  <2>1. fbs'[c][e] = IF c = d THEN f[e] ELSE fbs[c][e]
    BY <1>1, <1>4 DEF WishInv
  <2>2. ~(NoWish < FbTimeout)
    BY FbTimeoutAssumption DEF NoWish
  <2>3. QED
    BY <1>4, <1>6, <1>8, <2>1, <2>2 DEF WishInv
<1>9. \A c \in Channels, e \in Endpoints : Watches(e, c)' => idle'[c][e] = 0
  BY <1>4 DEF WishInv, Watches
<1>10. WishInv'
  BY <1>4, <1>7, <1>8, <1>9 DEF WishInv
<1>11. ASSUME NEW c \in Channels, summed'[c] # summed[c], NEW e \in summed'[c]
       PROVE  idle[c][e] < FbTimeout
  <2>1. c = d /\ e \in Endpoints /\ f[e] # NoWish
    BY <1>1, <1>4, <1>11 DEF WishInv
  <2>2. f[e] \in 0..NoWish /\ idle[d][e] \in 0..FbTimeout /\ f[e] < FbTimeout /\ idle[d][e] <= f[e]
    BY <1>1, <1>5, <1>6, <2>1 DEF WishInv
  <2>3. QED
    BY <2>1, <2>2, FbTimeoutAssumption DEF NoWish
<1>12. QED
  BY <1>10, <1>11

\* Wishes and absences age together.
LEMMA TickWish ==
  ASSUME IInv, Tick
  PROVE  WishInv'
<1> USE DEF IInv
<1>1. sub' = sub /\ summed' = summed
  BY DEF Tick
<1>2. ASSUME NEW c \in Channels, NEW e \in Endpoints
      PROVE  /\ fbs'[c][e] = IF fbs[c][e] < FbTimeout THEN fbs[c][e] + 1 ELSE fbs[c][e]
             /\ idle'[c][e] = IF Watches(e, c) THEN 0
                              ELSE IF idle[c][e] < FbTimeout THEN idle[c][e] + 1 ELSE FbTimeout
             /\ fbs[c][e] \in 0..NoWish /\ idle[c][e] \in 0..FbTimeout
  BY DEF Tick, WishInv
<1>3. \A c \in Channels, e \in Endpoints : fbs'[c][e] \in 0..NoWish /\ idle'[c][e] \in 0..FbTimeout
  BY <1>2, FbTimeoutAssumption DEF NoWish
<1>4. fbs' \in [Channels -> [Endpoints -> 0..NoWish]] /\ idle' \in [Channels -> [Endpoints -> 0..FbTimeout]]
  BY <1>3 DEF Tick
<1>5. \A c \in Channels, e \in Endpoints : fbs'[c][e] < FbTimeout => idle'[c][e] <= fbs'[c][e]
  BY <1>2, FbTimeoutAssumption DEF WishInv, NoWish
<1>6. \A c \in Channels, e \in Endpoints : Watches(e, c)' => idle'[c][e] = 0
  BY <1>1, <1>2 DEF Watches
<1>7. QED
  BY <1>1, <1>4, <1>5, <1>6 DEF WishInv

\* A handler of the publisher leaves the subscriber's side alone.
LEMMA PublisherStep ==
  ASSUME IInv, PublisherSteps, sdnPub' \in SUBSET Channels, HalfInv(pub', Sources, sdnPub')
  PROVE  IInv'
<1>1. WishInv'
  BY WishKept DEF IInv, PublisherSteps
<1>2. QED
  BY <1>1 DEF IInv, PublisherSteps

\* A handler of the subscriber leaves the publisher's side alone.
LEMMA SubscriberStep ==
  ASSUME IInv, SubscriberSteps, sdnSub' \in SUBSET Channels, HalfInv(sub', Viewers, sdnSub'), WishInv'
  PROVE  IInv'
BY DEF IInv, SubscriberSteps

\* Every handler and every pop preserves the invariant.
LEMMA NextIInv == IInv /\ [Next]_vars => IInv'
<1> SUFFICES ASSUME IInv, [Next]_vars PROVE IInv'
  OBVIOUS
<1>a. /\ HalfInv(pub, Sources, sdnPub) /\ sdnPub \in SUBSET Channels
      /\ HalfInv(sub, Viewers, sdnSub) /\ sdnSub \in SUBSET Channels
      /\ WishInv
  BY DEF IInv
<1>1. ASSUME NEW s \in Sources, NEW c \in Channels, Publish(s, c) PROVE IInv'
  BY <1>a, <1>1, EnterInv, PublisherStep DEF Publish
<1>2. ASSUME NEW s \in Sources, Unpublish(s) PROVE IInv'
  BY <1>a, <1>2, ExitInv, PublisherStep DEF Unpublish
<1>3. ASSUME NEW s \in Sources, PublishData(s) PROVE IInv'
  <2>1. s \in DOMAIN pub.chan => pub.chan[s] \in Channels /\ pub.chan[s] \in DOMAIN pub.users
    BY <1>a, UserIsLive
  <2>2. HalfInv(pub', Sources, sdnPub)
    BY <1>a, <1>3, <2>1, DataInv DEF PublishData
  <2>3. QED
    BY <1>a, <1>3, <2>2, PublisherStep DEF PublishData
<1>4. ASSUME NEW c \in Channels, FeedbackData(c) PROVE IInv'
  BY <1>a, <1>4, DataInv, PublisherStep DEF FeedbackData
<1>5. ASSUME NEW v \in Viewers, NEW c \in Channels, Subscribe(v, c) PROVE IInv'
  BY <1>a, <1>5, EnterInv, SubscribeWish, SubscriberStep DEF Subscribe
<1>6. ASSUME NEW v \in Viewers, Unsubscribe(v) PROVE IInv'
  BY <1>a, <1>6, ExitInv, UnsubscribeWish, SubscriberStep DEF Unsubscribe
<1>7. ASSUME NEW v \in Viewers, RequestKey(v) PROVE IInv'
  <2>1. v \in DOMAIN sub.chan => sub.chan[v] \in Channels /\ sub.chan[v] \in DOMAIN sub.users
    BY <1>a, UserIsLive
  <2>2. HalfInv(sub', Viewers, sdnSub)
    BY <1>a, <1>7, <2>1, DataInv DEF RequestKey
  <2>3. WishInv'
    BY <1>a, <1>7, WishKept DEF RequestKey, Push
  <2>4. QED
    BY <1>a, <1>7, <2>2, <2>3, SubscriberStep DEF RequestKey
<1>8. ASSUME NEW v \in Viewers, DesiredBitrate(v) PROVE IInv'
  <2>1. sub.chan[v] \in Channels /\ sub.chan[v] \in DOMAIN sub.users
    BY <1>a, <1>8, UserIsLive DEF DesiredBitrate
  <2>2. sub' = Push(sub, sub.chan[v], "Data") /\ sdnSub' = sdnSub /\ SubscriberSteps
    BY <1>8 DEF DesiredBitrate
  <2>3. HalfInv(sub', Viewers, sdnSub')
    BY <1>a, <2>1, <2>2, DataInv
  <2>4. QED
    BY <1>a, <1>8, <2>2, <2>3, DesiredWish, SubscriberStep
<1>9. ASSUME NEW c \in Channels, ChannelEvent(c) PROVE IInv'
  <2>1. HalfInv(sub', Viewers, sdnSub)
    BY <1>a, <1>9, DataInv DEF ChannelEvent
  <2>2. WishInv'
    BY <1>a, <1>9, WishKept DEF ChannelEvent, Push
  <2>3. QED
    BY <1>a, <1>9, <2>1, <2>2, SubscriberStep DEF ChannelEvent
<1>10. ASSUME NEW c \in Channels, PopPublisher(c) PROVE IInv'
  BY <1>a, <1>10, PopInv, PublisherStep DEF PopPublisher
<1>11. ASSUME NEW c \in Channels, PopSubscriber(c) PROVE IInv'
  <2>1. HalfInv(sub', Viewers, sdnSub') /\ sdnSub' \in SUBSET Channels
    BY <1>a, <1>11, PopInv DEF PopSubscriber
  <2>2. WishInv'
    BY <1>a, <1>11, WishKept DEF PopSubscriber, Pop
  <2>3. QED
    BY <1>11, <2>1, <2>2, SubscriberStep DEF PopSubscriber
<1>12. ASSUME Tick PROVE IInv'
  BY <1>a, <1>12, TickWish DEF Tick, IInv
<1>13. CASE UNCHANGED vars
  BY <1>13 DEF vars, IInv, WishInv, Watches
<1>14. QED
  BY <1>1, <1>2, <1>3, <1>4, <1>5, <1>6, <1>7, <1>8, <1>9, <1>10, <1>11, <1>12, <1>13 DEF Next

\* A half without users is empty once its streams are drained, and the network
\* has nothing of it on.
LEMMA HalfReleased ==
  ASSUME NEW h, NEW U, NEW S \in SUBSET Channels, HalfInv(h, U, S),
         DOMAIN h.chan = {}, \A c \in Channels : h.queue[c] = <<>>
  PROVE  IsEmpty(h) /\ S = {}
<1>1. Consistent(h, U) /\ HalfStreams(h, S) /\ h.users \in SetMap(Channels, U)
  BY HalfParts DEF HalfInv
<1>2. DOMAIN h.users \subseteq Channels /\ \A c \in DOMAIN h.users : h.users[c] \subseteq U
  BY <1>1, SetMapDef
<1>3. DOMAIN h.users = {}
  BY <1>1, <1>2 DEF Consistent, Members
<1>4. ASSUME NEW c \in S PROVE FALSE
  <2>1. Legal(<<>>, Level(c, S), Level(c, DOMAIN h.users))
    BY <1>1 DEF HalfStreams
  <2>2. Level(c, S) = 1 /\ Level(c, DOMAIN h.users) = 0
    BY <1>3 DEF Level
  <2>3. QED
    BY <2>1, <2>2, LegalDrained
<1>5. QED
  BY <1>3, <1>4 DEF IsEmpty

\* The invariant implies the properties.
LEMMA IInvImplies == IInv => TypeOK /\ IndexConsistent /\ StreamsLegal /\ Released
<1> SUFFICES ASSUME IInv PROVE TypeOK /\ IndexConsistent /\ StreamsLegal /\ Released
  OBVIOUS
<1>1. TypeOK /\ IndexConsistent
  BY DEF IInv, HalfInv, WishInv, TypeOK, IndexConsistent
<1>2. StreamsLegal
  BY DEF IInv, HalfInv, HalfStreams, StreamsLegal
<1>3. Released
  BY HalfReleased DEF IInv, Released
<1>4. QED
  BY <1>1, <1>2, <1>3

\* Only on_track_desired_bitrate sends a bitrate feedback.
LEMMA NextWishes ==
  IInv /\ [Next]_vars =>
    \A c \in Channels : summed'[c] # summed[c] => \A e \in summed'[c] : idle[c][e] < FbTimeout
<1> SUFFICES ASSUME IInv, [Next]_vars
             PROVE  \A c \in Channels : summed'[c] # summed[c] => \A e \in summed'[c] : idle[c][e] < FbTimeout
  OBVIOUS
<1>1. CASE \E v \in Viewers : DesiredBitrate(v)
  BY <1>1, DesiredWish
<1>2. CASE ~ \E v \in Viewers : DesiredBitrate(v)
  <2>1. summed' = summed
    BY <1>2 DEF Next, vars, Publish, Unpublish, PublishData, FeedbackData, PopPublisher, PublisherSteps,
                Subscribe, Unsubscribe, RequestKey, ChannelEvent, PopSubscriber, Tick
  <2>2. QED
    BY <2>1
<1>3. QED
  BY <1>1, <1>2

\* Every reachable state of the room satisfies the inductive invariant.
THEOREM Invariance == Spec => []IInv
BY InitIInv, NextIInv, PTL DEF Spec

\* The state keeps its shape.
THEOREM TypeSafety == Spec => []TypeOK
BY Invariance, IInvImplies, PTL

\* Both directions of the publisher's and of the subscriber's index agree, so
\* the expectations of on_track_unpublish hold in every reachable state.
THEOREM IndexSafety == Spec => []IndexConsistent
BY Invariance, IInvImplies, PTL

\* The pub/sub network receives alternating starts and stops, with media and
\* feedback only in between.
THEOREM StreamSafety == Spec => []StreamsLegal
BY Invariance, IInvImplies, PTL

\* Without users and outputs nothing is left, neither in the component (the
\* Drop assertions) nor in the network.
THEOREM ReleaseSafety == Spec => []Released
BY Invariance, IInvImplies, PTL

\* A bitrate feedback sums only wishes of endpoints that watch the channel or
\* did so within the timeout.
THEOREM WishSafety == Spec => WishesOfViewers
<1>1. IInv /\ [Next]_vars =>
        [\A c \in Channels : summed'[c] # summed[c] => \A e \in summed'[c] : idle[c][e] < FbTimeout]_vars
  BY NextWishes
<1>2. QED
  BY <1>1, Invariance, PTL DEF Spec, WishesOfViewers
=============================================================================
