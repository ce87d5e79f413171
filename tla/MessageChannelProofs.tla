------------------------ MODULE MessageChannelProofs ------------------------
(***************************************************************************)
(* Proofs about MessageChannel, for any sets of endpoints and channels and *)
(* any queue bound.                                                        *)
(***************************************************************************)
EXTENDS MessageChannel, ControlStreamProofs

\* The streams of a half are legal towards a network in which the channels of
\* S are on.
HalfStreams(h, S) ==
  \A c \in Channels : Legal(h.queue[c], Level(c, S), Level(c, DOMAIN h.users))

\* What each half maintains: its type, its index and its streams.
HalfInv(h, J, S) == h \in Half /\ Consistent(h, J) /\ HalfStreams(h, S)

-----------------------------------------------------------------------------
(* The operations of a half.                                               *)

\* The parts of a half.
LEMMA HalfParts ==
  ASSUME NEW h
  PROVE  h \in Half <=>
           /\ h = [users |-> h.users, chans |-> h.chans, queue |-> h.queue]
           /\ h.users \in SetMap(Channels, Endpoints)
           /\ h.chans \in SetMap(Endpoints, Channels)
           /\ h.queue \in [Channels -> Seq(Op)]
BY DEF Half

\* Pushed queues are queues.
LEMMA QueuedType ==
  ASSUME NEW h \in Half, NEW C, NEW op \in Op
  PROVE  Queued(h, C, op) \in [Channels -> Seq(Op)]
BY HalfParts DEF Queued

\* Pushing to the channels of C an output that fits there keeps the streams
\* legal.
LEMMA PushStreams ==
  ASSUME NEW h \in Half, NEW g \in Half, NEW S, HalfStreams(h, S),
         NEW C \in SUBSET Channels, NEW op \in Op,
         g.queue = Queued(h, C, op),
         \A c \in Channels \ C : c \in DOMAIN g.users <=> c \in DOMAIN h.users,
         \A c \in C : c \in DOMAIN h.users <=> op # "Start",
         \A c \in C : c \in DOMAIN g.users <=> op # "Stop"
  PROVE  HalfStreams(g, S)
<1> SUFFICES ASSUME NEW c \in Channels
             PROVE  Legal(g.queue[c], Level(c, S), Level(c, DOMAIN g.users))
  BY DEF HalfStreams
<1>1. Legal(h.queue[c], Level(c, S), Level(c, DOMAIN h.users)) /\ h.queue[c] \in Seq(Op)
  BY HalfParts DEF HalfStreams
<1>2. CASE c \in C
  <2>1. /\ op = "Start" => Level(c, DOMAIN h.users) = 0 /\ Level(c, DOMAIN g.users) = 1
        /\ op = "Stop" => Level(c, DOMAIN h.users) = 1 /\ Level(c, DOMAIN g.users) = 0
        /\ op = "Data" => Level(c, DOMAIN h.users) = 1 /\ Level(c, DOMAIN g.users) = 1
    BY <1>2 DEF Level
  <2>2. Legal(Append(h.queue[c], op), Level(c, S), Level(c, DOMAIN g.users))
    BY <1>1, <2>1, LevelType, LegalAppend
  <2>3. QED
    BY <1>2, <2>2 DEF Queued
<1>3. CASE c \notin C
  BY <1>1, <1>3 DEF Level, Queued
<1>4. QED
  BY <1>2, <1>3

\* A new half satisfies its invariant.
LEMMA NewHalfInv == HalfInv(NewHalf, {}, {})
<1>1. NewHalf \in Half /\ NewHalf.users = Empty /\ NewHalf.chans = Empty
  BY EmptyMap DEF NewHalf, Half
<1>2. Consistent(NewHalf, {})
  BY <1>1, EmptyMap DEF Consistent
<1>3. HalfStreams(NewHalf, {})
  <2> SUFFICES ASSUME NEW c \in Channels
               PROVE  Legal(NewHalf.queue[c], Level(c, {}), Level(c, DOMAIN NewHalf.users))
    BY DEF HalfStreams
  <2>1. NewHalf.queue[c] = <<>> /\ Level(c, {}) = 0 /\ Level(c, DOMAIN NewHalf.users) = 0
    BY <1>1, EmptyMap DEF NewHalf, Level
  <2>2. QED
    BY <2>1, LegalEmpty
<1>4. QED
  BY <1>1, <1>2, <1>3 DEF HalfInv

\* Endpoints that join do not disturb a half.
LEMMA JoinInv ==
  ASSUME NEW h, NEW J, NEW K, NEW S, J \subseteq K, HalfInv(h, J, S)
  PROVE  HalfInv(h, K, S)
BY DEF HalfInv, Consistent

\* The first user starts the channel, any other only enters the index.
LEMMA EnterInv ==
  ASSUME NEW h, NEW J \in SUBSET Endpoints, NEW S, HalfInv(h, J, S),
         NEW e \in J, NEW c \in Channels
  PROVE  HalfInv(Enter(h, e, c), J, S)
<1> DEFINE g == Enter(h, e, c)
           C == {c} \ DOMAIN h.users
           op == "Start"
<1>1. h \in Half /\ Consistent(h, J) /\ HalfStreams(h, S) /\ e \in Endpoints
  BY DEF HalfInv
<1>2. /\ g.users = With(h.users, c, Members(h.users, c) \union {e})
      /\ g.chans = With(h.chans, e, Members(h.chans, e) \union {c})
      /\ g.queue = Queued(h, C, op)
      /\ g = [users |-> g.users, chans |-> g.chans, queue |-> g.queue]
  BY DEF Enter
<1> HIDE DEF g
<1>3. Members(h.users, c) \union {e} \in SUBSET Endpoints /\ Members(h.chans, e) \union {c} \in SUBSET Channels
  BY <1>1, HalfParts, SetMapDef DEF Members
<1>4. g.users \in SetMap(Channels, Endpoints) /\ g.chans \in SetMap(Endpoints, Channels)
  BY <1>1, <1>2, <1>3, HalfParts, MapTypes
<1>5. /\ DOMAIN g.users = DOMAIN h.users \union {c}
      /\ DOMAIN g.chans = DOMAIN h.chans \union {e}
      /\ \A d : Members(g.users, d) = IF d = c THEN Members(h.users, c) \union {e} ELSE Members(h.users, d)
      /\ \A x : Members(g.chans, x) = IF x = e THEN Members(h.chans, e) \union {c} ELSE Members(h.chans, x)
  BY <1>2 DEF With, Members
<1>6. /\ C \in SUBSET Channels /\ op \in Op
      /\ \A d \in Channels \ C : d \in DOMAIN g.users <=> d \in DOMAIN h.users
      /\ \A d \in C : d \in DOMAIN h.users <=> op # "Start"
      /\ \A d \in C : d \in DOMAIN g.users <=> op # "Stop"
  BY <1>5 DEF Op
<1>7. Consistent(g, J)
  BY <1>1, <1>5 DEF Consistent, Members
<1> HIDE DEF C, op
<1>8. g \in Half
  BY <1>1, <1>2, <1>4, <1>6, QueuedType, HalfParts
<1>9. HalfStreams(g, S)
  BY <1>1, <1>2, <1>6, <1>8, PushStreams
<1>10. QED
  BY <1>7, <1>8, <1>9 DEF HalfInv, g

\* The last user stops the channel, any other only leaves the index.
LEMMA ExitInv ==
  ASSUME NEW h, NEW J \in SUBSET Endpoints, NEW S, HalfInv(h, J, S),
         NEW e \in J, NEW c \in Channels
  PROVE  HalfInv(Exit(h, e, c), J, S)
<1> DEFINE g == Exit(h, e, c)
           left == h.users[c] \ {e}
           C == IF left = {} THEN {c} ELSE {}
           op == "Stop"
<1>1. h \in Half /\ Consistent(h, J) /\ HalfStreams(h, S) /\ e \in Endpoints
  BY DEF HalfInv
<1>2. CASE c \notin DOMAIN h.users
  BY <1>2 DEF Exit
<1>3. CASE c \in DOMAIN h.users
  <2>1. /\ g.users = Keep(h.users, c, left)
        /\ g.chans = IF e \in DOMAIN h.chans THEN Keep(h.chans, e, h.chans[e] \ {c}) ELSE h.chans
        /\ g.queue = Queued(h, C, op)
        /\ g = [users |-> g.users, chans |-> g.chans, queue |-> g.queue]
    BY <1>3 DEF Exit
  <2> HIDE DEF g
  <2>2. left \in SUBSET Endpoints /\ (e \in DOMAIN h.chans => h.chans[e] \ {c} \in SUBSET Channels)
    BY <1>1, <1>3, HalfParts, SetMapDef
  <2>3. g.users \in SetMap(Channels, Endpoints) /\ g.chans \in SetMap(Endpoints, Channels)
    BY <1>1, <2>1, <2>2, HalfParts, MapTypes
  <2>4. /\ DOMAIN g.users = DOMAIN h.users \ C
        /\ \A d : Members(g.users, d) = IF d = c THEN Members(h.users, c) \ {e} ELSE Members(h.users, d)
    BY <1>3, <2>1 DEF Keep, With, Without, Members
  <2>5. /\ \A x : Members(g.chans, x) = IF x = e THEN Members(h.chans, e) \ {c} ELSE Members(h.chans, x)
        /\ DOMAIN g.chans \subseteq DOMAIN h.chans
        /\ \A x \in DOMAIN g.chans : x # e \/ h.chans[e] \ {c} # {}
    <3>1. CASE e \notin DOMAIN h.chans
      BY <2>1, <3>1 DEF Members
    <3>2. CASE e \in DOMAIN h.chans /\ h.chans[e] \ {c} = {}
      BY <2>1, <3>2 DEF Keep, Without, Members
    <3>3. CASE e \in DOMAIN h.chans /\ h.chans[e] \ {c} # {}
      BY <2>1, <3>3 DEF Keep, With, Members
    <3>4. QED
      BY <3>1, <3>2, <3>3
  <2>6. /\ C \in SUBSET Channels /\ op \in Op
        /\ \A d \in Channels \ C : d \in DOMAIN g.users <=> d \in DOMAIN h.users
        /\ \A d \in C : d \in DOMAIN h.users <=> op # "Start"
        /\ \A d \in C : d \in DOMAIN g.users <=> op # "Stop"
    BY <1>3, <2>4 DEF Op
  <2>7. Consistent(g, J)
    BY <1>1, <1>3, <2>4, <2>5 DEF Consistent, Members
  <2> HIDE DEF C, op, left
  <2>8. g \in Half
    BY <1>1, <2>1, <2>3, <2>6, QueuedType, HalfParts
  <2>9. HalfStreams(g, S)
    BY <1>1, <2>1, <2>6, <2>8, PushStreams
  <2>10. QED
    BY <2>7, <2>8, <2>9 DEF HalfInv, g
<1>4. QED
  BY <1>2, <1>3

\* A leaving endpoint is taken out of the whole index, and each channel it was
\* the last user of is stopped.
LEMMA ExitAllInv ==
  ASSUME NEW h, NEW J \in SUBSET Endpoints, NEW S, HalfInv(h, J, S), NEW e \in J
  PROVE  HalfInv(ExitAll(h, e), J \ {e}, S)
<1> DEFINE g == ExitAll(h, e)
           mine == Members(h.chans, e) \intersect DOMAIN h.users
           C == {c \in mine : h.users[c] \ {e} = {}}
           op == "Stop"
<1>1. h \in Half /\ Consistent(h, J) /\ HalfStreams(h, S) /\ e \in Endpoints
  BY DEF HalfInv
<1>2. /\ g.users = [c \in DOMAIN h.users \ C |-> IF c \in mine THEN h.users[c] \ {e} ELSE h.users[c]]
      /\ g.chans = Without(h.chans, e)
      /\ g.queue = Queued(h, C, op)
      /\ g = [users |-> g.users, chans |-> g.chans, queue |-> g.queue]
  BY DEF ExitAll
<1> HIDE DEF g
<1>3. /\ DOMAIN h.users \subseteq Channels /\ \A c \in DOMAIN h.users : h.users[c] \subseteq Endpoints
      /\ DOMAIN h.chans \subseteq Endpoints /\ \A x \in DOMAIN h.chans : h.chans[x] \subseteq Channels
  BY <1>1, HalfParts, SetMapDef
<1>4. /\ DOMAIN g.users = DOMAIN h.users \ C
      /\ \A c \in DOMAIN g.users : g.users[c] = IF c \in mine THEN h.users[c] \ {e} ELSE h.users[c]
      /\ DOMAIN g.chans = DOMAIN h.chans \ {e}
      /\ \A x \in DOMAIN g.chans : g.chans[x] = h.chans[x]
  BY <1>2 DEF Without
<1>5. \A c \in DOMAIN h.users : e \in h.users[c] <=> c \in mine
  BY <1>1, <1>3 DEF Consistent, Members
<1>6. g.users \in SetMap(Channels, Endpoints)
  <2>1. g.users \in [DOMAIN h.users \ C -> SUBSET Endpoints] /\ DOMAIN h.users \ C \in SUBSET Channels
    BY <1>2, <1>3
  <2>2. QED
    BY <2>1 DEF SetMap
<1>7. g.chans \in SetMap(Endpoints, Channels)
  <2>1. g.chans \in [DOMAIN h.chans \ {e} -> SUBSET Channels] /\ DOMAIN h.chans \ {e} \in SUBSET Endpoints
    BY <1>2, <1>3 DEF Without
  <2>2. QED
    BY <2>1 DEF SetMap
<1>8. Consistent(g, J \ {e})
  <2>1. \A c \in DOMAIN g.users : g.users[c] # {}
    BY <1>1, <1>4 DEF Consistent
  <2>2. \A x \in DOMAIN g.chans : g.chans[x] # {} /\ x \in J \ {e}
    BY <1>1, <1>4 DEF Consistent
  <2>3. ASSUME NEW c \in Channels, NEW x \in Endpoints
        PROVE  x \in Members(g.users, c) <=> c \in Members(g.chans, x)
    <3>1. x \in Members(h.users, c) <=> c \in Members(h.chans, x)
      BY <1>1 DEF Consistent
    <3>2. x \in Members(g.users, c) <=> x \in Members(h.users, c) /\ x # e
      BY <1>4, <1>5 DEF Members
    <3>3. c \in Members(g.chans, x) <=> c \in Members(h.chans, x) /\ x # e
      BY <1>4 DEF Members
    <3>4. QED
      BY <3>1, <3>2, <3>3
  <2>4. QED
    BY <2>1, <2>2, <2>3 DEF Consistent
<1>9. /\ C \in SUBSET Channels /\ op \in Op
      /\ \A d \in Channels \ C : d \in DOMAIN g.users <=> d \in DOMAIN h.users
      /\ \A d \in C : d \in DOMAIN h.users <=> op # "Start"
      /\ \A d \in C : d \in DOMAIN g.users <=> op # "Stop"
  BY <1>3, <1>4 DEF Op
<1>10. g.queue = Queued(h, C, op) /\ g = [users |-> g.users, chans |-> g.chans, queue |-> g.queue]
  BY <1>2
<1> HIDE DEF C, op
<1>11. g \in Half
  BY <1>1, <1>6, <1>7, <1>9, <1>10, QueuedType, HalfParts
<1>12. HalfStreams(g, S)
  BY <1>1, <1>9, <1>10, <1>11, PushStreams
<1>13. QED
  BY <1>8, <1>11, <1>12 DEF HalfInv, g

\* Data for a live channel fits the end of its stream.
LEMMA DataInv ==
  ASSUME NEW h, NEW J, NEW S, HalfInv(h, J, S), NEW c \in DOMAIN h.users
  PROVE  HalfInv(Push(h, {c}, "Data"), J, S)
<1> DEFINE g == Push(h, {c}, "Data")
           C == {c}
           op == "Data"
<1>1. h \in Half /\ Consistent(h, J) /\ HalfStreams(h, S)
  BY DEF HalfInv
<1>2. /\ g.users = h.users /\ g.chans = h.chans
      /\ g.queue = Queued(h, C, op)
      /\ g = [users |-> g.users, chans |-> g.chans, queue |-> g.queue]
  BY DEF Push
<1> HIDE DEF g
<1>3. Consistent(g, J)
  BY <1>1, <1>2 DEF Consistent
<1>4. /\ C \in SUBSET Channels /\ op \in Op
      /\ \A d \in Channels \ C : d \in DOMAIN g.users <=> d \in DOMAIN h.users
      /\ \A d \in C : d \in DOMAIN h.users <=> op # "Start"
      /\ \A d \in C : d \in DOMAIN g.users <=> op # "Stop"
  BY <1>1, <1>2, HalfParts, SetMapDef DEF Op
<1> HIDE DEF C, op
<1>5. g \in Half
  BY <1>1, <1>2, <1>4, QueuedType, HalfParts
<1>6. HalfStreams(g, S)
  BY <1>1, <1>2, <1>4, <1>5, PushStreams
<1>7. QED
  BY <1>3, <1>5, <1>6 DEF HalfInv, g

\* The network applies the head of a stream.
LEMMA PopInv ==
  ASSUME NEW h, NEW J, NEW S \in SUBSET Channels, HalfInv(h, J, S),
         NEW c \in Channels, h.queue[c] # <<>>
  PROVE  /\ HalfInv(Pop(h, c), J, Apply(S, c, Head(h.queue[c])))
         /\ Apply(S, c, Head(h.queue[c])) \in SUBSET Channels
<1> DEFINE g == Pop(h, c)
           A == Apply(S, c, Head(h.queue[c]))
<1>1. h \in Half /\ Consistent(h, J) /\ HalfStreams(h, S) /\ h.queue \in [Channels -> Seq(Op)]
  BY HalfParts DEF HalfInv
<1>2. /\ g.users = h.users /\ g.chans = h.chans
      /\ g.queue = [h.queue EXCEPT ![c] = Tail(h.queue[c])]
      /\ g = [users |-> g.users, chans |-> g.chans, queue |-> g.queue]
  <2>1. h = [users |-> h.users, chans |-> h.chans, queue |-> h.queue]
    BY <1>1, HalfParts
  <2>2. QED
    BY <2>1 DEF Pop
<1> HIDE DEF g
<1>3. Head(h.queue[c]) \in Op
  BY <1>1
<1>4. /\ A \in SUBSET Channels
      /\ Head(h.queue[c]) = "Start" => A = S \union {c}
      /\ Head(h.queue[c]) = "Stop" => A = S \ {c}
      /\ Head(h.queue[c]) = "Data" => A = S
  BY <1>3 DEF Apply, Op
<1> HIDE DEF A
<1>5. g \in Half
  <2>1. g.queue \in [Channels -> Seq(Op)]
    BY <1>1, <1>2
  <2>2. QED
    BY <1>1, <1>2, <2>1, HalfParts
<1>6. Consistent(g, J)
  BY <1>1, <1>2 DEF Consistent
<1>7. HalfStreams(g, A)
  <2> SUFFICES ASSUME NEW d \in Channels
               PROVE  Legal(g.queue[d], Level(d, A), Level(d, DOMAIN g.users))
    BY DEF HalfStreams
  <2>1. Legal(h.queue[d], Level(d, S), Level(d, DOMAIN h.users)) /\ h.queue[d] \in Seq(Op)
    BY <1>1 DEF HalfStreams
  <2>2. CASE d = c
    <3>1. /\ Head(h.queue[d]) = "Start" => Level(d, A) = 1
          /\ Head(h.queue[d]) = "Stop" => Level(d, A) = 0
          /\ Head(h.queue[d]) = "Data" => Level(d, A) = Level(d, S)
      BY <1>4, <2>2 DEF Level
    <3>2. Legal(Tail(h.queue[d]), Level(d, A), Level(d, DOMAIN h.users))
      BY <2>1, <2>2, <3>1, LevelType, LegalTail
    <3>3. g.queue[d] = Tail(h.queue[d])
      BY <1>1, <1>2, <2>2
    <3>4. QED
      BY <1>2, <3>2, <3>3
  <2>3. CASE d # c
    <3>1. g.queue[d] = h.queue[d]
      BY <1>1, <1>2, <2>3
    <3>2. Level(d, A) = Level(d, S)
      BY <1>3, <1>4, <2>3 DEF Level, Op
    <3>3. QED
      BY <1>2, <2>1, <3>1, <3>2
  <2>4. QED
    BY <2>2, <2>3
<1>8. QED
  BY <1>4, <1>5, <1>6, <1>7 DEF HalfInv, g, A

-----------------------------------------------------------------------------
(* The inductive invariant.                                                *)

\* IndexConsistent and StreamsLegal need each other: a stop is emitted when the
\* index says that the last user has gone.
IInv ==
  /\ joined \in SUBSET Endpoints /\ sdnPub \in SUBSET Channels /\ sdnSub \in SUBSET Channels
  /\ HalfInv(pub, joined, sdnPub)
  /\ HalfInv(sub, joined, sdnSub)

\* The new room satisfies the invariant.
LEMMA InitIInv == Init => IInv
BY NewHalfInv DEF Init, IInv

\* Every handler and every pop preserves the invariant.
LEMMA NextIInv == IInv /\ [Next]_vars => IInv'
<1> SUFFICES ASSUME IInv, [Next]_vars PROVE IInv'
  OBVIOUS
<1> USE DEF IInv
<1>1. ASSUME NEW e \in Endpoints, Join(e) PROVE IInv'
  BY <1>1, JoinInv DEF Join
<1>2. ASSUME NEW e \in Endpoints, Leave(e) PROVE IInv'
  BY <1>2, ExitAllInv DEF Leave
<1>3. ASSUME NEW e \in Endpoints, NEW c \in Channels, Subscribe(e, c) PROVE IInv'
  BY <1>3, EnterInv DEF Subscribe
<1>4. ASSUME NEW e \in Endpoints, NEW c \in Channels, Unsubscribe(e, c) PROVE IInv'
  BY <1>4, ExitInv DEF Unsubscribe
<1>5. ASSUME NEW e \in Endpoints, NEW c \in Channels, StartPublish(e, c) PROVE IInv'
  BY <1>5, EnterInv DEF StartPublish
<1>6. ASSUME NEW e \in Endpoints, NEW c \in Channels, StopPublish(e, c) PROVE IInv'
  BY <1>6, ExitInv DEF StopPublish
<1>7. ASSUME NEW e \in Endpoints, NEW c \in Channels, PublishData(e, c) PROVE IInv'
  <2>1. e \in Members(pub.users, c) => c \in DOMAIN pub.users
    BY DEF Members
  <2>2. QED
    BY <1>7, <2>1, DataInv DEF PublishData
<1>8. ASSUME NEW c \in Channels, SourceData(c) PROVE IInv'
  BY <1>8, DataInv DEF SourceData
<1>9. ASSUME NEW c \in Channels, PopPublisher(c) PROVE IInv'
  BY <1>9, PopInv DEF PopPublisher
<1>10. ASSUME NEW c \in Channels, PopSubscriber(c) PROVE IInv'
  BY <1>10, PopInv DEF PopSubscriber
<1>11. CASE UNCHANGED vars
  BY <1>11 DEF vars
<1>12. QED
  BY <1>1, <1>2, <1>3, <1>4, <1>5, <1>6, <1>7, <1>8, <1>9, <1>10, <1>11 DEF Next

\* A half without users is empty once its streams are drained, and the network
\* has nothing of it on.
LEMMA HalfReleased ==
  ASSUME NEW h, NEW S \in SUBSET Channels, HalfInv(h, {}, S),
         \A c \in Channels : h.queue[c] = <<>>
  PROVE  IsEmpty(h) /\ S = {}
<1>1. h \in Half /\ Consistent(h, {}) /\ HalfStreams(h, S)
  BY DEF HalfInv
<1>2. /\ DOMAIN h.users \subseteq Channels /\ \A c \in DOMAIN h.users : h.users[c] \subseteq Endpoints
  BY <1>1, HalfParts, SetMapDef
<1>3. DOMAIN h.chans = {}
  BY <1>1 DEF Consistent
<1>4. DOMAIN h.users = {}
  BY <1>1, <1>2, <1>3 DEF Consistent, Members
<1>5. ASSUME NEW c \in S PROVE FALSE
  <2>1. Legal(<<>>, Level(c, S), Level(c, DOMAIN h.users))
    BY <1>1 DEF HalfStreams
  <2>2. Level(c, S) = 1 /\ Level(c, DOMAIN h.users) = 0
    BY <1>4 DEF Level
  <2>3. QED
    BY <2>1, <2>2, LegalDrained
<1>6. QED
  BY <1>3, <1>4, <1>5 DEF IsEmpty

\* The invariant implies the properties.
LEMMA IInvImplies == IInv => TypeOK /\ IndexConsistent /\ StreamsLegal /\ Released
<1> SUFFICES ASSUME IInv PROVE TypeOK /\ IndexConsistent /\ StreamsLegal /\ Released
  OBVIOUS
<1>1. TypeOK /\ IndexConsistent
  BY DEF IInv, HalfInv, TypeOK, IndexConsistent
<1>2. StreamsLegal
  BY DEF IInv, HalfInv, HalfStreams, StreamsLegal
<1>3. Released
  BY HalfReleased DEF IInv, Released
<1>4. QED
  BY <1>1, <1>2, <1>3

\* Every reachable state of the room satisfies the inductive invariant.
THEOREM Invariance == Spec => []IInv
BY InitIInv, NextIInv, PTL DEF Spec

\* The state keeps its shape.
THEOREM TypeSafety == Spec => []TypeOK
BY Invariance, IInvImplies, PTL

\* Both directions of the publisher's and of the subscriber's index always
\* agree, and hold only endpoints in the room (on_leave cleans up completely).
THEOREM IndexSafety == Spec => []IndexConsistent
BY Invariance, IInvImplies, PTL

\* The pub/sub network receives alternating starts and stops with data only in
\* between, and ends up knowing exactly the channels in use.
THEOREM StreamSafety == Spec => []StreamsLegal
BY Invariance, IInvImplies, PTL

\* After the last leave and the last pop nothing is left, neither in the
\* component (the Drop assertions) nor in the network.
THEOREM ReleaseSafety == Spec => []Released
BY Invariance, IInvImplies, PTL
=============================================================================
