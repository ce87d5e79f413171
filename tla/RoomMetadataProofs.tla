------------------------ MODULE RoomMetadataProofs ------------------------
(***************************************************************************)
(* Proofs about RoomMetadata, for any endpoints, peers, tracks, join modes *)
(* and bounds.                                                             *)
(***************************************************************************)
EXTENDS RoomMetadata, TLAPS

\* The controls of map m, and queues of them.
Ctl(m) == KeyCmds(m) \union {Sub, Unsub}
IsQueues(q) == DOMAIN q = Maps /\ \A m \in Maps : q[m] \in Seq(Ctl(m))
IsInbox(q) == DOMAIN q = Maps /\ \A m \in Maps : q[m] \in Seq(KeyCmds(m))

PeerRecord == [mode : Modes, subPeers : SUBSET Targets, pubTracks : SUBSET Tracks]

-----------------------------------------------------------------------------
(* Partial maps.                                                           *)

\* A partial map is a function from a subset of D to R.
LEMMA PartialDef ==
  ASSUME NEW D, NEW R, NEW f
  PROVE  f \in Partial(D, R) <=>
           /\ f = [x \in DOMAIN f |-> f[x]]
           /\ DOMAIN f \subseteq D
           /\ \A x \in DOMAIN f : f[x] \in R
<1>1. ASSUME f \in Partial(D, R)
      PROVE  /\ f = [x \in DOMAIN f |-> f[x]]
             /\ DOMAIN f \subseteq D
             /\ \A x \in DOMAIN f : f[x] \in R
  <2>1. PICK S \in SUBSET D : f \in [S -> R]
    BY <1>1 DEF Partial
  <2>2. QED
    BY <2>1
<1>2. ASSUME f = [x \in DOMAIN f |-> f[x]], DOMAIN f \subseteq D,
             \A x \in DOMAIN f : f[x] \in R
      PROVE  f \in Partial(D, R)
  <2>1. f \in [DOMAIN f -> R]
    BY <1>2
  <2>2. QED
    BY <1>2, <2>1 DEF Partial
<1>3. QED
  BY <1>1, <1>2

\* Adding or removing a key keeps a map partial.
LEMMA PartialUpdate ==
  ASSUME NEW D, NEW R, NEW f \in Partial(D, R), NEW x \in D, NEW v \in R
  PROVE  With(f, x, v) \in Partial(D, R) /\ Without(f, x) \in Partial(D, R)
<1>1. DOMAIN f \subseteq D /\ \A y \in DOMAIN f : f[y] \in R
  BY PartialDef
<1>2. With(f, x, v) \in [DOMAIN f \union {x} -> R] /\ DOMAIN f \union {x} \in SUBSET D
  BY <1>1 DEF With
<1>3. Without(f, x) \in [DOMAIN f \ {x} -> R] /\ DOMAIN f \ {x} \in SUBSET D
  BY <1>1 DEF Without
<1>4. QED
  BY <1>2, <1>3 DEF Partial

-----------------------------------------------------------------------------
(* Queues.                                                                 *)

\* The keys of the three kinds of maps.
LEMMA MapFacts ==
  /\ PeersMap \in Maps /\ TracksMap \in Maps /\ PeersMap # TracksMap
  /\ \A e \in Endpoints : PeerOf[e] \in Peers
  /\ \A p \in Peers : p \in Maps /\ p # PeersMap /\ p # TracksMap
  /\ Keys(PeersMap) = Peers /\ Keys(TracksMap) = TrackKeys
  /\ \A p \in Peers : Keys(p) = {p} \X Tracks
BY MapsAssumption DEF Maps, Peers, Keys

\* Controls and their operations.
LEMMA CtlFacts ==
  ASSUME NEW m \in Maps
  PROVE  /\ Sub \in Ctl(m) /\ Unsub \in Ctl(m)
         /\ Sub.op = "Sub" /\ Unsub.op = "Unsub"
         /\ \A op \in {"Set", "Del"} : \A K \in (SUBSET Keys(m)) \ {{}} : Cmd(op, K) \in KeyCmds(m)
         /\ \A c \in Ctl(m) : \A k \in c.keys : c \in KeyCmds(m)
         /\ \A c \in KeyCmds(m) : /\ c.op \in {"Set", "Del"} /\ c.keys # {} /\ c.keys \subseteq Keys(m)
                                  /\ c \in Ctl(m)
BY DEF Ctl, KeyCmds, Sub, Unsub, Cmd

\* The control about the tracks T of a peer suits both maps it goes to.
LEMMA TracksCtl ==
  ASSUME NEW p \in Peers, NEW T \in SUBSET Tracks, NEW op \in {"Set", "Del"}
  PROVE  \A m \in When(T # {}, {TracksMap, p}) : Cmd(op, {p} \X T) \in Ctl(m)
<1> DEFINE K == {p} \X T
<1>1. CASE T = {}
  BY <1>1 DEF When
<1>2. CASE T # {}
  <2>1. PICK t \in T : TRUE
    BY <1>2
  <2>2. <<p, t>> \in K
    BY <2>1
  <2>3. K \in (SUBSET Keys(TracksMap)) \ {{}} /\ K \in (SUBSET Keys(p)) \ {{}}
    BY <2>2, MapFacts DEF TrackKeys
  <2>4. TracksMap \in Maps /\ p \in Maps
    BY MapFacts
  <2>5. Cmd(op, K) \in Ctl(TracksMap) /\ Cmd(op, K) \in Ctl(p)
    <3> HIDE DEF K
    <3> QED BY <2>3, <2>4, CtlFacts
  <2>6. QED
    BY <2>5 DEF When
<1>3. QED
  BY <1>1, <1>2

\* Push keeps queues of controls.
LEMMA PushType ==
  ASSUME NEW q, IsQueues(q), NEW M, NEW c, \A m \in M \intersect Maps : c \in Ctl(m)
  PROVE  IsQueues(Push(q, M, c))
BY DEF IsQueues, Push

\* So does taking a key, or the whole head, out of a queue.
LEMMA RestType ==
  ASSUME NEW m \in Maps, NEW q \in Seq(KeyCmds(m) \union {Sub, Unsub}), q # <<>>, NEW k \in Head(q).keys
  PROVE  Rest(q, k) \in Seq(KeyCmds(m) \union {Sub, Unsub})
<1>1. Head(q) \in KeyCmds(m)
  BY CtlFacts DEF Ctl
<1>2. CASE Head(q).keys \subseteq {k}
  BY <1>2 DEF Rest
<1>3. CASE ~(Head(q).keys \subseteq {k})
  <2>1. q[1] = Head(q) /\ Len(q) \in Nat /\ DOMAIN q = 1..Len(q)
    OBVIOUS
  <2>2. Cmd(q[1].op, q[1].keys \ {k}) \in KeyCmds(m)
    BY <1>1, <1>3, <2>1, CtlFacts
  <2>3. QED
    BY <1>3, <2>1, <2>2 DEF Rest
<1>4. QED
  BY <1>2, <1>3

\* RestType for a queue of events.
LEMMA RestInbox ==
  ASSUME NEW m \in Maps, NEW q \in Seq(KeyCmds(m)), q # <<>>, NEW k \in Head(q).keys
  PROVE  Rest(q, k) \in Seq(KeyCmds(m))
<1>1. Head(q) \in KeyCmds(m)
  OBVIOUS
<1>2. CASE Head(q).keys \subseteq {k}
  BY <1>2 DEF Rest
<1>3. CASE ~(Head(q).keys \subseteq {k})
  <2>1. q[1] = Head(q) /\ Len(q) \in Nat /\ DOMAIN q = 1..Len(q)
    OBVIOUS
  <2>2. Cmd(q[1].op, q[1].keys \ {k}) \in KeyCmds(m)
    BY <1>1, <1>3, <2>1, CtlFacts
  <2>3. QED
    BY <1>3, <2>1, <2>2 DEF Rest
<1>4. QED
  BY <1>2, <1>3

-----------------------------------------------------------------------------
(* Types.                                                                  *)

\* TypeOK in terms of the definitions above.
RoomTypes ==
  /\ alive \in BOOLEAN
  /\ peers \in Partial(Endpoints, PeerRecord)
  /\ peersSubs \subseteq Endpoints /\ tracksSubs \subseteq Endpoints
  /\ privSubs \in Partial(Targets, SUBSET Endpoints)
ViewTypes ==
  /\ clusterPeers \subseteq Peers /\ clusterTracks \subseteq TrackKeys
  /\ told \in [Endpoints -> [peers : SUBSET Peers, tracks : SUBSET TrackKeys]]
NetTypes ==
  /\ on \subseteq Maps
  /\ IsInbox(inbox)
  /\ DOMAIN kv = Maps /\ \A m \in Maps : kv[m] \subseteq Keys(m)

\* The type invariant splits into the room's state, the endpoints' views, the store and the queues.
LEMMA TypeParts ==
  TypeOK <=> RoomTypes /\ ViewTypes /\ NetTypes /\ IsQueues(out)
BY DEF TypeOK, RoomTypes, ViewTypes, NetTypes, IsQueues, IsInbox, Ctl, PeerRecord

\* The manual subscribers of a peer are endpoints, and only a target has any.
LEMMA SubscribersType ==
  ASSUME RoomTypes, NEW p
  PROVE  /\ Subscribers(p) \subseteq Endpoints
         /\ p \notin Targets => Subscribers(p) = {}
<1>1. DOMAIN privSubs \subseteq Targets /\ \A x \in DOMAIN privSubs : privSubs[x] \in SUBSET Endpoints
  BY PartialDef DEF RoomTypes
<1>2. QED
  BY <1>1 DEF Subscribers

\* The room's entries are peer records of endpoints.
LEMMA PeersType ==
  ASSUME RoomTypes
  PROVE  /\ DOMAIN peers \subseteq Endpoints
         /\ \A e \in DOMAIN peers : peers[e] \in PeerRecord
BY PartialDef DEF RoomTypes

\* on_join keeps the types.
LEMMA JoinType ==
  ASSUME TypeOK, NEW e \in Endpoints, NEW mode \in Modes, Join(e, mode)
  PROVE  TypeOK'
<1>0. RoomTypes /\ ViewTypes /\ NetTypes /\ IsQueues(out)
  BY TypeParts
<1>1. RoomTypes'
  <2>1. Record(mode, {}, {}) \in PeerRecord
    BY DEF Record, PeerRecord
  <2>2. With(peers, e, Record(mode, {}, {})) \in Partial(Endpoints, PeerRecord)
    BY <1>0, <2>1, PartialUpdate DEF RoomTypes
  <2>3. QED
    BY <1>0, <2>2 DEF RoomTypes, Join
<1>2. ViewTypes'
  <2>1. Restored(mode) \in [peers : SUBSET Peers, tracks : SUBSET TrackKeys]
    BY <1>0 DEF Restored, ViewTypes
  <2>2. QED
    BY <1>0, <2>1 DEF ViewTypes, Join
<1>3. NetTypes'
  BY <1>0 DEF NetTypes, Join, net
<1>4. IsQueues(out)'
  <2> DEFINE q1 == Push(out, When(mode.pubPeer, {PeersMap}), Cmd("Set", {PeerOf[e]}))
             q2 == Push(q1, When(mode.subPeers /\ peersSubs = {}, {PeersMap}), Sub)
             q3 == Push(q2, When(mode.subTracks /\ tracksSubs = {}, {TracksMap}), Sub)
  <2>1. Cmd("Set", {PeerOf[e]}) \in Ctl(PeersMap)
    BY MapFacts, CtlFacts
  <2>2. IsQueues(q1)
    BY <1>0, <2>1, PushType DEF When
  <2>3. IsQueues(q2)
    <3> HIDE DEF q1
    <3> QED BY <2>2, PushType, CtlFacts
  <2>4. IsQueues(q3)
    <3> HIDE DEF q2
    <3> QED BY <2>3, PushType, CtlFacts
  <2>5. out' = q3
    BY DEF Join
  <2>6. QED
    BY <2>4, <2>5
<1>5. QED
  BY <1>1, <1>2, <1>3, <1>4 DEF TypeOK, RoomTypes, ViewTypes, NetTypes, IsQueues, IsInbox, Ctl, PeerRecord

\* on_leave keeps the types.
LEMMA LeaveType ==
  ASSUME TypeOK, NEW e \in Endpoints, Leave(e)
  PROVE  TypeOK'
<1>0. RoomTypes /\ ViewTypes /\ NetTypes /\ IsQueues(out)
  BY TypeParts
<1>a. e \in DOMAIN peers /\ peers[e] \in PeerRecord
  BY <1>0, PeersType DEF Leave
<1> DEFINE p == PeerOf[e]
           last == {q \in peers[e].subPeers : Subscribers(q) \ {e} = {}}
<1>1. RoomTypes'
  <2>1. Without(peers, e) \in Partial(Endpoints, PeerRecord)
    BY <1>0, <1>a, PartialUpdate DEF RoomTypes
  <2>2. privSubs' \in Partial(Targets, SUBSET Endpoints)
    <3>1. privSubs' = [q \in DOMAIN privSubs \ last |->
                         IF q \in peers[e].subPeers THEN privSubs[q] \ {e} ELSE privSubs[q]]
      BY DEF Leave
    <3>2. DOMAIN privSubs \subseteq Targets /\ \A x \in DOMAIN privSubs : privSubs[x] \in SUBSET Endpoints
      BY <1>0, PartialDef DEF RoomTypes
    <3>3. privSubs' \in [DOMAIN privSubs \ last -> SUBSET Endpoints] /\ DOMAIN privSubs \ last \in SUBSET Targets
      BY <3>1, <3>2
    <3>4. QED
      BY <3>3 DEF Partial
  <2>3. QED
    BY <1>0, <2>1, <2>2 DEF RoomTypes, Leave
<1>2. ViewTypes'
  <2>1. NothingTold \in [peers : SUBSET Peers, tracks : SUBSET TrackKeys]
    BY DEF NothingTold
  <2>2. QED
    BY <1>0, <2>1 DEF ViewTypes, Leave
<1>3. NetTypes'
  BY <1>0 DEF NetTypes, Leave, net
<1>4. IsQueues(out)'
  <2> DEFINE K == {p} \X peers[e].pubTracks
             q1 == DelPeer(e)
             q2 == Push(q1, When(peers[e].pubTracks # {}, {TracksMap, p}), Cmd("Del", K))
             q3 == Push(q2, When(IsLast(peersSubs, e), {PeersMap}), Unsub)
             q4 == Push(q3, When(IsLast(tracksSubs, e), {TracksMap}), Unsub)
             q5 == Push(q4, last, Unsub)
  <2>1. Cmd("Del", {p}) \in Ctl(PeersMap)
    BY MapFacts, CtlFacts
  <2>2. IsQueues(q1)
    BY <1>0, <2>1, PushType DEF When, DelPeer
  <2>3. IsQueues(q2)
    <3>1. \A m \in When(peers[e].pubTracks # {}, {TracksMap, p}) : Cmd("Del", K) \in Ctl(m)
      BY <1>a, MapFacts, TracksCtl DEF PeerRecord
    <3> HIDE DEF q1, K
    <3> QED BY <2>2, <3>1, PushType
  <2>4. IsQueues(q3)
    <3> HIDE DEF q2
    <3> QED BY <2>3, PushType, CtlFacts
  <2>5. IsQueues(q4)
    <3> HIDE DEF q3
    <3> QED BY <2>4, PushType, CtlFacts
  <2>6. IsQueues(q5)
    <3> HIDE DEF q4, last
    <3> QED BY <2>5, PushType, CtlFacts
  <2>7. out' = q5
    BY DEF Leave
  <2>8. QED
    BY <2>6, <2>7
<1>5. QED
  BY <1>1, <1>2, <1>3, <1>4 DEF TypeOK, RoomTypes, ViewTypes, NetTypes, IsQueues, IsInbox, Ctl, PeerRecord

\* on_subscribe_peer and on_unsubscribe_peer keep the types.
LEMMA SubscribeType ==
  ASSUME TypeOK, NEW e \in Endpoints, NEW p \in Targets,
         SubscribePeer(e, p) \/ UnsubscribePeer(e, p)
  PROVE  TypeOK'
<1>0. RoomTypes /\ ViewTypes /\ NetTypes /\ IsQueues(out)
  BY TypeParts
<1>a. e \in DOMAIN peers /\ peers[e] \in PeerRecord
  BY <1>0, PeersType DEF SubscribePeer, UnsubscribePeer
<1>b. Subscribers(p) \subseteq Endpoints
  BY <1>0, SubscribersType
<1>1. RoomTypes'
  <2>1. Record(peers[e].mode, peers[e].subPeers \union {p}, peers[e].pubTracks) \in PeerRecord
    BY <1>a DEF Record, PeerRecord
  <2>2. Record(peers[e].mode, peers[e].subPeers \ {p}, peers[e].pubTracks) \in PeerRecord
    BY <1>a DEF Record, PeerRecord
  <2>3. peers' \in Partial(Endpoints, PeerRecord)
    BY <1>0, <2>1, <2>2, PartialUpdate DEF RoomTypes, SubscribePeer, UnsubscribePeer
  <2>4. /\ With(privSubs, p, Subscribers(p) \union {e}) \in Partial(Targets, SUBSET Endpoints)
        /\ With(privSubs, p, Subscribers(p) \ {e}) \in Partial(Targets, SUBSET Endpoints)
        /\ Without(privSubs, p) \in Partial(Targets, SUBSET Endpoints)
    BY <1>0, <1>b, PartialUpdate DEF RoomTypes
  <2>5. QED
    BY <1>0, <2>3, <2>4 DEF RoomTypes, SubscribePeer, UnsubscribePeer
<1>2. ViewTypes'
  BY <1>0 DEF ViewTypes, SubscribePeer, UnsubscribePeer
<1>3. NetTypes'
  BY <1>0 DEF NetTypes, SubscribePeer, UnsubscribePeer, net
<1>4. IsQueues(out)'
  BY <1>0, PushType, CtlFacts DEF SubscribePeer, UnsubscribePeer
<1>5. QED
  BY <1>1, <1>2, <1>3, <1>4 DEF TypeOK, RoomTypes, ViewTypes, NetTypes, IsQueues, IsInbox, Ctl, PeerRecord

\* on_track_publish and on_track_unpublish keep the types.
LEMMA TrackType ==
  ASSUME TypeOK, NEW e \in Endpoints, NEW t \in Tracks,
         TrackPublish(e, t) \/ TrackUnpublish(e, t)
  PROVE  TypeOK'
<1>0. RoomTypes /\ ViewTypes /\ NetTypes /\ IsQueues(out)
  BY TypeParts
<1>a. e \in DOMAIN peers /\ peers[e] \in PeerRecord
  BY <1>0, PeersType DEF TrackPublish, TrackUnpublish
<1>1. RoomTypes'
  <2>1. /\ Record(peers[e].mode, peers[e].subPeers, peers[e].pubTracks \union {t}) \in PeerRecord
        /\ Record(peers[e].mode, peers[e].subPeers, peers[e].pubTracks \ {t}) \in PeerRecord
    BY <1>a DEF Record, PeerRecord
  <2>2. peers' \in Partial(Endpoints, PeerRecord)
    BY <1>0, <2>1, PartialUpdate DEF RoomTypes, TrackPublish, TrackUnpublish
  <2>3. QED
    BY <1>0, <2>2 DEF RoomTypes, TrackPublish, TrackUnpublish
<1>2. ViewTypes'
  BY <1>0 DEF ViewTypes, TrackPublish, TrackUnpublish
<1>3. NetTypes'
  BY <1>0 DEF NetTypes, TrackPublish, TrackUnpublish, net
<1>4. IsQueues(out)'
  <2> DEFINE K == {<<PeerOf[e], t>>}
  <2>1. PeerOf[e] \in Peers /\ PeerOf[e] \in Maps
    BY MapFacts
  <2>2. K \in (SUBSET Keys(TracksMap)) \ {{}} /\ K \in (SUBSET Keys(PeerOf[e])) \ {{}}
    BY <2>1, MapFacts DEF TrackKeys
  <2> HIDE DEF K
  <2>3. /\ Cmd("Set", K) \in Ctl(TracksMap) /\ Cmd("Set", K) \in Ctl(PeerOf[e])
        /\ Cmd("Del", K) \in Ctl(TracksMap) /\ Cmd("Del", K) \in Ctl(PeerOf[e])
    BY <2>1, <2>2, MapFacts, CtlFacts
  <2>4. /\ IsQueues(Push(out, {TracksMap, PeerOf[e]}, Cmd("Set", K)))
        /\ IsQueues(Push(out, {TracksMap, PeerOf[e]}, Cmd("Del", K)))
    BY <1>0, <2>3, PushType
  <2>5. QED
    BY <2>4 DEF TrackPublish, TrackUnpublish, K
<1>5. QED
  BY <1>1, <1>2, <1>3, <1>4 DEF TypeOK, RoomTypes, ViewTypes, NetTypes, IsQueues, IsInbox, Ctl, PeerRecord

\* A set or deletion event keeps a copy of the store within its universe.
LEMMA UpdateType ==
  ASSUME NEW T, NEW S \in SUBSET T, NEW x \in T, NEW op
  PROVE  Update(S, op, x) \in SUBSET T
BY DEF Update

\* on_kv_event keeps the types, whichever map the event is of.
LEMMA EventType ==
  ASSUME TypeOK, NEW m \in Maps, NEW k, KvEvent(m, k)
  PROVE  TypeOK'
<1>0. RoomTypes /\ ViewTypes /\ NetTypes /\ IsQueues(out)
  BY TypeParts
<1>a. inbox[m] \in Seq(KeyCmds(m)) /\ inbox[m] # <<>> /\ k \in Head(inbox[m]).keys
  BY <1>0 DEF NetTypes, IsInbox, KvEvent
<1>b. k \in Keys(m)
  <2>1. Head(inbox[m]) \in KeyCmds(m)
    BY <1>a
  <2>2. QED
    BY <1>a, <2>1, CtlFacts
<1>1. RoomTypes'
  BY <1>0 DEF RoomTypes, KvEvent
<1>2. ViewTypes'
  <2> DEFINE op == Head(inbox[m]).op
             T == [peers : SUBSET Peers, tracks : SUBSET TrackKeys]
  <2>1. \A e \in Endpoints : /\ told[e].peers \in SUBSET Peers
                             /\ told[e].tracks \in SUBSET TrackKeys
    BY <1>0 DEF ViewTypes
  <2>2. ASSUME NEW E, m = PeersMap
        PROVE  Update(clusterPeers, op, k) \in SUBSET Peers /\ TellPeers(E, op, k) \in [Endpoints -> T]
    <3>1. k \in Peers
      BY <1>b, <2>2, MapFacts
    <3> HIDE DEF op
    <3>2. \A e \in Endpoints : Update(told[e].peers, op, k) \in SUBSET Peers
      BY <2>1, <3>1, UpdateType
    <3>3. QED
      BY <1>0, <2>1, <3>1, <3>2, UpdateType DEF TellPeers, ViewTypes
  <2>3. ASSUME NEW E, m # PeersMap
        PROVE  Update(clusterTracks, op, k) \in SUBSET TrackKeys /\ TellTracks(E, op, k) \in [Endpoints -> T]
    <3>1. k \in TrackKeys
      BY <1>b, <2>3, MapFacts DEF Maps, TrackKeys
    <3> HIDE DEF op
    <3>2. \A e \in Endpoints : Update(told[e].tracks, op, k) \in SUBSET TrackKeys
      BY <2>1, <3>1, UpdateType
    <3>3. QED
      BY <1>0, <2>1, <3>1, <3>2, UpdateType DEF TellTracks, ViewTypes
  <2>4. \/ m = PeersMap /\ OnPeersEvent(op, k)
        \/ m # PeersMap /\ OnTracksEvent(tracksSubs, op, k)
        \/ m # PeersMap /\ OnTracksEvent(privSubs[m], op, k)
        \/ UNCHANGED <<clusterPeers, clusterTracks, told>>
    <3>1. m \in DOMAIN privSubs => m # PeersMap
      BY <1>0, PartialDef, MapsAssumption DEF RoomTypes
    <3>2. QED
      BY <3>1, MapFacts DEF KvEvent
  <2> HIDE DEF op
  <2>5. CASE m = PeersMap /\ OnPeersEvent(op, k)
    BY <1>0, <2>2, <2>5 DEF OnPeersEvent, ViewTypes
  <2>6. ASSUME NEW E, m # PeersMap, OnTracksEvent(E, op, k) PROVE ViewTypes'
    BY <1>0, <2>3, <2>6 DEF OnTracksEvent, ViewTypes
  <2>7. CASE UNCHANGED <<clusterPeers, clusterTracks, told>>
    BY <1>0, <2>7 DEF ViewTypes
  <2>8. QED
    BY <2>4, <2>5, <2>6, <2>7
<1>3. NetTypes'
  <2>1. inbox' = [inbox EXCEPT ![m] = Rest(inbox[m], k)]
    BY DEF KvEvent
  <2>2. Rest(inbox[m], k) \in Seq(KeyCmds(m))
    BY <1>a, RestInbox
  <2>3. IsInbox(inbox')
    BY <1>0, <2>1, <2>2 DEF NetTypes, IsInbox
  <2>4. QED
    BY <1>0, <2>3 DEF NetTypes, KvEvent, IsInbox
<1>4. IsQueues(out)'
  BY <1>0 DEF KvEvent
<1>5. QED
  BY <1>1, <1>2, <1>3, <1>4 DEF TypeOK, RoomTypes, ViewTypes, NetTypes, IsQueues, IsInbox, Ctl, PeerRecord

\* A change of one key keeps the types of the store.
LEMMA ChangeType ==
  ASSUME NetTypes, NEW M \in SUBSET Maps, NEW op \in {"Set", "Del"}, NEW k,
         \A m \in M : k \in Keys(m), Change(M, op, k)
  PROVE  NetTypes'
<1>1. \A m \in M : Cmd(op, {k}) \in KeyCmds(m)
  BY CtlFacts
<1>2. IsInbox(inbox')
  <2> DEFINE c == Cmd(op, {k})
  <2>1. inbox' = [m \in Maps |-> IF m \in M \intersect on THEN Append(inbox[m], c) ELSE inbox[m]]
    BY DEF Change, Hear
  <2>2. \A m \in M : c \in KeyCmds(m)
    BY <1>1
  <2> HIDE DEF c
  <2>3. QED
    BY <2>1, <2>2 DEF NetTypes, IsInbox
<1>3. DOMAIN kv' = Maps /\ \A m \in Maps : kv'[m] \subseteq Keys(m)
  <2>1. \A m \in M : Update(kv[m], op, k) \subseteq Keys(m)
    BY UpdateType DEF NetTypes
  <2>2. QED
    BY <2>1 DEF NetTypes, Change
<1>4. QED
  BY <1>2, <1>3 DEF NetTypes, Change, IsInbox

\* The store's execution of a queued control keeps the types.
LEMMA ApplyType ==
  ASSUME TypeOK, NEW m \in Maps,
         (\E k : ApplyKey(m, k)) \/ ApplySub(m) \/ ApplyUnsub(m)
  PROVE  TypeOK'
<1>0. RoomTypes /\ ViewTypes /\ NetTypes /\ IsQueues(out)
  BY TypeParts
<1>a. out[m] \in Seq(Ctl(m)) /\ out[m] # <<>>
  BY <1>0 DEF IsQueues, ApplyKey, ApplySub, ApplyUnsub
<1>1. RoomTypes'
  BY <1>0 DEF RoomTypes, ApplyKey, ApplySub, ApplyUnsub
<1>2. ViewTypes'
  BY <1>0 DEF ViewTypes, ApplyKey, ApplySub, ApplyUnsub
<1>3. NetTypes'
  <2>1. CASE \E k : ApplyKey(m, k)
    <3>1. PICK k : ApplyKey(m, k)
      BY <2>1
    <3>2. Head(out[m]) \in Ctl(m) /\ k \in Head(out[m]).keys
      BY <1>a, <3>1 DEF ApplyKey
    <3>3. Head(out[m]).op \in {"Set", "Del"} /\ k \in Keys(m)
      BY <3>2, CtlFacts
    <3>4. QED
      BY <1>0, <3>1, <3>3, ChangeType DEF ApplyKey
  <2>2. CASE ApplySub(m)
    <3>1. kv[m] # {} => Cmd("Set", kv[m]) \in KeyCmds(m)
      BY <1>0, CtlFacts DEF NetTypes
    <3>2. IsInbox(inbox')
      BY <1>0, <2>2, <3>1 DEF ApplySub, NetTypes, IsInbox
    <3>3. QED
      BY <1>0, <2>2, <3>2 DEF ApplySub, NetTypes, IsInbox
  <2>3. CASE ApplyUnsub(m)
    BY <1>0, <2>3 DEF ApplyUnsub, NetTypes, IsInbox
  <2>4. QED
    BY <2>1, <2>2, <2>3
<1>4. IsQueues(out)'
  <2>1. \A k \in Head(out[m]).keys : Rest(out[m], k) \in Seq(Ctl(m))
    BY <1>a, RestType DEF Ctl
  <2>2. Tail(out[m]) \in Seq(Ctl(m))
    BY <1>a
  <2>3. PICK r \in Seq(Ctl(m)) : out' = [out EXCEPT ![m] = r]
    BY <2>1, <2>2 DEF ApplyKey, ApplySub, ApplyUnsub
  <2>4. QED
    BY <1>0, <2>3 DEF IsQueues
<1>5. QED
  BY <1>1, <1>2, <1>3, <1>4 DEF TypeOK, RoomTypes, ViewTypes, NetTypes, IsQueues, IsInbox, Ctl, PeerRecord

\* Peers and tracks of other nodes keep the types.
LEMMA RemoteType ==
  ASSUME TypeOK, NEW p \in RemotePeers,
         RemotePeer(p) \/ \E t \in Tracks : RemoteTrack(p, t)
  PROVE  TypeOK'
<1>0. RoomTypes /\ ViewTypes /\ NetTypes /\ IsQueues(out)
  BY TypeParts
<1>a. p \in Peers /\ p \in Maps
  BY MapFacts DEF Peers
<1>1. RoomTypes'
  BY <1>0 DEF RoomTypes, RemotePeer, RemoteTrack, room
<1>2. ViewTypes'
  BY <1>0 DEF ViewTypes, RemotePeer, RemoteTrack, room
<1>3. NetTypes'
  <2>1. CASE RemotePeer(p)
    <3>1. {PeersMap} \in SUBSET Maps /\ \A m \in {PeersMap} : p \in Keys(m)
      BY <1>a, MapFacts
    <3>2. PICK op \in {"Set", "Del"} : Change({PeersMap}, op, p)
      BY <2>1 DEF RemotePeer
    <3>3. QED
      BY <1>0, <3>1, <3>2, ChangeType
  <2>2. CASE \E t \in Tracks : RemoteTrack(p, t)
    <3>1. PICK t \in Tracks : RemoteTrack(p, t)
      BY <2>2
    <3>2. <<p, t>> \in Keys(TracksMap) /\ <<p, t>> \in Keys(p)
      BY <1>a, MapFacts DEF TrackKeys
    <3>3. {TracksMap, p} \in SUBSET Maps /\ \A m \in {TracksMap, p} : <<p, t>> \in Keys(m)
      BY <1>a, <3>2, MapFacts
    <3>4. PICK op \in {"Set", "Del"} : Change({TracksMap, p}, op, <<p, t>>)
      BY <3>1 DEF RemoteTrack
    <3>5. QED
      BY <1>0, <3>3, <3>4, ChangeType
  <2>3. QED
    BY <2>1, <2>2
<1>4. IsQueues(out)'
  BY <1>0 DEF RemotePeer, RemoteTrack, room
<1>5. QED
  BY <1>1, <1>2, <1>3, <1>4 DEF TypeOK, RoomTypes, ViewTypes, NetTypes, IsQueues, IsInbox, Ctl, PeerRecord

\* A new room has the types.
LEMMA InitType == Init => TypeOK
<1> SUFFICES ASSUME Init PROVE TypeOK
  OBVIOUS
<1>1. peers \in Partial(Endpoints, PeerRecord) /\ privSubs \in Partial(Targets, SUBSET Endpoints)
  <2>1. peers \in [{} -> PeerRecord] /\ privSubs \in [{} -> SUBSET Endpoints]
    BY DEF Init
  <2>2. QED
    BY <2>1 DEF Partial
<1>2. RoomTypes /\ ViewTypes
  BY <1>1 DEF Init, RoomTypes, ViewTypes, NothingTold
<1>3. NetTypes /\ IsQueues(out)
  BY DEF Init, NetTypes, IsInbox, IsQueues
<1>4. QED
  BY <1>2, <1>3, TypeParts

\* Every step keeps the types.
LEMMA NextType == TypeOK /\ [Next]_vars => TypeOK'
<1> SUFFICES ASSUME TypeOK, [Next]_vars PROVE TypeOK'
  OBVIOUS
<1>1. ASSUME Destroy PROVE TypeOK'
  BY <1>1 DEF Destroy, TypeOK, net
<1>2. ASSUME UNCHANGED vars PROVE TypeOK'
  BY <1>2 DEF TypeOK, vars, room, net
<1>3. QED
  BY <1>1, <1>2, JoinType, LeaveType, SubscribeType, TrackType, EventType, ApplyType, RemoteType DEF Next

\* Types are kept by every handler of RoomMetadata (metadata.rs) and by the
\* store: in particular every control and event names keys of its own map, so
\* that no handler meets a key of another kind.
THEOREM TypeSafety == Spec => []TypeOK
<1>1. QED
  BY InitType, NextType, PTL DEF Spec

-----------------------------------------------------------------------------
(* Subscribers.                                                            *)

\* on_join keeps the subscriber indexes consistent.
LEMMA JoinSubs ==
  ASSUME TypeOK, SubscribersConsistent, NEW e \in Endpoints, NEW mode \in Modes, Join(e, mode)
  PROVE  SubscribersConsistent'
<1>0. /\ e \notin DOMAIN peers
      /\ peers' = With(peers, e, Record(mode, {}, {}))
      /\ peersSubs' = IF mode.subPeers THEN peersSubs \union {e} ELSE peersSubs
      /\ tracksSubs' = IF mode.subTracks THEN tracksSubs \union {e} ELSE tracksSubs
      /\ privSubs' = privSubs /\ alive' = TRUE
  BY DEF Join
<1>1. /\ DOMAIN peers' = DOMAIN peers \union {e}
      /\ peers'[e].mode = mode /\ peers'[e].subPeers = {}
      /\ \A d \in DOMAIN peers : peers'[d] = peers[d]
  BY <1>0 DEF With, Record
<1>2. peersSubs' = {d \in DOMAIN peers' : peers'[d].mode.subPeers}
  BY <1>0, <1>1 DEF SubscribersConsistent
<1>3. tracksSubs' = {d \in DOMAIN peers' : peers'[d].mode.subTracks}
  BY <1>0, <1>1 DEF SubscribersConsistent
<1>4. \A p \in Targets : Subscribers(p)' = {d \in DOMAIN peers' : p \in peers'[d].subPeers}
  BY <1>0, <1>1 DEF SubscribersConsistent, Subscribers
<1>5. QED
  BY <1>0, <1>2, <1>3, <1>4 DEF SubscribersConsistent

\* on_leave removes the endpoint from every subscriber index and from the room alike.
LEMMA LeaveSubs ==
  ASSUME TypeOK, SubscribersConsistent, NEW e \in Endpoints, Leave(e)
  PROVE  SubscribersConsistent'
<1> DEFINE last == {q \in peers[e].subPeers : Subscribers(q) \ {e} = {}}
<1>0. /\ e \in DOMAIN peers
      /\ peers' = Without(peers, e)
      /\ peersSubs' = peersSubs \ {e} /\ tracksSubs' = tracksSubs \ {e}
      /\ privSubs' = [q \in DOMAIN privSubs \ last |->
                        IF q \in peers[e].subPeers THEN privSubs[q] \ {e} ELSE privSubs[q]]
      /\ alive' = alive
  BY DEF Leave
<1>1. /\ DOMAIN peers' = DOMAIN peers \ {e}
      /\ \A d \in DOMAIN peers' : peers'[d] = peers[d]
  BY <1>0 DEF Without
<1>2. peersSubs' = {d \in DOMAIN peers' : peers'[d].mode.subPeers}
  BY <1>0, <1>1 DEF SubscribersConsistent
<1>3. tracksSubs' = {d \in DOMAIN peers' : peers'[d].mode.subTracks}
  BY <1>0, <1>1 DEF SubscribersConsistent
<1>4. ASSUME NEW p \in Targets
      PROVE  Subscribers(p)' = {d \in DOMAIN peers' : p \in peers'[d].subPeers}
  <2>1. Subscribers(p) = {d \in DOMAIN peers : p \in peers[d].subPeers}
    BY DEF SubscribersConsistent
  <2>2. Subscribers(p)' = Subscribers(p) \ {e}
    BY <1>0, <2>1 DEF Subscribers
  <2>3. QED
    BY <1>1, <2>1, <2>2
<1>5. ASSUME NEW p \in DOMAIN privSubs' PROVE privSubs'[p] # {}
  BY <1>0, <1>5 DEF SubscribersConsistent, Subscribers
<1>6. QED
  BY <1>0, <1>1, <1>2, <1>3, <1>4, <1>5 DEF SubscribersConsistent

\* on_subscribe_peer enters the endpoint in both directions.
LEMMA SubscribeSubs ==
  ASSUME TypeOK, SubscribersConsistent, NEW e \in Endpoints, NEW p \in Targets, SubscribePeer(e, p)
  PROVE  SubscribersConsistent'
<1>0. /\ e \in DOMAIN peers
      /\ peers' = With(peers, e, Record(peers[e].mode, peers[e].subPeers \union {p}, peers[e].pubTracks))
      /\ peersSubs' = peersSubs /\ tracksSubs' = tracksSubs /\ alive' = alive
      /\ privSubs' = With(privSubs, p, Subscribers(p) \union {e})
  BY DEF SubscribePeer
<1>1. /\ DOMAIN peers' = DOMAIN peers
      /\ peers'[e].mode = peers[e].mode /\ peers'[e].subPeers = peers[e].subPeers \union {p}
      /\ \A d \in DOMAIN peers : d # e => peers'[d] = peers[d]
  BY <1>0 DEF With, Record
<1>2. /\ peersSubs' = {d \in DOMAIN peers' : peers'[d].mode.subPeers}
      /\ tracksSubs' = {d \in DOMAIN peers' : peers'[d].mode.subTracks}
  BY <1>0, <1>1 DEF SubscribersConsistent
<1>3. ASSUME NEW q \in Targets
      PROVE  Subscribers(q)' = {d \in DOMAIN peers' : q \in peers'[d].subPeers}
  <2>1. Subscribers(q) = {d \in DOMAIN peers : q \in peers[d].subPeers}
    BY DEF SubscribersConsistent
  <2>2. Subscribers(q)' = IF q = p THEN Subscribers(q) \union {e} ELSE Subscribers(q)
    BY <1>0 DEF Subscribers, With
  <2>3. QED
    BY <1>0, <1>1, <2>1, <2>2
<1>4. ASSUME NEW q \in DOMAIN privSubs' PROVE privSubs'[q] # {}
  BY <1>0, <1>4 DEF SubscribersConsistent, With
<1>5. QED
  BY <1>0, <1>1, <1>2, <1>3, <1>4 DEF SubscribersConsistent

\* on_unsubscribe_peer takes the endpoint out of both directions.
LEMMA UnsubscribeSubs ==
  ASSUME TypeOK, SubscribersConsistent, NEW e \in Endpoints, NEW p \in Targets, UnsubscribePeer(e, p)
  PROVE  SubscribersConsistent'
<1> DEFINE rest == Subscribers(p) \ {e}
<1>0. /\ e \in DOMAIN peers
      /\ peers' = With(peers, e, Record(peers[e].mode, peers[e].subPeers \ {p}, peers[e].pubTracks))
      /\ peersSubs' = peersSubs /\ tracksSubs' = tracksSubs /\ alive' = alive
      /\ privSubs' = IF rest = {} THEN Without(privSubs, p) ELSE With(privSubs, p, rest)
  BY DEF UnsubscribePeer
<1>1. /\ DOMAIN peers' = DOMAIN peers
      /\ peers'[e].mode = peers[e].mode /\ peers'[e].subPeers = peers[e].subPeers \ {p}
      /\ \A d \in DOMAIN peers : d # e => peers'[d] = peers[d]
  BY <1>0 DEF With, Record
<1>2. /\ peersSubs' = {d \in DOMAIN peers' : peers'[d].mode.subPeers}
      /\ tracksSubs' = {d \in DOMAIN peers' : peers'[d].mode.subTracks}
  BY <1>0, <1>1 DEF SubscribersConsistent
<1>3. ASSUME NEW q \in Targets
      PROVE  Subscribers(q)' = {d \in DOMAIN peers' : q \in peers'[d].subPeers}
  <2>1. Subscribers(q) = {d \in DOMAIN peers : q \in peers[d].subPeers}
    BY DEF SubscribersConsistent
  <2>2. Subscribers(q)' = IF q = p THEN Subscribers(q) \ {e} ELSE Subscribers(q)
    BY <1>0 DEF Subscribers, With, Without
  <2>3. QED
    BY <1>0, <1>1, <2>1, <2>2
<1>4. ASSUME NEW q \in DOMAIN privSubs' PROVE privSubs'[q] # {}
  BY <1>0, <1>4 DEF SubscribersConsistent, With, Without
<1>5. QED
  BY <1>0, <1>1, <1>2, <1>3, <1>4 DEF SubscribersConsistent

\* Publishing and unpublishing a track leaves the subscriber indexes alone.
LEMMA TrackSubs ==
  ASSUME TypeOK, SubscribersConsistent, NEW e \in Endpoints, NEW t \in Tracks,
         TrackPublish(e, t) \/ TrackUnpublish(e, t)
  PROVE  SubscribersConsistent'
<1>0. /\ e \in DOMAIN peers
      /\ \E T : peers' = With(peers, e, Record(peers[e].mode, peers[e].subPeers, T))
      /\ peersSubs' = peersSubs /\ tracksSubs' = tracksSubs /\ alive' = alive /\ privSubs' = privSubs
  BY DEF TrackPublish, TrackUnpublish
<1>1. /\ DOMAIN peers' = DOMAIN peers
      /\ \A d \in DOMAIN peers : peers'[d].mode = peers[d].mode /\ peers'[d].subPeers = peers[d].subPeers
  BY <1>0 DEF With, Record
<1>2. /\ peersSubs' = {d \in DOMAIN peers' : peers'[d].mode.subPeers}
      /\ tracksSubs' = {d \in DOMAIN peers' : peers'[d].mode.subTracks}
  BY <1>0, <1>1 DEF SubscribersConsistent
<1>3. \A p \in Targets : Subscribers(p)' = {d \in DOMAIN peers' : p \in peers'[d].subPeers}
  BY <1>0, <1>1 DEF SubscribersConsistent, Subscribers
<1>4. QED
  BY <1>0, <1>1, <1>2, <1>3 DEF SubscribersConsistent

\* Every step keeps the subscriber indexes consistent.
LEMMA NextSubs == TypeOK /\ SubscribersConsistent /\ [Next]_vars => SubscribersConsistent'
<1> SUFFICES ASSUME TypeOK, SubscribersConsistent, [Next]_vars PROVE SubscribersConsistent'
  OBVIOUS
<1>1. ASSUME UNCHANGED <<alive, peers, peersSubs, tracksSubs, privSubs>> PROVE SubscribersConsistent'
  BY <1>1 DEF SubscribersConsistent, Subscribers
<1>2. ASSUME Destroy PROVE SubscribersConsistent'
  BY <1>2 DEF Destroy, SubscribersConsistent, Subscribers
<1>3. ASSUME NEW m \in Maps, \/ \E k : KvEvent(m, k) \/ ApplyKey(m, k)
                             \/ ApplySub(m) \/ ApplyUnsub(m)
      PROVE  SubscribersConsistent'
  BY <1>1, <1>3 DEF KvEvent, ApplyKey, ApplySub, ApplyUnsub
<1>4. ASSUME NEW p, RemotePeer(p) \/ \E t \in Tracks : RemoteTrack(p, t)
      PROVE  SubscribersConsistent'
  BY <1>1, <1>4 DEF RemotePeer, RemoteTrack, room
<1>5. ASSUME UNCHANGED vars PROVE SubscribersConsistent'
  BY <1>1, <1>5 DEF vars, room
<1>6. QED
  BY <1>2, <1>3, <1>4, <1>5, JoinSubs, LeaveSubs, SubscribeSubs, UnsubscribeSubs, TrackSubs DEF Next

\* The subscriber indexes agree with the peers' records whatever joins, leaves
\* and subscriptions interleave: on_leave never misses the private map entry it
\* expects (metadata.rs:162), and an empty room holds no subscriber.
THEOREM SubscriberSafety == Spec => []SubscribersConsistent
<1>1. Init => SubscribersConsistent
  BY DEF Init, SubscribersConsistent, Subscribers
<1>2. QED
  BY <1>1, NextSubs, TypeSafety, PTL DEF Spec

-----------------------------------------------------------------------------
(* Subscriptions.                                                          *)

\* What appending a control does to the subscription a queue leads to: Sub turns
\* it on, Unsub off, and a control about keys leaves it.
LEMMA OnAppend ==
  ASSUME NEW m, NEW q \in Seq(Ctl(m)), NEW c \in Ctl(m), m \in Maps
  PROVE  /\ c = Sub => WillBeOn(m, Append(q, c))
         /\ c = Unsub => ~WillBeOn(m, Append(q, c))
         /\ c \in KeyCmds(m) => (WillBeOn(m, Append(q, c)) <=> WillBeOn(m, q))
<1> DEFINE r == Append(q, c)
           n == Len(q)
<1>1. /\ n \in Nat /\ DOMAIN q = 1..n /\ DOMAIN r = 1..(n + 1)
      /\ r[n + 1] = c /\ \A i \in 1..n : r[i] = q[i]
  OBVIOUS
<1>2. Sub.op = "Sub" /\ Unsub.op = "Unsub" /\ (c \in KeyCmds(m) => c.op \in {"Set", "Del"})
  BY CtlFacts
<1> HIDE DEF r, n
<1>3. ASSUME c = Sub PROVE WillBeOn(m, r)
  BY <1>1, <1>2, <1>3 DEF WillBeOn
<1>4. ASSUME c = Unsub PROVE ~WillBeOn(m, r)
  BY <1>1, <1>2, <1>4 DEF WillBeOn
<1>5. ASSUME c \in KeyCmds(m) PROVE WillBeOn(m, r) <=> WillBeOn(m, q)
  <2>1. c.op # "Sub" /\ c.op # "Unsub"
    BY <1>2, <1>5
  <2>2. ASSUME WillBeOn(m, q) PROVE WillBeOn(m, r)
    BY <1>1, <2>1, <2>2 DEF WillBeOn
  <2>3. ASSUME WillBeOn(m, r) PROVE WillBeOn(m, q)
    BY <1>1, <2>1, <2>3 DEF WillBeOn
  <2>4. QED
    BY <2>2, <2>3
<1>6. QED
  BY <1>3, <1>4, <1>5 DEF r

\* The same for a Push to the maps of M.
LEMMA OnPush ==
  ASSUME NEW q, IsQueues(q), NEW M, NEW c, \A m \in M \intersect Maps : c \in Ctl(m), NEW m \in Maps
  PROVE  /\ m \in M /\ c = Sub => WillBeOn(m, Push(q, M, c)[m])
         /\ m \in M /\ c = Unsub => ~WillBeOn(m, Push(q, M, c)[m])
         /\ m \notin M \/ c.op \in {"Set", "Del"} => (WillBeOn(m, Push(q, M, c)[m]) <=> WillBeOn(m, q[m]))
<1>1. Push(q, M, c)[m] = IF m \in M THEN Append(q[m], c) ELSE q[m]
  BY DEF Push
<1>2. q[m] \in Seq(Ctl(m))
  BY DEF IsQueues
<1>3. CASE m \notin M
  BY <1>1, <1>3
<1>4. CASE m \in M
  <2>1. c \in Ctl(m) /\ (c.op \in {"Set", "Del"} => c \in KeyCmds(m))
    BY <1>4, CtlFacts DEF Ctl
  <2>2. QED
    BY <1>1, <1>2, <1>4, <2>1, OnAppend
<1>5. QED
  BY <1>3, <1>4

\* Handling a key of the head changes no subscription.
LEMMA OnRest ==
  ASSUME NEW m \in Maps, NEW q \in Seq(Ctl(m)), q # <<>>, NEW k \in Head(q).keys
  PROVE  WillBeOn(m, Rest(q, k)) <=> WillBeOn(m, q)
<1> DEFINE n == Len(q)
<1>0. n \in Nat /\ n # 0 /\ DOMAIN q = 1..n /\ q[1] = Head(q)
  OBVIOUS
<1>1. q[1].op # "Sub" /\ q[1].op # "Unsub"
  BY <1>0, CtlFacts
<1>2. CASE Head(q).keys \subseteq {k}
  <2> DEFINE r == Tail(q)
  <2>1. DOMAIN r = 1..(n - 1) /\ \A i \in 1..(n - 1) : r[i] = q[i + 1]
    BY <1>0
  <2>2. Rest(q, k) = r
    BY <1>2 DEF Rest
  <2> HIDE DEF r, n
  <2>3. ASSUME WillBeOn(m, q) PROVE WillBeOn(m, r)
    <3>1. CASE m \in on /\ \A i \in DOMAIN q : q[i].op # "Unsub"
      BY <1>0, <2>1, <3>1 DEF WillBeOn
    <3>2. CASE \E i \in DOMAIN q : q[i].op = "Sub" /\ \A j \in DOMAIN q : j > i => q[j].op # "Unsub"
      <4>1. PICK i \in DOMAIN q : q[i].op = "Sub" /\ \A j \in DOMAIN q : j > i => q[j].op # "Unsub"
        BY <3>2
      <4>2. i # 1 /\ i - 1 \in DOMAIN r /\ r[i - 1].op = "Sub"
        BY <1>0, <1>1, <2>1, <4>1
      <4>3. \A j \in DOMAIN r : j > i - 1 => r[j].op # "Unsub"
        BY <1>0, <2>1, <4>1
      <4>4. QED
        BY <4>2, <4>3 DEF WillBeOn
    <3>3. QED
      BY <2>3, <3>1, <3>2 DEF WillBeOn
  <2>4. ASSUME WillBeOn(m, r) PROVE WillBeOn(m, q)
    <3>0. \A j \in DOMAIN q : j # 1 => j - 1 \in DOMAIN r /\ r[j - 1] = q[j]
      BY <1>0, <2>1
    <3>1. CASE m \in on /\ \A i \in DOMAIN r : r[i].op # "Unsub"
      BY <1>1, <3>0, <3>1 DEF WillBeOn
    <3>2. CASE \E i \in DOMAIN r : r[i].op = "Sub" /\ \A j \in DOMAIN r : j > i => r[j].op # "Unsub"
      <4>1. PICK i \in DOMAIN r : r[i].op = "Sub" /\ \A j \in DOMAIN r : j > i => r[j].op # "Unsub"
        BY <3>2
      <4>2. i + 1 \in DOMAIN q /\ q[i + 1].op = "Sub"
        BY <1>0, <2>1, <4>1
      <4>3. \A j \in DOMAIN q : j > i + 1 => q[j].op # "Unsub"
        BY <1>0, <2>1, <3>0, <4>1
      <4>4. QED
        BY <4>2, <4>3 DEF WillBeOn
    <3>3. QED
      BY <2>4, <3>1, <3>2 DEF WillBeOn
  <2>5. QED
    BY <2>2, <2>3, <2>4
<1>3. CASE ~(Head(q).keys \subseteq {k})
  <2>1. DOMAIN Rest(q, k) = DOMAIN q /\ \A i \in DOMAIN q : Rest(q, k)[i].op = q[i].op
    BY <1>3 DEF Rest, Cmd
  <2>2. QED
    BY <2>1 DEF WillBeOn
<1>4. QED
  BY <1>2, <1>3

\* Applying the Sub or Unsub at the head of a queue leads to the same
\* subscription as having it in the queue.
LEMMA OnApply ==
  ASSUME NEW m \in Maps, NEW q \in Seq(Ctl(m)), q # <<>>,
         \/ Head(q) = Sub /\ m \in on'
         \/ Head(q) = Unsub /\ m \notin on',
         NEW r, r = Tail(q), NEW b, b = on'
  PROVE  WillBeOn(m, q) <=>
           \/ m \in b /\ \A i \in DOMAIN r : r[i].op # "Unsub"
           \/ \E i \in DOMAIN r : r[i].op = "Sub" /\ \A j \in DOMAIN r : j > i => r[j].op # "Unsub"
<1> DEFINE n == Len(q)
<1>0. n \in Nat /\ n # 0 /\ DOMAIN q = 1..n /\ q[1] = Head(q)
  OBVIOUS
<1>1. DOMAIN r = 1..(n - 1) /\ \A i \in 1..(n - 1) : r[i] = q[i + 1]
  BY <1>0
<1>2. \/ q[1].op = "Sub" /\ m \in b
      \/ q[1].op = "Unsub" /\ m \notin b
  BY <1>0, CtlFacts
<1> HIDE DEF n
<1>3. \A j \in DOMAIN q : j # 1 => j - 1 \in DOMAIN r /\ r[j - 1] = q[j]
  BY <1>0, <1>1
<1>4. ASSUME WillBeOn(m, q)
      PROVE  \/ m \in b /\ \A i \in DOMAIN r : r[i].op # "Unsub"
             \/ \E i \in DOMAIN r : r[i].op = "Sub" /\ \A j \in DOMAIN r : j > i => r[j].op # "Unsub"
  <2>1. CASE m \in on /\ \A i \in DOMAIN q : q[i].op # "Unsub"
    BY <1>0, <1>1, <1>2, <2>1
  <2>2. CASE \E i \in DOMAIN q : q[i].op = "Sub" /\ \A j \in DOMAIN q : j > i => q[j].op # "Unsub"
    <3>1. PICK i \in DOMAIN q : q[i].op = "Sub" /\ \A j \in DOMAIN q : j > i => q[j].op # "Unsub"
      BY <2>2
    <3>2. CASE i = 1
      BY <1>0, <1>1, <1>2, <3>1, <3>2
    <3>3. CASE i # 1
      <4>1. i - 1 \in DOMAIN r /\ r[i - 1].op = "Sub"
        BY <1>3, <3>1, <3>3
      <4>2. \A j \in DOMAIN r : j > i - 1 => r[j].op # "Unsub"
        BY <1>0, <1>1, <3>1
      <4>3. QED
        BY <4>1, <4>2
    <3>4. QED
      BY <3>2, <3>3
  <2>3. QED
    BY <1>4, <2>1, <2>2 DEF WillBeOn
<1>5. ASSUME m \in b /\ \A i \in DOMAIN r : r[i].op # "Unsub"
      PROVE  WillBeOn(m, q)
  <2>1. 1 \in DOMAIN q /\ q[1].op = "Sub"
    BY <1>0, <1>2, <1>5
  <2>2. \A j \in DOMAIN q : j > 1 => q[j].op # "Unsub"
    BY <1>0, <1>3, <1>5
  <2>3. QED
    BY <2>1, <2>2 DEF WillBeOn
<1>6. ASSUME \E i \in DOMAIN r : r[i].op = "Sub" /\ \A j \in DOMAIN r : j > i => r[j].op # "Unsub"
      PROVE  WillBeOn(m, q)
  <2>1. PICK i \in DOMAIN r : r[i].op = "Sub" /\ \A j \in DOMAIN r : j > i => r[j].op # "Unsub"
    BY <1>6
  <2>2. i + 1 \in DOMAIN q /\ q[i + 1].op = "Sub"
    BY <1>0, <1>1, <2>1
  <2>3. ASSUME NEW j \in DOMAIN q, j > i + 1 PROVE q[j].op # "Unsub"
    <3>1. j # 1 /\ j - 1 > i
      BY <1>0, <1>1, <2>3
    <3>2. j - 1 \in DOMAIN r /\ r[j - 1] = q[j]
      BY <1>3, <3>1
    <3>3. QED
      BY <2>1, <3>1, <3>2
  <2>4. QED
    BY <2>2, <2>3 DEF WillBeOn
<1>7. QED
  BY <1>4, <1>5, <1>6

\* When the store's subscriptions stay, only the queue matters.
LEMMA OnSame ==
  ASSUME on' = on, NEW m
  PROVE  WillBeOn(m, out[m])' <=> WillBeOn(m, out'[m])
BY DEF WillBeOn

\* on_join queues a Sub exactly for the maps that get their first subscriber.
LEMMA JoinOn ==
  ASSUME TypeOK, SubscriptionsSettle, NEW e \in Endpoints, NEW mode \in Modes, Join(e, mode)
  PROVE  SubscriptionsSettle'
<1> DEFINE M1 == When(mode.pubPeer, {PeersMap})
           M2 == When(mode.subPeers /\ peersSubs = {}, {PeersMap})
           M3 == When(mode.subTracks /\ tracksSubs = {}, {TracksMap})
           c == Cmd("Set", {PeerOf[e]})
           q1 == Push(out, M1, c)
           q2 == Push(q1, M2, Sub)
           q3 == Push(q2, M3, Sub)
<1>0. on' = on /\ out' = q3 /\ privSubs' = privSubs
  BY DEF Join, net
<1>1. IsQueues(out) /\ (\A m \in M1 \intersect Maps : c \in Ctl(m)) /\ c.op = "Set"
  <2>1. c \in Ctl(PeersMap)
    BY MapFacts, CtlFacts
  <2>2. QED
    BY <2>1, TypeParts DEF When, Cmd
<1>2. IsQueues(q1) /\ \A m \in Maps : WillBeOn(m, q1[m]) <=> WillBeOn(m, out[m])
  <2> HIDE DEF c, M1
  <2> QED BY <1>1, PushType, OnPush
<1>3. /\ IsQueues(q2)
      /\ \A m \in Maps : /\ m \in M2 => WillBeOn(m, q2[m])
                         /\ m \notin M2 => (WillBeOn(m, q2[m]) <=> WillBeOn(m, q1[m]))
  <2> HIDE DEF q1, M2
  <2> QED BY <1>2, PushType, OnPush, CtlFacts
<1>4. \A m \in Maps : /\ m \in M3 => WillBeOn(m, q3[m])
                      /\ m \notin M3 => (WillBeOn(m, q3[m]) <=> WillBeOn(m, q2[m]))
  <2> HIDE DEF q2, M3
  <2> QED BY <1>3, OnPush, CtlFacts
<1> HIDE DEF q1, q2, q3
<1>5. ASSUME NEW m \in Maps PROVE WillBeOn(m, out[m])' <=> Interested(m)' # {}
  <2>1. WillBeOn(m, out[m])' <=> WillBeOn(m, q3[m])
    BY <1>0, OnSame
  <2>2. WillBeOn(m, out[m]) <=> Interested(m) # {}
    BY DEF SubscriptionsSettle
  <2>3. Interested(m)' # {} <=> (m \in M2 \/ m \in M3 \/ Interested(m) # {})
    BY <1>0, MapFacts DEF Interested, Join, When, Subscribers
  <2>4. QED
    BY <1>2, <1>3, <1>4, <2>1, <2>2, <2>3
<1>6. QED
  BY <1>5 DEF SubscriptionsSettle

\* on_leave queues an Unsub exactly for the maps that lose their last subscriber.
LEMMA LeaveOn ==
  ASSUME TypeOK, SubscribersConsistent, SubscriptionsSettle, NEW e \in Endpoints, Leave(e)
  PROVE  SubscriptionsSettle'
<1> DEFINE p == PeerOf[e]
           last == {q \in peers[e].subPeers : Subscribers(q) \ {e} = {}}
           K == {p} \X peers[e].pubTracks
           M2 == When(peers[e].pubTracks # {}, {TracksMap, p})
           M3 == When(IsLast(peersSubs, e), {PeersMap})
           M4 == When(IsLast(tracksSubs, e), {TracksMap})
           q1 == DelPeer(e)
           q2 == Push(q1, M2, Cmd("Del", K))
           q3 == Push(q2, M3, Unsub)
           q4 == Push(q3, M4, Unsub)
           q5 == Push(q4, last, Unsub)
<1>a. e \in DOMAIN peers /\ peers[e] \in PeerRecord
  BY TypeParts, PeersType DEF Leave
<1>0. on' = on /\ out' = q5
  BY DEF Leave, net
<1>1. IsQueues(q1) /\ \A m \in Maps : WillBeOn(m, q1[m]) <=> WillBeOn(m, out[m])
  <2> DEFINE M1 == When(peers[e].mode.pubPeer, {PeersMap})
             c == Cmd("Del", {p})
  <2>1. c \in Ctl(PeersMap) /\ c.op = "Del"
    BY MapFacts, CtlFacts DEF Cmd
  <2>2. IsQueues(out) /\ \A m \in M1 \intersect Maps : c \in Ctl(m)
    BY <2>1, TypeParts DEF When
  <2>3. q1 = Push(out, M1, c)
    BY DEF DelPeer
  <2> HIDE DEF M1, c, q1
  <2>4. QED
    BY <2>1, <2>2, <2>3, PushType, OnPush
<1>2. IsQueues(q2) /\ \A m \in Maps : WillBeOn(m, q2[m]) <=> WillBeOn(m, q1[m])
  <2> DEFINE c == Cmd("Del", K)
  <2>1. \A m \in M2 \intersect Maps : c \in Ctl(m)
    BY <1>a, MapFacts, TracksCtl DEF PeerRecord
  <2>2. c.op = "Del" /\ q2 = Push(q1, M2, c)
    BY DEF Cmd
  <2> HIDE DEF c, q1, q2, M2
  <2>3. QED
    BY <1>1, <2>1, <2>2, PushType, OnPush
<1>3. /\ IsQueues(q3)
      /\ \A m \in Maps : /\ m \in M3 => ~WillBeOn(m, q3[m])
                         /\ m \notin M3 => (WillBeOn(m, q3[m]) <=> WillBeOn(m, q2[m]))
  <2> HIDE DEF q2, M3
  <2> QED BY <1>2, PushType, OnPush, CtlFacts
<1>4. /\ IsQueues(q4)
      /\ \A m \in Maps : /\ m \in M4 => ~WillBeOn(m, q4[m])
                         /\ m \notin M4 => (WillBeOn(m, q4[m]) <=> WillBeOn(m, q3[m]))
  <2> HIDE DEF q3, M4
  <2> QED BY <1>3, PushType, OnPush, CtlFacts
<1>5. \A m \in Maps : /\ m \in last => ~WillBeOn(m, q5[m])
                      /\ m \notin last => (WillBeOn(m, q5[m]) <=> WillBeOn(m, q4[m]))
  <2> HIDE DEF q4, last
  <2> QED BY <1>4, OnPush, CtlFacts
<1> HIDE DEF q1, q2, q3, q4, q5
<1>6. ASSUME NEW m \in Maps PROVE WillBeOn(m, out[m])' <=> Interested(m)' # {}
  <2>1. WillBeOn(m, out[m])' <=> WillBeOn(m, q5[m])
    BY <1>0, OnSame
  <2>2. WillBeOn(m, out[m]) <=> Interested(m) # {}
    BY DEF SubscriptionsSettle
  <2>3. Interested(m)' # {} <=> Interested(m) # {} /\ m \notin M3 /\ m \notin M4 /\ m \notin last
    <3>0. /\ peersSubs' = peersSubs \ {e} /\ tracksSubs' = tracksSubs \ {e}
          /\ privSubs' = [q \in DOMAIN privSubs \ last |->
                            IF q \in peers[e].subPeers THEN privSubs[q] \ {e} ELSE privSubs[q]]
      BY DEF Leave
    <3>1. last \subseteq Peers
      BY <1>a, MapsAssumption DEF PeerRecord
    <3>2. CASE m = PeersMap
      <4>1. m \notin last /\ m \notin M4 /\ (m \in M3 <=> peersSubs = {e})
        BY <3>1, <3>2, MapFacts DEF When, IsLast
      <4>2. QED
        BY <3>0, <3>2, <4>1 DEF Interested
    <3>3. CASE m = TracksMap
      <4>1. m \notin last /\ m \notin M3 /\ (m \in M4 <=> tracksSubs = {e})
        BY <3>1, <3>3, MapFacts DEF When, IsLast
      <4>2. QED
        BY <3>0, <3>3, <4>1, MapFacts DEF Interested
    <3>4. CASE m # PeersMap /\ m # TracksMap
      <4>1. m \notin M3 /\ m \notin M4 /\ Interested(m) = Subscribers(m) /\ Interested(m)' = Subscribers(m)'
        BY <3>4 DEF When, Interested
      <4>2. m \in last => Subscribers(m)' = {}
        BY <3>0 DEF Subscribers
      <4>3. m \notin last => (Subscribers(m)' # {} <=> Subscribers(m) # {})
        BY <3>0 DEF Subscribers
      <4>4. QED
        BY <4>1, <4>2, <4>3
    <3>5. QED
      BY <3>2, <3>3, <3>4
  <2>4. QED
    BY <1>1, <1>2, <1>3, <1>4, <1>5, <2>1, <2>2, <2>3
<1>7. QED
  BY <1>6 DEF SubscriptionsSettle

\* on_subscribe_peer queues a Sub when the peer had no subscriber.
LEMMA SubscribeOn ==
  ASSUME TypeOK, SubscriptionsSettle, NEW e \in Endpoints, NEW p \in Targets, SubscribePeer(e, p)
  PROVE  SubscriptionsSettle'
<1> DEFINE M == When(Subscribers(p) = {}, {p})
<1>0. /\ on' = on /\ out' = Push(out, M, Sub)
      /\ peersSubs' = peersSubs /\ tracksSubs' = tracksSubs
      /\ privSubs' = With(privSubs, p, Subscribers(p) \union {e})
  BY DEF SubscribePeer, net
<1>1. p \in Maps /\ p # PeersMap /\ p # TracksMap
  BY MapsAssumption, MapFacts
<1>2. \A m \in Maps : /\ m \in M => WillBeOn(m, out'[m])
                      /\ m \notin M => (WillBeOn(m, out'[m]) <=> WillBeOn(m, out[m]))
  <2> HIDE DEF M
  <2> QED BY <1>0, TypeParts, OnPush, CtlFacts
<1>3. ASSUME NEW m \in Maps PROVE WillBeOn(m, out[m])' <=> Interested(m)' # {}
  <2>1. WillBeOn(m, out[m])' <=> WillBeOn(m, out'[m])
    BY <1>0, OnSame
  <2>2. WillBeOn(m, out[m]) <=> Interested(m) # {}
    BY DEF SubscriptionsSettle
  <2>3. Subscribers(m)' = IF m = p THEN Subscribers(p) \union {e} ELSE Subscribers(m)
    BY <1>0 DEF Subscribers, With
  <2>4. Interested(m)' # {} <=> m = p \/ Interested(m) # {}
    BY <1>0, <1>1, <2>3 DEF Interested
  <2>5. m = p /\ m \notin M => Interested(m) # {}
    BY <1>1 DEF Interested, When
  <2>6. m \in M => m = p
    BY DEF When
  <2>7. QED
    BY <1>2, <2>1, <2>2, <2>4, <2>5, <2>6
<1>4. QED
  BY <1>3 DEF SubscriptionsSettle

\* on_unsubscribe_peer queues an Unsub when the peer is left without subscribers.
LEMMA UnsubscribeOn ==
  ASSUME TypeOK, SubscriptionsSettle, NEW e \in Endpoints, NEW p \in Targets, UnsubscribePeer(e, p)
  PROVE  SubscriptionsSettle'
<1> DEFINE rest == Subscribers(p) \ {e}
           M == When(rest = {}, {p})
<1>0. /\ on' = on /\ out' = Push(out, M, Unsub)
      /\ peersSubs' = peersSubs /\ tracksSubs' = tracksSubs
      /\ privSubs' = IF rest = {} THEN Without(privSubs, p) ELSE With(privSubs, p, rest)
  BY DEF UnsubscribePeer, net
<1>1. p \in Maps /\ p # PeersMap /\ p # TracksMap
  BY MapsAssumption, MapFacts
<1>2. \A m \in Maps : /\ m \in M => ~WillBeOn(m, out'[m])
                      /\ m \notin M => (WillBeOn(m, out'[m]) <=> WillBeOn(m, out[m]))
  <2> HIDE DEF M
  <2> QED BY <1>0, TypeParts, OnPush, CtlFacts
<1>3. ASSUME NEW m \in Maps PROVE WillBeOn(m, out[m])' <=> Interested(m)' # {}
  <2>1. WillBeOn(m, out[m])' <=> WillBeOn(m, out'[m])
    BY <1>0, OnSame
  <2>2. WillBeOn(m, out[m]) <=> Interested(m) # {}
    BY DEF SubscriptionsSettle
  <2>3. Subscribers(m)' = IF m = p THEN rest ELSE Subscribers(m)
    BY <1>0 DEF Subscribers, With, Without
  <2>4. m # p => Interested(m)' = Interested(m) /\ m \notin M
    BY <1>0, <2>3 DEF Interested, When
  <2>5. m = p => Interested(m)' = rest /\ Interested(m) = Subscribers(p) /\ (m \in M <=> rest = {})
    BY <1>1, <2>3 DEF Interested, When
  <2>6. QED
    BY <1>2, <2>1, <2>2, <2>4, <2>5
<1>4. QED
  BY <1>3 DEF SubscriptionsSettle

\* Set and Del controls of tracks do not change what the node will be subscribed to.
LEMMA TrackOn ==
  ASSUME TypeOK, SubscriptionsSettle, NEW e \in Endpoints, NEW t \in Tracks,
         TrackPublish(e, t) \/ TrackUnpublish(e, t)
  PROVE  SubscriptionsSettle'
<1> DEFINE p == PeerOf[e]
           M == {TracksMap, p}
<1>0. /\ on' = on /\ peersSubs' = peersSubs /\ tracksSubs' = tracksSubs /\ privSubs' = privSubs
      /\ \E op \in {"Set", "Del"} : out' = Push(out, M, Cmd(op, {<<p, t>>}))
  BY DEF TrackPublish, TrackUnpublish, net
<1>1. PICK op \in {"Set", "Del"} : out' = Push(out, M, Cmd(op, {<<p, t>>}))
  BY <1>0
<1> DEFINE c == Cmd(op, {<<p, t>>})
<1>2. (\A m \in M \intersect Maps : c \in Ctl(m)) /\ c.op \in {"Set", "Del"}
  <2>1. p \in Peers /\ {<<p, t>>} = {p} \X {t} /\ When({t} # {}, M) = M
    BY MapFacts DEF When
  <2>2. \A m \in When({t} # {}, M) : Cmd(op, {p} \X {t}) \in Ctl(m)
    <3>1. p \in Peers /\ {t} \in SUBSET Tracks
      BY <2>1
    <3> HIDE DEF p
    <3> QED BY <3>1, TracksCtl
  <2>3. \A m \in M : c \in Ctl(m)
    BY <2>1, <2>2
  <2>4. QED
    BY <2>3 DEF Cmd
<1>3. \A m \in Maps : WillBeOn(m, out'[m]) <=> WillBeOn(m, out[m])
  <2>1. out' = Push(out, M, c)
    BY <1>1
  <2> HIDE DEF c, M
  <2>2. QED
    BY <1>2, <2>1, TypeParts, OnPush
<1>4. ASSUME NEW m \in Maps PROVE WillBeOn(m, out[m])' <=> Interested(m)' # {}
  <2>1. WillBeOn(m, out[m])' <=> WillBeOn(m, out'[m])
    BY <1>0, OnSame
  <2>2. Interested(m)' = Interested(m)
    BY <1>0 DEF Interested, Subscribers
  <2>3. QED
    BY <1>3, <2>1, <2>2 DEF SubscriptionsSettle
<1>5. QED
  BY <1>4 DEF SubscriptionsSettle

\* Executing the head of a queue does not change what the whole queue leads to.
LEMMA ApplyOn ==
  ASSUME TypeOK, SubscriptionsSettle, NEW m \in Maps,
         (\E k : ApplyKey(m, k)) \/ ApplySub(m) \/ ApplyUnsub(m)
  PROVE  SubscriptionsSettle'
<1>0. IsQueues(out) /\ out[m] \in Seq(Ctl(m)) /\ out[m] # <<>>
  BY TypeParts DEF IsQueues, ApplyKey, ApplySub, ApplyUnsub
<1>1. \A n \in Maps : Interested(n)' = Interested(n)
  BY DEF Interested, Subscribers, ApplyKey, ApplySub, ApplyUnsub
<1>2. \A n \in Maps \ {m} : out'[n] = out[n] /\ (n \in on' <=> n \in on)
  BY <1>0 DEF IsQueues, ApplyKey, ApplySub, ApplyUnsub, Change
<1>3. \A n \in Maps \ {m} : WillBeOn(n, out[n])' <=> WillBeOn(n, out[n])
  BY <1>2 DEF WillBeOn
<1>4. WillBeOn(m, out[m])' <=> WillBeOn(m, out[m])
  <2>1. CASE \E k : ApplyKey(m, k)
    <3>1. PICK k : ApplyKey(m, k)
      BY <2>1
    <3>2. k \in Head(out[m]).keys /\ out'[m] = Rest(out[m], k) /\ on' = on
      BY <1>0, <3>1 DEF ApplyKey, Change, IsQueues
    <3>3. WillBeOn(m, Rest(out[m], k)) <=> WillBeOn(m, out[m])
      BY <1>0, <3>2, OnRest
    <3>4. QED
      BY <3>2, <3>3, OnSame
  <2>2. CASE ApplySub(m) \/ ApplyUnsub(m)
    <3>1. /\ out'[m] = Tail(out[m])
          /\ \/ Head(out[m]) = Sub /\ m \in on'
             \/ Head(out[m]) = Unsub /\ m \notin on'
      BY <1>0, <2>2 DEF ApplySub, ApplyUnsub, IsQueues
    <3>2. WillBeOn(m, out[m]) <=>
            \/ m \in on' /\ \A i \in DOMAIN out'[m] : out'[m][i].op # "Unsub"
            \/ \E i \in DOMAIN out'[m] : /\ out'[m][i].op = "Sub"
                                         /\ \A j \in DOMAIN out'[m] : j > i => out'[m][j].op # "Unsub"
      BY <1>0, <3>1, OnApply
    <3>3. QED
      BY <3>2 DEF WillBeOn
  <2>3. QED
    BY <2>1, <2>2
<1>5. QED
  BY <1>1, <1>3, <1>4 DEF SubscriptionsSettle

\* Every step keeps the pending controls in agreement with the subscribers.
LEMMA NextOn ==
  TypeOK /\ SubscribersConsistent /\ SubscriptionsSettle /\ [Next]_vars => SubscriptionsSettle'
<1> SUFFICES ASSUME TypeOK, SubscribersConsistent, SubscriptionsSettle, [Next]_vars
             PROVE  SubscriptionsSettle'
  OBVIOUS
<1>1. ASSUME UNCHANGED <<peersSubs, tracksSubs, privSubs, out, on>> PROVE SubscriptionsSettle'
  BY <1>1 DEF SubscriptionsSettle, Interested, Subscribers, WillBeOn
<1>2. ASSUME Destroy PROVE SubscriptionsSettle'
  BY <1>1, <1>2 DEF Destroy, net
<1>3. ASSUME NEW m \in Maps, \E k : KvEvent(m, k) PROVE SubscriptionsSettle'
  BY <1>1, <1>3 DEF KvEvent
<1>4. ASSUME NEW p, RemotePeer(p) \/ \E t \in Tracks : RemoteTrack(p, t)
      PROVE  SubscriptionsSettle'
  BY <1>1, <1>4 DEF RemotePeer, RemoteTrack, room, Change
<1>5. ASSUME UNCHANGED vars PROVE SubscriptionsSettle'
  BY <1>1, <1>5 DEF vars, room, net
<1>6. QED
  BY <1>2, <1>3, <1>4, <1>5, JoinOn, LeaveOn, SubscribeOn, UnsubscribeOn, TrackOn, ApplyOn DEF Next

\* The controls pushed so far always lead to the node being subscribed to
\* exactly the maps that some endpoint of the room is interested in, in spite of
\* the unbalanced Unsub of on_unsubscribe_peer (metadata.rs:190).
THEOREM SubscriptionSafety == Spec => []SubscriptionsSettle
<1>1. Init => SubscriptionsSettle
  BY DEF Init, SubscriptionsSettle, WillBeOn, Interested, Subscribers
<1>2. QED
  BY <1>1, NextOn, TypeSafety, SubscriberSafety, PTL DEF Spec
===========================================================================
