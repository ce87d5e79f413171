---------------------------- MODULE RoomMetadata ----------------------------
(***************************************************************************)
(* The metadata of one room on one media node (RoomMetadata): which        *)
(* endpoints are in the room and as which peer, what they publish, who     *)
(* wants to hear of peers and tracks, and the copy of the cluster's peers  *)
(* and tracks from which new subscribers are told what already exists.     *)
(*                                                                         *)
(* The other side is the key-value store of atm0s-sdn, outside this        *)
(* repository: maps of keys that all nodes share.  A node that sends Sub   *)
(* for a map receives OnSet for every key in it and then OnSet and OnDel   *)
(* for every change, in order for each map, until Unsub; events under way  *)
(* at that moment still arrive.  Maps are independent of each other.       *)
(*                                                                         *)
(* Three kinds of maps are used (id_generator): the peers of the room, the *)
(* tracks of the room, and one private map for each peer with its tracks.  *)
(* A peer's value stands for its private map.                              *)
(***************************************************************************)
EXTENDS Naturals, Sequences

CONSTANTS
  Endpoints,    \* endpoints of this node
  PeerOf,       \* the peer id each endpoint joins as
  RemotePeers,  \* peers on other nodes
  Tracks,       \* track names, one per remote track id
  Modes,        \* the publish and subscribe flags an endpoint may join with
  Targets,      \* the peers that endpoints may subscribe to one by one
  PeersMap, TracksMap,
  MaxOut,       \* bound: controls of one map waiting in the room's queue
  MaxIn         \* bound: events of one map under way to the room

Peers == {PeerOf[e] : e \in Endpoints} \union RemotePeers
Maps == {PeersMap, TracksMap} \union Peers
TrackKeys == Peers \X Tracks

ASSUME MapsAssumption ==
  /\ PeerOf \in [Endpoints -> Peers]
  /\ PeersMap \notin Peers /\ TracksMap \notin Peers /\ PeersMap # TracksMap
  /\ Targets \subseteq Peers
  /\ \A d, e \in Endpoints : PeerOf[d] = PeerOf[e] => d = e
  /\ \A e \in Endpoints : PeerOf[e] \notin RemotePeers
  /\ Modes \subseteq [pubPeer : BOOLEAN, pubTracks : BOOLEAN, subPeers : BOOLEAN, subTracks : BOOLEAN]

VARIABLES
  alive,         \* the room exists on this node
  peers,         \* endpoint -> container, for the endpoints in the room
  peersSubs,     \* peers_map_subscribers
  tracksSubs,    \* tracks_map_subscribers
  privSubs,      \* peers_tracks_subs: peer -> endpoints that subscribed to it
  clusterPeers, clusterTracks,
  out,           \* map -> Kv controls in the queue
  told,          \* endpoint -> what the events to it amount to
  kv,            \* map -> keys in the cluster
  on,            \* maps this node is subscribed to
  inbox          \* map -> events under way to this node

room == <<alive, peers, peersSubs, tracksSubs, privSubs, clusterPeers, clusterTracks, out, told>>
net == <<kv, on, inbox>>
vars == <<room, net>>

-----------------------------------------------------------------------------
(* Outputs.                                                                *)

\* A control or an event for the keys of a set.  Where the code pushes one after
\* the other for several keys of a map, in the order its hash map happens to
\* have, the keys share an element of the queue and leave it one by one.
Cmd(op, keys) == [op |-> op, keys |-> keys]
Sub == Cmd("Sub", {})
Unsub == Cmd("Unsub", {})

Push(q, M, cmd) == [m \in Maps |-> IF m \in M THEN Append(q[m], cmd) ELSE q[m]]
When(cond, M) == IF cond THEN M ELSE {}

\* The queue q after its head has been handled for key k.
Rest(q, k) ==
  IF Head(q).keys \subseteq {k} THEN Tail(q)
  ELSE [i \in DOMAIN q |-> IF i = 1 THEN Cmd(q[1].op, q[1].keys \ {k}) ELSE q[i]]

\* Events to endpoints.  The queue is first in first out, so the events are
\* folded into what the endpoint has been told when they are pushed.
NothingTold == [peers |-> {}, tracks |-> {}]
Update(S, op, x) == IF op = "Set" THEN S \union {x} ELSE S \ {x}
TellPeers(E, op, p) ==
  [e \in Endpoints |-> [peers |-> IF e \in E THEN Update(told[e].peers, op, p) ELSE told[e].peers,
                        tracks |-> told[e].tracks]]
TellTracks(E, op, k) ==
  [e \in Endpoints |-> [peers |-> told[e].peers,
                        tracks |-> IF e \in E THEN Update(told[e].tracks, op, k) ELSE told[e].tracks]]

-----------------------------------------------------------------------------
(* Controls of the endpoints.                                              *)

HasSpace == \A m \in Maps : Len(out[m]) < MaxOut

Without(f, x) == [y \in DOMAIN f \ {x} |-> f[y]]
With(f, x, v) == [y \in DOMAIN f \union {x} |-> IF y = x THEN v ELSE f[y]]

\* PeerContainer; the peer id is PeerOf[e].
Record(mode, subPeers, pubTracks) == [mode |-> mode, subPeers |-> subPeers, pubTracks |-> pubTracks]

\* The entry of peers_tracks_subs, by default empty.
Subscribers(p) == IF p \in DOMAIN privSubs THEN privSubs[p] ELSE {}

\* A new subscriber waits for the store's events about peers, or about tracks.
Restored_NoPeers(mode) == [peers |-> {}, tracks |-> IF mode.subTracks THEN clusterTracks ELSE {}]

\* What on_join restores to a new subscriber from the room's copy.
Restored(mode) ==
  [peers |-> IF mode.subPeers THEN clusterPeers ELSE {},
   tracks |-> IF mode.subTracks THEN clusterTracks ELSE {}]

\* on_join: publish the peer, subscribe by level and restore what the room
\* already knows.  The first subscriber of a map subscribes the node.  The
\* endpoint is not in the room: it leaves a room before it joins one.
Join(e, mode) ==
  LET set == Push(out, When(mode.pubPeer, {PeersMap}), Cmd("Set", {PeerOf[e]}))
      subPeers == Push(set, When(mode.subPeers /\ peersSubs = {}, {PeersMap}), Sub)
  IN
  /\ e \notin DOMAIN peers /\ HasSpace
  /\ alive' = TRUE
  /\ peers' = With(peers, e, Record(mode, {}, {}))
  /\ peersSubs' = IF mode.subPeers THEN peersSubs \union {e} ELSE peersSubs
  /\ tracksSubs' = IF mode.subTracks THEN tracksSubs \union {e} ELSE tracksSubs
  /\ told' = [told EXCEPT ![e] = Restored(mode)]
  /\ out' = Push(subPeers, When(mode.subTracks /\ tracksSubs = {}, {TracksMap}), Sub)
  /\ UNCHANGED <<privSubs, clusterPeers, clusterTracks, net>>

\* Removing e from the subscribers S of a map leaves none.
IsLast(S, e) == S = {e}

DelPeer(e) == Push(out, When(peers[e].mode.pubPeer, {PeersMap}), Cmd("Del", {PeerOf[e]}))

\* on_leave: delete what the peer published, and unsubscribe the node from
\* every map whose last subscriber goes.
Leave(e) ==
  LET p == PeerOf[e]
      last == {q \in peers[e].subPeers : Subscribers(q) \ {e} = {}}
      delTracks == Push(DelPeer(e), When(peers[e].pubTracks # {}, {TracksMap, p}),
                        Cmd("Del", {p} \X peers[e].pubTracks))
      unsubPeers == Push(delTracks, When(IsLast(peersSubs, e), {PeersMap}), Unsub)
      unsubTracks == Push(unsubPeers, When(IsLast(tracksSubs, e), {TracksMap}), Unsub)
  IN
  /\ e \in DOMAIN peers /\ HasSpace
  /\ peers' = Without(peers, e)
  /\ peersSubs' = peersSubs \ {e}
  /\ tracksSubs' = tracksSubs \ {e}
  /\ privSubs' = [q \in DOMAIN privSubs \ last |->
                    IF q \in peers[e].subPeers THEN privSubs[q] \ {e} ELSE privSubs[q]]
  /\ out' = Push(unsubTracks, last, Unsub)
  /\ told' = [told EXCEPT ![e] = NothingTold]
  /\ UNCHANGED <<alive, clusterPeers, clusterTracks, net>>

\* The check for the first subscriber comes after the insertion.
SubscribePeer_Mutant(e, p) ==
  /\ e \in DOMAIN peers /\ HasSpace
  /\ privSubs' = With(privSubs, p, Subscribers(p) \union {e})
  /\ peers' = With(peers, e, Record(peers[e].mode, peers[e].subPeers \union {p}, peers[e].pubTracks))
  /\ UNCHANGED <<alive, peersSubs, tracksSubs, clusterPeers, clusterTracks, told, out, net>>

\* on_subscribe_peer.  The endpoint is in the room: it asks only when joined.
SubscribePeer(e, p) ==
  /\ e \in DOMAIN peers /\ HasSpace
  /\ privSubs' = With(privSubs, p, Subscribers(p) \union {e})
  /\ peers' = With(peers, e, Record(peers[e].mode, peers[e].subPeers \union {p}, peers[e].pubTracks))
  /\ out' = Push(out, When(Subscribers(p) = {}, {p}), Sub)
  /\ UNCHANGED <<alive, peersSubs, tracksSubs, clusterPeers, clusterTracks, told, net>>

\* The endpoint's own record keeps the subscription.
UnsubscribePeer_Mutant(e, p) ==
  LET rest == Subscribers(p) \ {e} IN
  /\ e \in DOMAIN peers /\ HasSpace
  /\ privSubs' = IF rest = {} THEN Without(privSubs, p) ELSE With(privSubs, p, rest)
  /\ out' = Push(out, When(rest = {}, {p}), Unsub)
  /\ UNCHANGED <<alive, peers, peersSubs, tracksSubs, clusterPeers, clusterTracks, told, net>>

\* on_unsubscribe_peer.  A map that has no subscriber is unsubscribed again.  The
\* endpoint counts no longer on what it was told of the peer, unless it hears of
\* all tracks of the room.
UnsubscribePeer(e, p) ==
  LET rest == Subscribers(p) \ {e} IN
  /\ e \in DOMAIN peers /\ HasSpace
  /\ privSubs' = IF rest = {} THEN Without(privSubs, p) ELSE With(privSubs, p, rest)
  /\ peers' = With(peers, e, Record(peers[e].mode, peers[e].subPeers \ {p}, peers[e].pubTracks))
  /\ out' = Push(out, When(rest = {}, {p}), Unsub)
  /\ told' = IF e \in tracksSubs THEN told
             ELSE [told EXCEPT ![e] = [peers |-> told[e].peers,
                                       tracks |-> {k \in told[e].tracks : k[1] # p}]]
  /\ UNCHANGED <<alive, peersSubs, tracksSubs, clusterPeers, clusterTracks, net>>

\* on_track_publish, once per track: a track of an endpoint starts once.
TrackPublish(e, t) ==
  /\ e \in DOMAIN peers /\ HasSpace
  /\ peers[e].mode.pubTracks /\ t \notin peers[e].pubTracks
  /\ peers' = With(peers, e, Record(peers[e].mode, peers[e].subPeers, peers[e].pubTracks \union {t}))
  /\ out' = Push(out, {TracksMap, PeerOf[e]}, Cmd("Set", {<<PeerOf[e], t>>}))
  /\ UNCHANGED <<alive, peersSubs, tracksSubs, privSubs, clusterPeers, clusterTracks, told, net>>

\* on_track_unpublish.
TrackUnpublish(e, t) ==
  /\ e \in DOMAIN peers /\ HasSpace
  /\ t \in peers[e].pubTracks
  /\ peers' = With(peers, e, Record(peers[e].mode, peers[e].subPeers, peers[e].pubTracks \ {t}))
  /\ out' = Push(out, {TracksMap, PeerOf[e]}, Cmd("Del", {<<PeerOf[e], t>>}))
  /\ UNCHANGED <<alive, peersSubs, tracksSubs, privSubs, clusterPeers, clusterTracks, told, net>>

\* The cluster drops the room once it is empty, its metadata included.
Destroy ==
  /\ alive /\ DOMAIN peers = {} /\ peersSubs = {} /\ tracksSubs = {} /\ DOMAIN privSubs = {}
  /\ \A m \in Maps : out[m] = <<>>
  /\ alive' = FALSE
  /\ clusterPeers' = {} /\ clusterTracks' = {}
  /\ UNCHANGED <<peers, peersSubs, tracksSubs, privSubs, out, told, net>>

-----------------------------------------------------------------------------
(* Events of the store.                                                    *)

\* on_peers_kv_event.
OnPeersEvent(op, p) ==
  /\ clusterPeers' = Update(clusterPeers, op, p)
  /\ told' = IF op = "Set" \/ p \in clusterPeers THEN TellPeers(peersSubs, op, p) ELSE told
  /\ UNCHANGED clusterTracks

\* on_tracks_kv_event and on_peers_tracks_kv_event: both keep clusterTracks, and
\* a deletion of a track that is not in it any more tells nobody.
OnTracksEvent(E, op, k) ==
  /\ clusterTracks' = Update(clusterTracks, op, k)
  /\ told' = IF op = "Set" \/ k \in clusterTracks THEN TellTracks(E, op, k) ELSE told
  /\ UNCHANGED clusterPeers

\* on_kv_event, for one key.  An event for a room that is gone is dropped, and so
\* is one of a private map without subscribers.
KvEvent(m, k) ==
  /\ inbox[m] # <<>> /\ k \in Head(inbox[m]).keys
  /\ inbox' = [inbox EXCEPT ![m] = Rest(@, k)]
  /\ LET op == Head(inbox[m]).op IN
       \/ alive /\ m = PeersMap /\ OnPeersEvent(op, k)
       \/ alive /\ m = TracksMap /\ OnTracksEvent(tracksSubs, op, k)
       \/ alive /\ m \in DOMAIN privSubs /\ OnTracksEvent(privSubs[m], op, k)
       \/ /\ ~alive \/ m \notin {PeersMap, TracksMap} \union DOMAIN privSubs
          /\ UNCHANGED <<clusterPeers, clusterTracks, told>>
  /\ UNCHANGED <<alive, peers, peersSubs, tracksSubs, privSubs, out, kv, on>>

-----------------------------------------------------------------------------
(* The store.                                                              *)

\* A subscribed node hears of every change of a map.
Hear(M, cmd) == [m \in Maps |-> IF m \in M \intersect on THEN Append(inbox[m], cmd) ELSE inbox[m]]

Change(M, op, k) ==
  /\ \A m \in M : Len(inbox[m]) < MaxIn
  /\ kv' = [m \in Maps |-> IF m \in M THEN Update(kv[m], op, k) ELSE kv[m]]
  /\ inbox' = Hear(M, Cmd(op, {k}))
  /\ UNCHANGED on

\* The next control of the room for map m reaches the store.
ApplyKey(m, k) ==
  /\ out[m] # <<>> /\ k \in Head(out[m]).keys
  /\ out' = [out EXCEPT ![m] = Rest(@, k)]
  /\ Change({m}, Head(out[m]).op, k)
  /\ UNCHANGED <<alive, peers, peersSubs, tracksSubs, privSubs, clusterPeers, clusterTracks, told>>

ApplySub(m) ==
  /\ out[m] # <<>> /\ Head(out[m]) = Sub /\ Len(inbox[m]) < MaxIn
  /\ out' = [out EXCEPT ![m] = Tail(@)]
  /\ on' = on \union {m}
  /\ inbox' = IF kv[m] = {} THEN inbox ELSE [inbox EXCEPT ![m] = Append(@, Cmd("Set", kv[m]))]
  /\ UNCHANGED <<alive, peers, peersSubs, tracksSubs, privSubs, clusterPeers, clusterTracks, told, kv>>

ApplyUnsub(m) ==
  /\ out[m] # <<>> /\ Head(out[m]) = Unsub
  /\ out' = [out EXCEPT ![m] = Tail(@)]
  /\ on' = on \ {m}
  /\ UNCHANGED <<alive, peers, peersSubs, tracksSubs, privSubs, clusterPeers, clusterTracks, told, kv, inbox>>

\* A peer of another node, or a track of one in both of its maps, comes or goes.
RemotePeer(p) ==
  /\ Change({PeersMap}, IF p \in kv[PeersMap] THEN "Del" ELSE "Set", p)
  /\ UNCHANGED room

RemoteTrack(p, t) ==
  /\ Change({TracksMap, p}, IF <<p, t>> \in kv[p] THEN "Del" ELSE "Set", <<p, t>>)
  /\ UNCHANGED room

-----------------------------------------------------------------------------
Init ==
  /\ alive = FALSE
  /\ peers = [e \in {} |-> {}]
  /\ peersSubs = {} /\ tracksSubs = {}
  /\ privSubs = [p \in {} |-> {}]
  /\ clusterPeers = {} /\ clusterTracks = {}
  /\ out = [m \in Maps |-> <<>>]
  /\ told = [e \in Endpoints |-> NothingTold]
  /\ kv = [m \in Maps |-> {}]
  /\ on = {}
  /\ inbox = [m \in Maps |-> <<>>]

Next ==
  \/ \E e \in Endpoints : \/ \E mode \in Modes : Join(e, mode)
                          \/ Leave(e)
                          \/ \E p \in Targets : SubscribePeer(e, p) \/ UnsubscribePeer(e, p)
                          \/ \E t \in Tracks : TrackPublish(e, t) \/ TrackUnpublish(e, t)
  \/ Destroy
  \/ \E m \in Maps : \/ \E k \in Peers \union TrackKeys : KvEvent(m, k) \/ ApplyKey(m, k)
                     \/ ApplySub(m) \/ ApplyUnsub(m)
  \/ \E p \in RemotePeers : RemotePeer(p) \/ \E t \in Tracks : RemoteTrack(p, t)

Spec == Init /\ [][Next]_vars

-----------------------------------------------------------------------------
(* Properties.                                                             *)

Keys(m) == IF m = PeersMap THEN Peers ELSE IF m = TracksMap THEN TrackKeys ELSE {m} \X Tracks
KeyCmds(m) == [op : {"Set", "Del"}, keys : (SUBSET Keys(m)) \ {{}}]
Partial(D, R) == UNION {[S -> R] : S \in SUBSET D}

\* Controls and events name keys of their map, and endpoints are told of peers
\* and tracks only: the state of RoomMetadata (metadata.rs) and of the store.
TypeOK ==
  /\ alive \in BOOLEAN
  /\ peers \in Partial(Endpoints, [mode : Modes, subPeers : SUBSET Targets, pubTracks : SUBSET Tracks])
  /\ peersSubs \subseteq Endpoints /\ tracksSubs \subseteq Endpoints
  /\ privSubs \in Partial(Targets, SUBSET Endpoints)
  /\ clusterPeers \subseteq Peers /\ clusterTracks \subseteq TrackKeys
  /\ told \in [Endpoints -> [peers : SUBSET Peers, tracks : SUBSET TrackKeys]]
  /\ on \subseteq Maps
  /\ DOMAIN out = Maps /\ DOMAIN inbox = Maps /\ DOMAIN kv = Maps
  /\ \A m \in Maps :
       /\ out[m] \in Seq(KeyCmds(m) \union {Sub, Unsub})
       /\ inbox[m] \in Seq(KeyCmds(m))
       /\ kv[m] \subseteq Keys(m)

\* The subscriber indexes and the peers' own records agree: an endpoint is
\* registered for the peers and tracks of the room iff it is in the room with
\* that level, and for a private map iff it subscribed to that peer, with no
\* entry left over.  So on_leave finds the entry it expects (metadata.rs:162),
\* and a room that has no peer passes the assertions of its Drop.
SubscribersConsistent ==
  /\ peersSubs = {e \in DOMAIN peers : peers[e].mode.subPeers}
  /\ tracksSubs = {e \in DOMAIN peers : peers[e].mode.subTracks}
  /\ \A p \in Targets : Subscribers(p) = {e \in DOMAIN peers : p \in peers[e].subPeers}
  /\ \A p \in DOMAIN privSubs : privSubs[p] # {}
  /\ DOMAIN peers # {} => alive

Interested(m) ==
  IF m = PeersMap THEN peersSubs ELSE IF m = TracksMap THEN tracksSubs ELSE Subscribers(m)

\* Whether the node is subscribed to map m once the controls in q are applied.
WillBeOn(m, q) ==
  \/ m \in on /\ \A i \in DOMAIN q : q[i].op # "Unsub"
  \/ \E i \in DOMAIN q : q[i].op = "Sub" /\ \A j \in DOMAIN q : j > i => q[j].op # "Unsub"

\* Whatever is under way, the Sub and Unsub controls that the handlers pushed
\* (metadata.rs:105-192) leave the node subscribed to a map exactly when some
\* endpoint is interested in it: no subscription outlives its last subscriber,
\* and none is lost to another endpoint's leave or unsubscribe.
SubscriptionsSettle ==
  \A m \in Maps : WillBeOn(m, out[m]) <=> Interested(m) # {}

\* Whether map m holds key k once the controls in q are applied.
WillHold(m, q, k) ==
  \/ k \in kv[m] /\ \A i \in DOMAIN q : ~(q[i].op = "Del" /\ k \in q[i].keys)
  \/ \E i \in DOMAIN q : /\ q[i].op = "Set" /\ k \in q[i].keys
                         /\ \A j \in DOMAIN q : j > i => ~(q[j].op = "Del" /\ k \in q[j].keys)

Publishes(e, m, k) ==
  /\ e \in DOMAIN peers
  /\ IF m = PeersMap THEN peers[e].mode.pubPeer /\ k = PeerOf[e]
     ELSE k \in {PeerOf[e]} \X peers[e].pubTracks

\* The Set and Del controls of joins, leaves, publications and unpublications
\* (metadata.rs:88-221) leave in the cluster exactly the peers and tracks that
\* the endpoints of this node publish now, the same tracks in the tracks map and
\* in the private map: nothing outlives its endpoint and nothing is deleted by
\* another one.
KeysSettle ==
  \A e \in Endpoints : \A m \in {PeersMap, TracksMap, PeerOf[e]} :
    \A k \in IF m = PeersMap THEN {PeerOf[e]} ELSE {PeerOf[e]} \X Tracks :
      WillHold(m, out[m], k) <=> Publishes(e, m, k)

Quiet == \A m \in Maps : out[m] = <<>> /\ inbox[m] = <<>>

\* When nothing is under way, an endpoint subscribed to the peers of the room
\* has been told of every peer in the cluster, whether it came first and was
\* answered by the store or later and had the peers restored (metadata.rs:98).
NoPeerMissed ==
  Quiet => \A e \in peersSubs : kv[PeersMap] \subseteq told[e].peers

\* The same for the tracks of the room (metadata.rs:116).
NoTrackMissed ==
  Quiet => \A e \in tracksSubs : kv[TracksMap] \subseteq told[e].tracks

\* The comment at metadata.rs:97 says that a subscriber has the peers restored
\* that were already added: when nothing is under way it knows of no peer that
\* is not in the cluster.
NoGhostPeer ==
  Quiet => \A e \in peersSubs : told[e].peers \subseteq kv[PeersMap]

\* An endpoint that hears only of the peers it subscribed to by hand is told when
\* a track of one stops (the test at metadata.rs:642 expects TrackStopped on OnDel).
ManualStopsTold ==
  Quiet => \A p \in DOMAIN privSubs : \A e \in privSubs[p] \ tracksSubs :
             \A k \in told[e].tracks : k[1] = p => k \in kv[p]
=============================================================================
