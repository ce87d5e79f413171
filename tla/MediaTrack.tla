----------------------------- MODULE MediaTrack -----------------------------
(***************************************************************************)
(* The media tracks of one room on one media node: RoomChannelPublisher    *)
(* and RoomChannelSubscribe, with the pub/sub network that executes their  *)
(* controls.                                                               *)
(*                                                                         *)
(* A source is a remote track of an endpoint (Endpoint, RemoteTrackId), a  *)
(* viewer a local track of an endpoint (Endpoint, LocalTrackId).  Either   *)
(* uses at most one channel at a time, the one of a peer's named track.    *)
(* Several sources may share a channel (the same peer id joined twice).    *)
(* Viewers ask the channel's source for key frames and a bitrate; wishes   *)
(* are kept per endpoint for FbTimeout ticks and sent summed up.           *)
(***************************************************************************)
EXTENDS ControlStream

CONSTANTS
  Sources,     \* (endpoint, remote track) pairs
  Viewers,     \* (endpoint, local track) pairs
  Endpoints,   \* endpoints of the viewers
  EndpointOf,  \* the endpoint of a viewer
  Channels,    \* channel ids: gen_track_channel_id of (peer, track name)
  FbTimeout,   \* BITRATE_FEEDBACK_TIMEOUT in ticks
  MaxQueue     \* bound: outputs of one channel that wait in one half

ASSUME EndpointOfAssumption == EndpointOf \in [Viewers -> Endpoints]
ASSUME FbTimeoutAssumption == FbTimeout \in Nat \ {0}

VARIABLES
  pub,      \* RoomChannelPublisher: tracks, tracks_source, queue
  sub,      \* RoomChannelSubscribe: subscribers, channels[_].endpoints, queue
  fbs,      \* channels[_].bitrate_fbs: the age of an endpoint's wish, or none
  summed,   \* the endpoints in the last bitrate feedback sent on a channel
  idle,     \* ticks since an endpoint last had a viewer on a channel
  sdnPub,   \* channels this node publishes to in the pub/sub network
  sdnSub    \* channels this node is subscribed to in the pub/sub network

vars == <<pub, sub, fbs, summed, idle, sdnPub, sdnSub>>

-----------------------------------------------------------------------------
(* A half: chan[u], the channel of a user, users[c], the users of a live   *)
(* channel, and the outputs waiting for each channel.                      *)

Queued(h, C, op) == [c \in Channels |-> IF c \in C THEN Append(h.queue[c], op) ELSE h.queue[c]]

Push(h, c, op) == [chan |-> h.chan, users |-> h.users, queue |-> Queued(h, {c}, op)]

NewHalf == [chan |-> Empty, users |-> Empty, queue |-> [c \in Channels |-> <<>>]]

IsEmpty(h) == DOMAIN h.chan = {} /\ DOMAIN h.users = {} /\ \A c \in Channels : h.queue[c] = <<>>

\* on_track_publish and on_track_subscribe: the first user starts the channel.
Enter(h, u, c) ==
  [chan |-> With(h.chan, u, c),
   users |-> With(h.users, c, Members(h.users, c) \union {u}),
   queue |-> Queued(h, {c} \ DOMAIN h.users, "Start")]

\* The channel's entry is never given up.
Exit_Mutant(h, u) ==
  IF u \notin DOMAIN h.chan THEN h
  ELSE LET c == h.chan[u] IN
       [chan |-> Without(h.chan, u),
        users |-> With(h.users, c, h.users[c] \ {u}),
        queue |-> Queued(h, IF h.users[c] \ {u} = {} THEN {c} ELSE {}, "Stop")]

\* on_track_unpublish and on_track_unsubscribe: the last user stops the channel.
\* h.users[c] exists: "Should have track_source".
Exit(h, u) ==
  IF u \notin DOMAIN h.chan THEN h
  ELSE LET c == h.chan[u] IN
       [chan |-> Without(h.chan, u),
        users |-> Keep(h.users, c, h.users[c] \ {u}),
        queue |-> Queued(h, IF h.users[c] \ {u} = {} THEN {c} ELSE {}, "Stop")]

-----------------------------------------------------------------------------
\* No wish of the endpoint is kept.
NoWish == FbTimeout + 1

Init ==
  /\ pub = NewHalf
  /\ sub = NewHalf
  /\ fbs = [c \in Channels |-> [e \in Endpoints |-> NoWish]]
  /\ summed = [c \in Channels |-> {}]
  /\ idle = [c \in Channels |-> [e \in Endpoints |-> FbTimeout]]
  /\ sdnPub = {}
  /\ sdnSub = {}

\* The bound: a half takes an input only while its queues have room.
HasSpace(h) == \A c \in Channels : Len(h.queue[c]) < MaxQueue

PublisherSteps == UNCHANGED <<sub, fbs, summed, idle, sdnSub>>
SubscriberSteps == UNCHANGED <<pub, sdnPub>>

\* A remote track has one name and its endpoint one peer id while it is in the
\* room, so a track that is announced again is announced for the same channel.
Publish(s, c) ==
  /\ HasSpace(pub)
  /\ s \in DOMAIN pub.chan => pub.chan[s] = c
  /\ pub' = Enter(pub, s, c)
  /\ UNCHANGED sdnPub /\ PublisherSteps

Unpublish(s) ==
  /\ HasSpace(pub)
  /\ pub' = Exit(pub, s)
  /\ UNCHANGED sdnPub /\ PublisherSteps

\* on_track_data of the publisher: PubData on the track's channel.
PublishData(s) ==
  /\ HasSpace(pub)
  /\ pub' = IF s \in DOMAIN pub.chan THEN Push(pub, pub.chan[s], "Data") ELSE pub
  /\ UNCHANGED sdnPub /\ PublisherSteps

\* on_track_feedback: LimitBitrate or RequestKeyFrame to every source.
FeedbackData(c) ==
  /\ HasSpace(pub)
  /\ pub' = IF c \in DOMAIN pub.users THEN Push(pub, c, "Data") ELSE pub
  /\ UNCHANGED sdnPub /\ PublisherSteps

\* A local track lets go of its source before it attaches another one.
Subscribe(v, c) ==
  /\ HasSpace(sub)
  /\ v \notin DOMAIN sub.chan
  /\ sub' = Enter(sub, v, c)
  /\ idle' = [idle EXCEPT ![c] = [@ EXCEPT ![EndpointOf[v]] = 0]]
  /\ UNCHANGED <<fbs, summed, sdnSub>> /\ SubscriberSteps

\* The wishes of a channel go with its container.
Unsubscribe(v) ==
  /\ HasSpace(sub)
  /\ sub' = Exit(sub, v)
  /\ fbs' = [c \in Channels |-> IF c \in DOMAIN sub'.users THEN fbs[c] ELSE [e \in Endpoints |-> NoWish]]
  /\ UNCHANGED <<summed, idle, sdnSub>> /\ SubscriberSteps

\* Key frames are asked for whatever channel, watched or not.
RequestKey_Mutant(v) ==
  /\ HasSpace(sub)
  /\ \E c \in Channels : sub' = Push(sub, c, "Data")
  /\ UNCHANGED <<fbs, summed, idle, sdnSub>> /\ SubscriberSteps

RequestKey(v) ==
  /\ HasSpace(sub)
  /\ sub' = IF v \in DOMAIN sub.chan THEN Push(sub, sub.chan[v], "Data") ELSE sub
  /\ UNCHANGED <<fbs, summed, idle, sdnSub>> /\ SubscriberSteps

\* Wishes that ran out are not dropped.
Live_Mutant(f) == f

\* bitrate_fbs.retain: wishes younger than the timeout.
Live(f) == [e \in Endpoints |-> IF f[e] < FbTimeout THEN f[e] ELSE NoWish]

\* on_track_desired_bitrate: note the wish, drop the ones that ran out, send
\* the sum of the rest.
DesiredBitrate(v) ==
  /\ HasSpace(sub)
  /\ v \in DOMAIN sub.chan
  /\ LET c == sub.chan[v]
         f == Live([fbs[c] EXCEPT ![EndpointOf[v]] = 0])
     IN  /\ fbs' = [fbs EXCEPT ![c] = f]
         /\ summed' = [summed EXCEPT ![c] = {e \in Endpoints : f[e] # NoWish}]
         /\ sub' = Push(sub, c, "Data")
  /\ UNCHANGED <<idle, sdnSub>> /\ SubscriberSteps

\* on_track_data and on_track_relay_changed: Media or RelayChanged to every
\* viewer; what arrives after UnsubAuto finds no channel.
ChannelEvent(c) ==
  /\ HasSpace(sub)
  /\ sub' = IF c \in DOMAIN sub.users THEN Push(sub, c, "Data") ELSE sub
  /\ UNCHANGED <<fbs, summed, idle, sdnSub>> /\ SubscriberSteps

\* Endpoint e has a viewer on channel c.
Watches(e, c) == \E v \in Members(sub.users, c) : EndpointOf[v] = e

\* Time passes: wishes age, and so does the absence of a viewer.
Tick ==
  /\ fbs' = [c \in Channels |-> [e \in Endpoints |-> IF fbs[c][e] < FbTimeout THEN fbs[c][e] + 1 ELSE fbs[c][e]]]
  /\ idle' = [c \in Channels |-> [e \in Endpoints |->
                IF Watches(e, c) THEN 0 ELSE IF idle[c][e] < FbTimeout THEN idle[c][e] + 1 ELSE FbTimeout]]
  /\ UNCHANGED <<pub, sub, summed, sdnPub, sdnSub>>

Pop(h, c) == [chan |-> h.chan, users |-> h.users, queue |-> [h.queue EXCEPT ![c] = Tail(@)]]

PopPublisher(c) ==
  /\ pub.queue[c] # <<>>
  /\ pub' = Pop(pub, c)
  /\ sdnPub' = Apply(sdnPub, c, Head(pub.queue[c]))
  /\ PublisherSteps

\* A channel without viewers is not drained any more.
PopSubscriber_Mutant(c) ==
  /\ c \in DOMAIN sub.users /\ sub.queue[c] # <<>>
  /\ sub' = Pop(sub, c)
  /\ sdnSub' = Apply(sdnSub, c, Head(sub.queue[c]))
  /\ UNCHANGED <<fbs, summed, idle>> /\ SubscriberSteps

PopSubscriber(c) ==
  /\ sub.queue[c] # <<>>
  /\ sub' = Pop(sub, c)
  /\ sdnSub' = Apply(sdnSub, c, Head(sub.queue[c]))
  /\ UNCHANGED <<fbs, summed, idle>> /\ SubscriberSteps

Next ==
  \/ \E s \in Sources, c \in Channels : Publish(s, c)
  \/ \E s \in Sources : Unpublish(s) \/ PublishData(s)
  \/ \E v \in Viewers, c \in Channels : Subscribe(v, c)
  \/ \E v \in Viewers : Unsubscribe(v) \/ RequestKey(v) \/ DesiredBitrate(v)
  \/ \E c \in Channels : FeedbackData(c) \/ ChannelEvent(c) \/ PopPublisher(c) \/ PopSubscriber(c)
  \/ Tick

\* The worker polls pop_output until it returns None.
Fairness == \A c \in Channels : WF_vars(PopPublisher(c)) /\ WF_vars(PopSubscriber(c))

Spec == Init /\ [][Next]_vars

FairSpec == Spec /\ Fairness

-----------------------------------------------------------------------------
\* Maps from some of the users U to channels.
ChanMap(U) == UNION {[D -> Channels] : D \in SUBSET U}

Half(U) ==
  [chan : ChanMap(U),
   users : SetMap(Channels, U),
   queue : [Channels -> Seq(Op)]]

\* The state has the shape the code gives it.
TypeOK ==
  /\ pub \in Half(Sources)
  /\ sub \in Half(Viewers)
  /\ fbs \in [Channels -> [Endpoints -> 0..NoWish]]
  /\ summed \in [Channels -> SUBSET Endpoints]
  /\ idle \in [Channels -> [Endpoints -> 0..FbTimeout]]
  /\ sdnPub \in SUBSET Channels
  /\ sdnSub \in SUBSET Channels

Consistent(h, U) ==
  /\ \A c \in DOMAIN h.users : h.users[c] # {}
  /\ \A c \in Channels, u \in U : u \in Members(h.users, c) <=> (u \in DOMAIN h.chan /\ h.chan[u] = c)

\* tracks and tracks_source, subscribers and channels always name the same
\* users, and a channel without users has no entry: the expectations of
\* on_track_unpublish ("Should have track_source", "Should remove source child
\* on unpublish") can never fail.
IndexConsistent == Consistent(pub, Sources) /\ Consistent(sub, Viewers)

\* The network never sees a second start, a stop without a start, or media or
\* feedback on a channel that is not on, and what it knows once the queues are
\* drained is which channels have users.
StreamsLegal ==
  \A c \in Channels :
    /\ Legal(pub.queue[c], Level(c, sdnPub), Level(c, DOMAIN pub.users))
    /\ Legal(sub.queue[c], Level(c, sdnSub), Level(c, DOMAIN sub.users))

\* When every source and viewer has gone and the outputs are drained, the
\* component is empty (its Drop assertions hold) and the network keeps nothing
\* of it.
Released ==
  /\ DOMAIN pub.chan = {} /\ (\A c \in Channels : pub.queue[c] = <<>>) => IsEmpty(pub) /\ sdnPub = {}
  /\ DOMAIN sub.chan = {} /\ (\A c \in Channels : sub.queue[c] = <<>>) => IsEmpty(sub) /\ sdnSub = {}

\* Every endpoint whose wish enters a bitrate feedback watches the channel or
\* stopped watching it less than the timeout ago: on_track_unsubscribe leaves
\* the wish behind, and only "retain" keeps a departed viewer from holding the
\* source's bitrate.
WishesOfViewers ==
  [][\A c \in Channels : summed'[c] # summed[c] => \A e \in summed'[c] : idle[c][e] < FbTimeout]_vars

\* A channel nobody uses any more is given up by the network, unless somebody
\* takes it up again first.
EventuallyOff ==
  \A c \in Channels : /\ c \notin DOMAIN pub.users ~> c \in DOMAIN pub.users \/ c \notin sdnPub
                      /\ c \notin DOMAIN sub.users ~> c \in DOMAIN sub.users \/ c \notin sdnSub
=============================================================================
