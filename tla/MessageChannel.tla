--------------------------- MODULE MessageChannel ---------------------------
(***************************************************************************)
(* The virtual message channels of one room on one media node:             *)
(* RoomMessageChannel and its two halves, the publisher and the            *)
(* subscriber, together with the pub/sub network that executes the         *)
(* controls the room emits.                                                *)
(*                                                                         *)
(* Both halves are the same two-way index: for every live channel the      *)
(* endpoints that use it, and for every endpoint the channels it uses.     *)
(* The first user of a channel makes the half emit a start control         *)
(* (PubStart, SubAuto), the last one that goes a stop control (PubStop,    *)
(* UnsubAuto).  Controls wait in an output queue until pop_output hands    *)
(* them to the network.  A queue is kept per channel: the order between    *)
(* outputs of different channels (the iteration order of a set in          *)
(* on_leave) is left open.                                                 *)
(***************************************************************************)
EXTENDS ControlStream

CONSTANTS
  Endpoints,   \* endpoints of this node that may be in the room
  Channels,    \* channel ids: gen_msg_channel_id of the labels, collision free
  MaxQueue     \* bound: outputs of one channel that wait in one half

VARIABLES
  joined,   \* endpoints in the room (EndpointInternal.joined)
  pub,      \* MessageChannelPublisher
  sub,      \* MessageChannelSubscriber
  sdnPub,   \* channels this node publishes to in the pub/sub network
  sdnSub    \* channels this node is subscribed to in the pub/sub network

vars == <<joined, pub, sub, sdnPub, sdnSub>>

-----------------------------------------------------------------------------
(* One half: users[c] for every live channel, chans[e] for every user.     *)

\* The queues after "op" is pushed to the channels of C.
Queued(h, C, op) == [c \in Channels |-> IF c \in C THEN Append(h.queue[c], op) ELSE h.queue[c]]

Push(h, C, op) == [users |-> h.users, chans |-> h.chans, queue |-> Queued(h, C, op)]

NewHalf == [users |-> Empty, chans |-> Empty, queue |-> [c \in Channels |-> <<>>]]

IsEmpty(h) ==
  /\ \A c \in Channels : h.queue[c] = <<>>
  /\ DOMAIN h.users = {}
  /\ DOMAIN h.chans = {}

\* on_channel_subscribe and on_channel_pub_start: the first user starts the channel.
Enter(h, e, c) ==
  [users |-> With(h.users, c, Members(h.users, c) \union {e}),
   chans |-> With(h.chans, e, Members(h.chans, e) \union {c}),
   queue |-> Queued(h, {c} \ DOMAIN h.users, "Start")]

\* A stop that drops the user's side of the index and forgets the channel's.
Exit_Mutant(h, e, c) ==
  IF c \notin DOMAIN h.users THEN h
  ELSE [h EXCEPT !.chans = IF e \in DOMAIN h.chans THEN Keep(h.chans, e, h.chans[e] \ {c})
                                                   ELSE h.chans]

\* on_channel_unsubscribe and on_channel_pub_stop: the last user stops the channel.
Exit(h, e, c) ==
  IF c \notin DOMAIN h.users THEN h
  ELSE [users |-> Keep(h.users, c, h.users[c] \ {e}),
        chans |-> IF e \in DOMAIN h.chans THEN Keep(h.chans, e, h.chans[e] \ {c}) ELSE h.chans,
        queue |-> Queued(h, IF h.users[c] \ {e} = {} THEN {c} ELSE {}, "Stop")]

\* on_leave of either half: every channel the endpoint uses loses it.
ExitAll(h, e) ==
  LET mine == Members(h.chans, e) \intersect DOMAIN h.users
      gone == {c \in mine : h.users[c] \ {e} = {}}
  IN  [users |-> [c \in DOMAIN h.users \ gone |-> IF c \in mine THEN h.users[c] \ {e} ELSE h.users[c]],
       chans |-> Without(h.chans, e),
       queue |-> Queued(h, gone, "Stop")]

-----------------------------------------------------------------------------
Init ==
  /\ joined = {}
  /\ pub = NewHalf
  /\ sub = NewHalf
  /\ sdnPub = {}
  /\ sdnSub = {}

\* The bound: a half takes an input only while every queue has room for its output.
HasSpace(h) == \A c \in Channels : Len(h.queue[c]) < MaxQueue

\* EndpointInternal::join_room and leave_room, as far as this component sees them.
Join(e) ==
  /\ e \notin joined
  /\ joined' = joined \union {e}
  /\ UNCHANGED <<pub, sub, sdnPub, sdnSub>>

\* RoomMessageChannel::on_leave: the subscriber half, then the publisher half.
Leave(e) ==
  /\ e \in joined /\ HasSpace(pub) /\ HasSpace(sub)
  /\ joined' = joined \ {e}
  /\ sub' = ExitAll(sub, e)
  /\ pub' = ExitAll(pub, e)
  /\ UNCHANGED <<sdnPub, sdnSub>>

\* Requests come only from endpoints in the room (EndpointNotInRoom otherwise).
Subscribe(e, c) ==
  /\ e \in joined /\ HasSpace(sub)
  /\ sub' = Enter(sub, e, c)
  /\ UNCHANGED <<joined, pub, sdnPub, sdnSub>>

Unsubscribe(e, c) ==
  /\ e \in joined /\ HasSpace(sub)
  /\ sub' = Exit(sub, e, c)
  /\ UNCHANGED <<joined, pub, sdnPub, sdnSub>>

StartPublish(e, c) ==
  /\ e \in joined /\ HasSpace(pub)
  /\ pub' = Enter(pub, e, c)
  /\ UNCHANGED <<joined, sub, sdnPub, sdnSub>>

StopPublish(e, c) ==
  /\ e \in joined /\ HasSpace(pub)
  /\ pub' = Exit(pub, e, c)
  /\ UNCHANGED <<joined, sub, sdnPub, sdnSub>>

\* on_channel_data of the publisher: "publish without start" is dropped.
PublishData(e, c) ==
  /\ e \in joined /\ HasSpace(pub)
  /\ pub' = IF e \in Members(pub.users, c) THEN Push(pub, {c}, "Data") ELSE pub
  /\ UNCHANGED <<joined, sub, sdnPub, sdnSub>>

\* on_pubsub_event SourceData: data of any node, also data still under way
\* after UnsubAuto, which finds no channel and is dropped.
SourceData(c) ==
  /\ HasSpace(sub)
  /\ sub' = IF c \in DOMAIN sub.users
            THEN Push(sub, {c}, "Data")
            ELSE sub
  /\ UNCHANGED <<joined, pub, sdnPub, sdnSub>>

Pop(h, c) == [h EXCEPT !.queue[c] = Tail(@)]

PopPublisher(c) ==
  /\ pub.queue[c] # <<>>
  /\ pub' = Pop(pub, c)
  /\ sdnPub' = Apply(sdnPub, c, Head(pub.queue[c]))
  /\ UNCHANGED <<joined, sub, sdnSub>>

PopSubscriber(c) ==
  /\ sub.queue[c] # <<>>
  /\ sub' = Pop(sub, c)
  /\ sdnSub' = Apply(sdnSub, c, Head(sub.queue[c]))
  /\ UNCHANGED <<joined, pub, sdnPub>>

Next ==
  \/ \E e \in Endpoints : Join(e) \/ Leave(e)
  \/ \E e \in Endpoints, c \in Channels :
       \/ Subscribe(e, c)
       \/ Unsubscribe(e, c)
       \/ StartPublish(e, c)
       \/ StopPublish(e, c)
       \/ PublishData(e, c)
  \/ \E c \in Channels : SourceData(c) \/ PopPublisher(c) \/ PopSubscriber(c)

\* The worker polls pop_output until it returns None, so a waiting output is
\* always popped in the end.
Fairness == \A c \in Channels : WF_vars(PopPublisher(c)) /\ WF_vars(PopSubscriber(c))

Spec == Init /\ [][Next]_vars

-----------------------------------------------------------------------------
Half ==
  [users : SetMap(Channels, Endpoints),
   chans : SetMap(Endpoints, Channels),
   queue : [Channels -> Seq(Op)]]

\* The state of the room has the shape the code gives it.
TypeOK ==
  /\ joined \in SUBSET Endpoints
  /\ pub \in Half
  /\ sub \in Half
  /\ sdnPub \in SUBSET Channels
  /\ sdnSub \in SUBSET Channels

\* The two directions of a half agree and hold no empty entry, and only
\* endpoints in the room (J) appear in them.
Consistent(h, J) ==
  /\ \A c \in DOMAIN h.users : h.users[c] # {}
  /\ \A e \in DOMAIN h.chans : h.chans[e] # {} /\ e \in J
  /\ \A c \in Channels, e \in Endpoints : e \in Members(h.users, c) <=> c \in Members(h.chans, e)

\* The index of each half answers the same from both sides after any
\* interleaving of start, stop and leave, and on_leave leaves nothing of the
\* endpoint behind, on which the Drop assertions of both halves rely.
IndexConsistent == Consistent(pub, joined) /\ Consistent(sub, joined)

\* The network never sees a second start, a stop without a start or data
\* outside start and stop, and what it will know once the queues are drained
\* is exactly which channels have users.
StreamsLegal ==
  \A c \in Channels :
    /\ Legal(pub.queue[c], Level(c, sdnPub), Level(c, DOMAIN pub.users))
    /\ Legal(sub.queue[c], Level(c, sdnSub), Level(c, DOMAIN sub.users))

\* When the last endpoint has left and the outputs are drained the component
\* is empty (the Drop assertions of RoomMessageChannel hold) and the network
\* keeps no registration of the room.
Released ==
  (joined = {} /\ \A c \in Channels : pub.queue[c] = <<>> /\ sub.queue[c] = <<>>)
    => IsEmpty(pub) /\ IsEmpty(sub) /\ sdnPub = {} /\ sdnSub = {}

\* A room everybody has left becomes empty, so that the cluster can remove it,
\* unless somebody joins again first.
EventuallyReleased == (joined = {}) ~> (joined # {} \/ (IsEmpty(pub) /\ IsEmpty(sub)))
=============================================================================
