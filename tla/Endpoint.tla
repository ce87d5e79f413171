------------------------------ MODULE Endpoint ------------------------------
(***************************************************************************)
(* One endpoint of a media node: the WebRTC transport of an SDK client     *)
(* (TransportWebrtcSdk) and the session logic (EndpointInternal), with the *)
(* view the cluster room has of the endpoint once it executed the controls *)
(* that pop_output handed over.                                            *)
(*                                                                         *)
(* An output of the transport is delivered to the internal in the step     *)
(* that produces it.  The transport never reads the internal and its       *)
(* outputs keep their order, so a later delivery is a later step here; an  *)
(* output that overtakes the end of the session is a member of Races.      *)
(*                                                                         *)
(* Races names the orders of client and transport events that may happen:  *)
(*   "late"      an event or request reaches a session that has ended      *)
(*               (the data channel opens after the connect timeout, a      *)
(*               request follows Disconnect in the same batch of events)   *)
(*   "outside"   a sender is detached while the endpoint is in no room     *)
(*   "early"     a sender is attached before its media line is negotiated  *)
(***************************************************************************)
EXTENDS EndpointInternal

CONSTANTS
  FirstJoin,   \* the room of the connect request, or None
  Races,       \* see above
  MaxTasks,    \* bound: track tasks made in one session
  MaxQueue     \* bound: outputs that wait in one queue

VARIABLES
  tstate,   \* TransportWebrtcSdk.state
  mids,     \* tracks whose media line is negotiated (mid is known)
  source,   \* remote tracks that have a source (RemoteTrack.source)
  int,      \* EndpointInternal
  member,   \* rooms the endpoint is a member of, as the cluster knows
  views,    \* <<room, local track, target>> subscribed in the cluster
  pubs      \* <<room, remote track>> published in the cluster

vars == <<tstate, mids, source, int, member, views, pubs>>

Ended == {"ConnectError", "Disconnected"}

\* Endpoint::is_empty: the worker removes the endpoint and its transport.
Gone == IsEmptyInternal(int) /\ tstate \in Ended

\* The bound: inputs wait while a queue is long.
HasSpace ==
  /\ Len(int.out) < MaxQueue
  /\ \A n \in DOMAIN int.tasks : Len(int.tasks[n].queue) < MaxQueue

\* str0m has an event for the transport.
Alive == HasSpace /\ ~Gone /\ (tstate \notin Ended \/ "late" \in Races)

\* A request arrives on the data channel, which is open, or, from a transport
\* that does not wait for it, while connecting.
Asks == Alive /\ tstate # "New"

Room == <<member, views, pubs>>

Init ==
  /\ tstate = "New"
  /\ mids = {}
  /\ source \in SUBSET Remotes
  /\ int = NewInternal
  /\ member = {} /\ views = {} /\ pubs = {}

\* The transport switches to s and tells the internal.
Switch(s) ==
  /\ tstate' = s
  /\ int' = OnState(int, s)
  /\ UNCHANGED <<mids, source, Room>>

-----------------------------------------------------------------------------
(* on_tick of the transport.                                               *)

Connect == tstate = "New" /\ Switch("Connecting")

ConnectTimeout == tstate = "Connecting" /\ Switch("ConnectError")

ReconnectTimeout == tstate = "Reconnecting" /\ Switch("Disconnected")

(* on_str0m_event.                                                         *)

\* ChannelOpen does not look at the state.  The handshake outlasts the first
\* tick, so the state is not New.
ChannelOpen ==
  /\ Alive /\ tstate # "New"
  /\ tstate' = "Connected"
  /\ int' = LET c == OnState(int, "Connected")
            IN  IF FirstJoin = None THEN c ELSE OnJoinReq(c, FirstJoin)
  /\ UNCHANGED <<mids, source, Room>>

\* ChannelClose, and the Disconnect request of the client.
ChannelClose == Alive /\ tstate # "Disconnected" /\ Switch("Disconnected")

IceDisconnected == Alive /\ tstate = "Connected" /\ Switch("Reconnecting")

IceConnected == Alive /\ tstate = "Reconnecting" /\ Switch("Connected")

\* on_str0m_media_added: a local track starts, and so does a remote track
\* that has a source already.
MediaAdded(t) ==
  /\ Alive /\ t \notin mids /\ int.made < MaxTasks
  /\ mids' = mids \union {t}
  /\ int' = IF t \in Locals \union source THEN OnStarted(int, t) ELSE int
  /\ UNCHANGED <<tstate, source, Room>>

(* on_session_req, on_sender_req and on_recever_req.                       *)

JoinRequest(r) ==
  /\ Asks
  /\ int' = OnJoinReq(int, r)
  /\ UNCHANGED <<tstate, mids, source, Room>>

LeaveRequest ==
  /\ Asks
  /\ int' = OnLeaveReq(int)
  /\ UNCHANGED <<tstate, mids, source, Room>>

\* A second Attach is refused.
SenderAttach(t) ==
  /\ Asks /\ t \notin source /\ int.made < MaxTasks
  /\ t \in mids \/ "early" \in Races
  /\ source' = source \union {t}
  /\ int' = OnStarted(int, t)
  /\ UNCHANGED <<tstate, mids, Room>>

SenderDetach(t) ==
  /\ Asks /\ t \in source
  /\ int.joined # None \/ "outside" \in Races
  /\ source' = source \ {t}
  /\ int' = OnTrack(int, t, TaskEnded)
  /\ UNCHANGED <<tstate, mids, Room>>

ReceiverAttach(t, s) ==
  /\ Asks
  /\ int' = OnTrack(int, t, LAMBDA k : TaskAttach(k, s))
  /\ UNCHANGED <<tstate, mids, source, Room>>

ReceiverDetach(t) ==
  /\ Asks
  /\ int' = OnTrack(int, t, TaskDetach)
  /\ UNCHANGED <<tstate, mids, source, Room>>

Config(t) ==
  /\ Asks
  /\ int' = OnTrack(int, t, TaskConfig)
  /\ UNCHANGED <<tstate, mids, source, Room>>

\* RtpPacket, with or without a source.
Media(t) ==
  /\ Alive /\ t \in mids
  /\ int' = OnTrack(int, t, LAMBDA k : TaskForward(k, "Media"))
  /\ UNCHANGED <<tstate, mids, source, Room>>

\* KeyframeRequest, and the events of the room and of the allocator that make a
\* local track speak to its source.
Feedback(t) ==
  /\ Alive
  /\ int' = OnTrack(int, t, LAMBDA k : TaskForward(k, "Feedback"))
  /\ UNCHANGED <<tstate, mids, source, Room>>

-----------------------------------------------------------------------------
\* Endpoint::on_shutdown: the internal first, then the transport, whose
\* Disconnected finds the internal shut down.
Shutdown ==
  /\ HasSpace /\ tstate \notin Ended
  /\ tstate' = "Disconnected"
  /\ int' = OnState(on_shutdown(int), "Disconnected")
  /\ UNCHANGED <<mids, source, Room>>

\* The task group serves the tasks in the order they got work: of two tasks of
\* one track, a detached sender that was attached again, the older goes first.
Turn(n) ==
  \A m \in DOMAIN int.tasks :
    (m < n /\ int.tasks[m].track = int.tasks[n].track)
      => int.tasks[m].queue = <<>> /\ ~int.tasks[m].shutdown

\* pop_output of the internal, for a track task.
PopTrack(n) ==
  /\ n \in DOMAIN int.tasks /\ int.tasks[n].queue # <<>> /\ Turn(n)
  /\ int' = PopTask(int, n)
  /\ UNCHANGED <<tstate, mids, source, Room>>

EndTrack(n) ==
  /\ n \in DOMAIN int.tasks /\ int.tasks[n].queue = <<>> /\ int.tasks[n].shutdown
  /\ int' = EndTask(int, n)
  /\ UNCHANGED <<tstate, mids, source, Room>>

\* ClusterRoom::on_endpoint_control and the parts of the room behind it:
\* Join and Leave, on_track_subscribe, on_track_unsubscribe, on_track_publish
\* (of a peer that is in the room) and on_track_unpublish.
Execute(c) ==
  CASE c.op = "Join"  -> member' = member \union {c.room} /\ UNCHANGED <<views, pubs>>
    [] c.op = "Leave" -> member' = member \ {c.room} /\ UNCHANGED <<views, pubs>>
    [] c.op = "Subscribe" ->
         views' = views \union {<<c.room, c.track, c.target>>} /\ UNCHANGED <<member, pubs>>
    [] c.op = "Unsubscribe" ->
         views' = {v \in views : v[1] # c.room \/ v[2] # c.track} /\ UNCHANGED <<member, pubs>>
    [] c.op = "Started" ->
         pubs' = pubs \union ({c.room} \intersect member) \X {c.track} /\ UNCHANGED <<member, views>>
    [] c.op = "Ended" -> pubs' = pubs \ {<<c.room, c.track>>} /\ UNCHANGED <<member, views>>
    [] OTHER -> UNCHANGED Room

PopControl ==
  /\ int.out # <<>>
  /\ int' = [int EXCEPT !.out = Tail(@)]
  /\ Execute(Head(int.out))
  /\ UNCHANGED <<tstate, mids, source>>

Pops == PopControl \/ \E n \in 1..MaxTasks : PopTrack(n) \/ EndTrack(n)

Next ==
  \/ Connect \/ ConnectTimeout \/ ReconnectTimeout
  \/ ChannelOpen \/ ChannelClose \/ IceDisconnected \/ IceConnected
  \/ \E t \in OwnTracks : MediaAdded(t)
  \/ \E r \in Rooms : JoinRequest(r)
  \/ LeaveRequest
  \/ \E t \in Remotes : SenderAttach(t) \/ SenderDetach(t) \/ Media(t)
  \/ \E t \in Locals, s \in Targets : ReceiverAttach(t, s)
  \/ \E t \in Locals : ReceiverDetach(t) \/ Feedback(t)
  \/ \E t \in OwnTracks : Config(t)
  \/ Shutdown
  \/ Pops

Spec == Init /\ [][Next]_vars

\* The worker pops the endpoint until it has no output left, and ticks it.
Fairness ==
  /\ WF_vars(Pops)
  /\ WF_vars(Connect) /\ WF_vars(ConnectTimeout) /\ WF_vars(ReconnectTimeout)

-----------------------------------------------------------------------------
\* The endpoint has the shape the code gives it.
TypeOK ==
  /\ tstate \in {"New", "Connecting", "Connected", "Reconnecting"} \union Ended
  /\ int.state = (IF tstate = "New" THEN "None" ELSE tstate)
  /\ mids \subseteq OwnTracks /\ source \subseteq Remotes /\ int.shares \subseteq OwnTracks
  /\ {int.joined, int.waitJoin} \subseteq Rooms \union {None}
  /\ DOMAIN int.tasks \subseteq 1..int.made /\ DOMAIN int.index \subseteq OwnTracks
  /\ member \subseteq Rooms /\ views \subseteq Rooms \X Locals \X Targets /\ pubs \subseteq Rooms \X Remotes

\* Every task an event can reach agrees with the endpoint on the room it is in,
\* which the assertions of on_join_room and on_leave_room in both kinds of
\* track demand ("Must have room here").
RoomsAgree == \A n \in Indexed(int) : int.tasks[n].room = int.joined

\* The cluster may be handed c now.
Fits(c) ==
  CASE c.op = "Join"        -> c.room \notin member
    [] c.op = "Leave"       -> c.room \in member /\ ~\E v \in views : v[1] = c.room
                                                /\ ~\E p \in pubs : p[1] = c.room
    [] c.op = "Subscribe"   -> c.room \in member /\ ~\E v \in views : v[2] = c.track
    [] c.op = "Unsubscribe" -> \E v \in views : v[1] = c.room /\ v[2] = c.track
    [] OTHER                -> c.room \in member

\* Whatever the interleaving of requests, room switches and pops, the room gets
\* a track's controls only between Join and Leave, one subscription at a time,
\* and Leave only after every subscription and publication is undone: the media
\* track part of the room has no leave handler of its own and relies on it.
ControlsFit == int.out # <<>> => Fits(Head(int.out))

Quiet == int.out = <<>> /\ \A n \in DOMAIN int.tasks : int.tasks[n].queue = <<>> /\ ~int.tasks[n].shutdown

\* What the client asked for: the room it is in, what its local tracks view.
Wanted ==
  {<<int.tasks[n].room, int.tasks[n].track, int.tasks[n].bind>> :
     n \in {m \in DOMAIN int.tasks : int.tasks[m].bind # None}}

\* Once the outputs are popped the cluster knows exactly the session: the room,
\* the subscriptions of the bound local tracks, a publication for every sender
\* that has a source and a media line; and every bound track has a share of the
\* send bitrate.
RoomMirrors ==
  Quiet =>
    /\ member = {int.joined} \ {None}
    /\ views = Wanted
    /\ pubs = member \X (source \intersect mids)
    /\ {v[2] : v \in views} \subseteq int.shares

\* An endpoint that was removed has left every room and holds nothing there.
AllLeft == Gone => member = {} /\ views = {} /\ pubs = {}

\* A sender the client detached is not announced to the room.
NoGhostTrack == Quiet => \A p \in pubs : p[2] \in source

\* A session that is not connected either gets its connection (back) or is
\* removed: the timeouts end it, the shutdown drains it and the emptied parts
\* let go of it.
EventuallySettled == (tstate # "Connected") ~> (tstate = "Connected" \/ Gone)
=============================================================================
