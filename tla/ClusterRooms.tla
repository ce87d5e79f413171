---------------------------- MODULE ClusterRooms ----------------------------
(***************************************************************************)
(* MediaCluster and ClusterRoom (media_core/src/cluster.rs, cluster/room.rs)*)
(* between the sessions of a worker and the SDN: rooms are made by the     *)
(* first control of an endpoint, hand controls and SDN events to their four*)
(* parts, and go when all four are empty.  A session is known to a room    *)
(* only by the place it has in its task group, and places are taken again. *)
(*                                                                         *)
(* The parts are modelled by the endpoints they hold; RoomMetadata,        *)
(* MediaTrack, AudioMixer and MessageChannel model what they do with them. *)
(***************************************************************************)
EXTENDS Integers, Sequences, FiniteSets

CONSTANTS
    Places,         \* places of sessions in the worker's task groups
    Rooms,          \* ClusterRoomHash
    MaxSessions,    \* bound on the sessions of a behaviour
    MaxChanges,     \* bound on what sessions do in rooms
    MaxSdn          \* bound on the SDN events of a behaviour

VARIABLES
    session,    \* place -> session, with the room it has joined
    rooms,      \* room -> its four parts
    eout,       \* outputs of the endpoints that are not yet popped
    cout,       \* outputs of the cluster that are not yet popped
    astray,     \* an event of a room reached a session that is in another one
    used        \* how much of the bounds is used

vars == <<session, rooms, eout, cout, astray, used>>

NoRoom == "none"
NoSession == [id |-> 0, room |-> NoRoom, uses |-> {}]
Uses == {"publish", "subscribe", "channel"}
Parts == {"metadata", "media_track", "audio_mixer", "message_channel"}
NewRoom == [made |-> TRUE, metadata |-> {}, publishers |-> {}, subscribers |-> {}, audio_mixer |-> {}, message_channel |-> {}]
Missing == [NewRoom EXCEPT !.made = FALSE]

Drained == eout = <<>> /\ cout = <<>>
Live == {p \in Places : session[p].id # 0}

------------------------------------------------------------------------------
(* ClusterRoom *)

\* Whether a part holds an endpoint (TaskSwitcherChild::is_empty of ClusterRoom).
RoomEmpty(r) == r.metadata \cup r.publishers \cup r.subscribers \cup r.audio_mixer \cup r.message_channel = {}

\* Join and Leave: Leave does not tell the media tracks.
Join(r, p, mixer) == [r EXCEPT !.metadata = @ \cup {p}, !.audio_mixer = IF mixer THEN @ \cup {p} ELSE @]
Leave(r, p) == [r EXCEPT !.metadata = @ \ {p}, !.audio_mixer = @ \ {p}, !.message_channel = @ \ {p}]

\* A track is started only for an endpoint the metadata knows.
on_control_remote_track(r, p, start) ==
    IF start
    THEN IF p \in r.metadata THEN [r EXCEPT !.publishers = @ \cup {p}] ELSE r
    ELSE [r EXCEPT !.publishers = @ \ {p}]

on_control_local_track(r, p, start) ==
    [r EXCEPT !.subscribers = IF start THEN @ \cup {p} ELSE @ \ {p}]

on_control_message_channel(r, p, start) ==
    [r EXCEPT !.message_channel = IF start THEN @ \cup {p} ELSE @ \ {p}]

\* ClusterEndpointControl::AudioMixer changes what a mixer that is there plays.
on_endpoint_control(r, p, c) ==
    CASE c.op = "join" -> Join(r, p, c.mixer)
      [] c.op = "leave" -> Leave(r, p)
      [] c.op = "publish" -> on_control_remote_track(r, p, c.start)
      [] c.op = "subscribe" -> on_control_local_track(r, p, c.start)
      [] c.op = "channel" -> on_control_message_channel(r, p, c.start)
      [] c.op = "mixer" -> r

\* Whom the part that gets an SDN event tells about it: a key-value event
\* goes to all members, data to those that subscribe to it, and feedback of
\* the media tracks to those that publish.
on_sdn_event(r, part) ==
    CASE part = "metadata" -> {r.metadata}
      [] part = "media_track" -> {r.subscribers, r.publishers}
      [] part = "audio_mixer" -> {r.audio_mixer}
      [] part = "message_channel" -> {r.message_channel}

------------------------------------------------------------------------------
(* MediaCluster *)

Event(room, to) == IF to = {} THEN <<>> ELSE <<[room |-> room, to |-> to]>>

\* When all outputs of a room are popped and it is empty, it is removed.
Settled(room, r) == [rooms EXCEPT ![room] = IF RoomEmpty(r) THEN Missing ELSE r]

\* MediaCluster::on_endpoint_control: a control of any kind makes the room.
\* A member that joins is told at once what the room already knows.
EndpointControl(p, room, c) ==
    LET r == on_endpoint_control(IF rooms[room].made THEN rooms[room] ELSE NewRoom, p, c)
    IN /\ rooms' = Settled(room, r)
       /\ cout' = cout \o Event(room, IF c.op = "join" /\ Cardinality(r.metadata) > 1 THEN {p} ELSE {})

\* MediaCluster::on_sdn_event: an event of a room that is gone is dropped.
SdnEvent(room, part) ==
    /\ Drained /\ used.sdn < MaxSdn
    /\ used' = [used EXCEPT !.sdn = @ + 1]
    /\ \E to \in on_sdn_event(rooms[room], part) : cout' = IF rooms[room].made THEN Event(room, to) ELSE <<>>
    /\ UNCHANGED <<session, rooms, eout, astray>>

------------------------------------------------------------------------------
(* The sessions (what an Endpoint tells the cluster) *)

Control(p, room, op, start, mixer) == [what |-> "control", place |-> p, room |-> room, op |-> op, start |-> start, mixer |-> mixer]
Ended(p) == [what |-> "empty", place |-> p]

Change == Drained /\ used.changes < MaxChanges /\ used' = [used EXCEPT !.changes = @ + 1]

\* Its tracks are not told that it leaves.
leave_room_MutantTracks(p) ==
    IF session[p].room = NoRoom THEN <<>> ELSE <<Control(p, session[p].room, "leave", FALSE, FALSE)>>

\* leave_room: its tracks end what they do in the room, then it leaves.
leave_room(p) ==
    IF session[p].room = NoRoom THEN <<>>
    ELSE (IF "subscribe" \in session[p].uses THEN <<Control(p, session[p].room, "subscribe", FALSE, FALSE)>> ELSE <<>>)
          \o (IF "publish" \in session[p].uses THEN <<Control(p, session[p].room, "publish", FALSE, FALSE)>> ELSE <<>>)
          \o <<Control(p, session[p].room, "leave", FALSE, FALSE)>>

\* A session is spawned into a free place; an ended one frees its place.
Spawn(p) ==
    /\ Drained /\ session[p].id = 0 /\ used.sessions < MaxSessions
    /\ used' = [used EXCEPT !.sessions = @ + 1]
    /\ session' = [session EXCEPT ![p] = [NoSession EXCEPT !.id = used.sessions + 1]]
    /\ UNCHANGED <<rooms, eout, cout, astray>>

\* join_room leaves the room it is in first; a remote track the session has
\* is started in the new room, local tracks are not bound there yet.
JoinRoom(p, room) ==
    /\ session[p].id # 0 /\ Change
    /\ \E mixer \in BOOLEAN :
          eout' = leave_room(p) \o <<Control(p, room, "join", FALSE, mixer)>>
                    \o (IF "publish" \in session[p].uses THEN <<Control(p, room, "publish", TRUE, FALSE)>> ELSE <<>>)
    /\ session' = [session EXCEPT ![p].room = room, ![p].uses = @ \cap {"publish"}]
    /\ UNCHANGED <<rooms, cout, astray>>

LeaveRoom(p) ==
    /\ session[p].id # 0 /\ session[p].room # NoRoom /\ Change
    /\ eout' = leave_room(p)
    /\ session' = [session EXCEPT ![p].room = NoRoom, ![p].uses = @ \cap {"publish"}]
    /\ UNCHANGED <<rooms, cout, astray>>

\* A track or channel of the session starts or stops something in the room;
\* a remote track may also start or stop while the session is in no room.
UseRoom(p, use) ==
    /\ session[p].id # 0 /\ (session[p].room # NoRoom \/ use = "publish") /\ Change
    /\ eout' = IF session[p].room = NoRoom THEN <<>> ELSE <<Control(p, session[p].room, use, use \notin session[p].uses, FALSE)>>
    /\ session' = [session EXCEPT ![p].uses = IF use \in @ THEN @ \ {use} ELSE @ \cup {use}]
    /\ UNCHANGED <<rooms, cout, astray>>

\* What the session's mixer plays is set (ClusterEndpointControl::AudioMixer).
SetMixer(p) ==
    /\ session[p].id # 0 /\ session[p].room # NoRoom /\ Change
    /\ eout' = <<Control(p, session[p].room, "mixer", TRUE, TRUE)>>
    /\ UNCHANGED <<session, rooms, cout, astray>>

\* The session ends: it leaves, and then is empty.
End(p) ==
    /\ session[p].id # 0 /\ Drained
    /\ eout' = leave_room(p) \o <<Ended(p)>>
    /\ session' = [session EXCEPT ![p].room = NoRoom, ![p].uses = {}]
    /\ UNCHANGED <<rooms, cout, astray, used>>

------------------------------------------------------------------------------
(* The worker's pops *)

\* output_webrtc and output_rtpengine, Cluster; OnResourceEmpty frees the place.
PopEndpoint ==
    /\ eout # <<>>
    /\ LET o == Head(eout) IN
          \/ o.what = "control" /\ EndpointControl(o.place, o.room, o) /\ UNCHANGED session
          \/ /\ o.what = "empty"
             /\ session' = [session EXCEPT ![o.place] = NoSession]
             /\ UNCHANGED <<rooms, cout>>
    /\ eout' = Tail(eout)
    /\ UNCHANGED <<astray, used>>

\* output_cluster: the event is handed to the sessions in the places it names.
output_cluster ==
    /\ cout # <<>>
    /\ astray' = (astray \/ \E p \in Head(cout).to : session[p].room \notin {NoRoom, Head(cout).room})
    /\ cout' = Tail(cout)
    /\ UNCHANGED <<session, rooms, eout, used>>

------------------------------------------------------------------------------
Init ==
    /\ session = [p \in Places |-> NoSession]
    /\ rooms = [r \in Rooms |-> Missing]
    /\ eout = <<>> /\ cout = <<>> /\ astray = FALSE
    /\ used = [sessions |-> 0, changes |-> 0, sdn |-> 0]

Next ==
    \/ PopEndpoint \/ output_cluster
    \/ \E r \in Rooms, part \in Parts : SdnEvent(r, part)
    \/ \E p \in Places :
          \/ Spawn(p) \/ LeaveRoom(p) \/ SetMixer(p) \/ End(p)
          \/ \E r \in Rooms : JoinRoom(p, r)
          \/ \E use \in Uses : UseRoom(p, use)

Spec == Init /\ [][Next]_vars

------------------------------------------------------------------------------
(* Properties *)

\* Sessions and rooms have their types.
TypeOK ==
    /\ session \in [Places -> [id : 0 .. MaxSessions, room : Rooms \cup {NoRoom}, uses : SUBSET Uses]]
    /\ \A r \in Rooms : rooms[r] \in [made : BOOLEAN, metadata : SUBSET Places, publishers : SUBSET Places, subscribers : SUBSET Places,
                                      audio_mixer : SUBSET Places, message_channel : SUBSET Places]

\* When nothing is on its way, a room holds exactly the live sessions that
\* joined it, in each of its parts the ones that use that part: nothing of a
\* session outlives it in a room, also when its place is taken again.
HoldsMembers ==
    Drained => \A r \in Rooms :
        LET in == {p \in Live : session[p].room = r} IN
        /\ rooms[r].metadata = in
        /\ rooms[r].publishers = {p \in in : "publish" \in session[p].uses}
        /\ rooms[r].subscribers = {p \in in : "subscribe" \in session[p].uses}
        /\ rooms[r].message_channel = {p \in in : "channel" \in session[p].uses}
        /\ rooms[r].audio_mixer \subseteq in

\* A room is there exactly as long as a session is in it; it is removed when
\* its four parts are empty (docs/contributor-guide/resource_clear.md).
RoomWhileUsed == Drained => \A r \in Rooms : rooms[r].made <=> \E p \in Live : session[p].room = r

\* No session is handed an event of a room other than the one it is in,
\* although rooms know sessions only by their place and a session may change
\* its room in one step.
NoForeignEvent == ~astray
==============================================================================
