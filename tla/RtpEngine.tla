----------------------------- MODULE RtpEngine -----------------------------
(***************************************************************************)
(* One RTPEngine session of a media node: TransportRtpEngine, which joins  *)
(* a telephone call (PCMA over plain RTP) to a room, with its endpoint.    *)
(*                                                                         *)
(* The session is made from an offer of the caller (new_answer) or makes   *)
(* an offer that is answered later (new_offer, SetAnswer).  The first RTP  *)
(* packet after that connects it.  Around it are the UDP socket, the       *)
(* endpoint, which takes the outputs in order, the room, and the node API. *)
(* The codecs succeed or fail on a packet.  One Tick is one second; ages   *)
(* count ticks and stop at Timeout.                                        *)
(***************************************************************************)
EXTENDS Integers, Sequences

CONSTANTS
  Timeout,     \* TIMEOUT_DURATION_MS, in ticks
  Tracks,      \* tracks of the room
  Own,         \* those of the session itself
  MaxReqs,     \* bound: requests of the node API
  MaxChanges   \* bound: starts and stops of tracks of the room

VARIABLES
  session,    \* answered, connected, udp_slot, shutdown, and the ages of the session
  queue,      \* outputs
  endpoint,   \* what the endpoint was told and did
  room,       \* live tracks, and the events on their way to the session
  requests    \* answers of each request of the API

vars == <<session, queue, endpoint, room, requests>>

\* An age that was never set (last_recv_rtp, last_send_rtp are None).
Never == -1
NoTrack == "none"

Out(op, arg) == [op |-> op, arg |-> arg]

Push(outs) == queue' = queue \o outs

\* The runtime pops the outputs after every input.
Ready == queue = <<>>

NewSession(answered) ==
  [answered |-> answered, connected |-> FALSE, udp_slot |-> FALSE, shutdown |-> FALSE,
   age |-> 0, recv |-> Never, send |-> Never]

\* new_offer: the session waits for an answer.
new_offer == session = NewSession(FALSE) /\ queue = <<Out("Listen", 0), Out("State", "New")>>

\* new_answer: the offer names the remote address.
new_answer == session = NewSession(TRUE) /\ queue = <<Out("Listen", 0), Out("State", "Connecting")>>

Init ==
  /\ new_offer \/ new_answer
  /\ endpoint = [told |-> "New", ended |-> FALSE, joins |-> 0,
                 joined |-> FALSE, late |-> FALSE, attached |-> NoTrack]
  /\ room = [live |-> {}, events |-> <<>>, changes |-> 0]
  /\ requests = <<>>

is_empty == session.shutdown /\ queue = <<>>

-----------------------------------------------------------------------------
(* on_tick.                                                                *)

\* The age of the last activity: RTP has to flow both ways once.
last_activity(s) ==
  IF s.recv = Never \/ s.send = Never THEN s.age
  ELSE IF s.recv < s.send THEN s.recv ELSE s.send

Older(age) == IF age \in {Never, Timeout} THEN age ELSE age + 1

Aged == [session EXCEPT !.age = Older(@), !.recv = Older(@), !.send = Older(@)]

Tick ==
  /\ Ready /\ ~session.shutdown
  /\ IF last_activity(Aged) >= Timeout
       THEN /\ session' = [Aged EXCEPT !.shutdown = TRUE]
            /\ Push(<<Out("State", "Disconnected")>>)
       ELSE session' = Aged /\ UNCHANGED queue
  /\ UNCHANGED <<endpoint, room, requests>>

-----------------------------------------------------------------------------
(* on_backend.                                                             *)

\* UdpListenResult: the port is bound.  If it is not, the session has no slot.
UdpListenResult ==
  /\ Ready /\ ~session.shutdown /\ ~session.udp_slot
  /\ session' = [session EXCEPT !.udp_slot = TRUE]
  /\ UNCHANGED <<queue, endpoint, room, requests>>

\* A session connects before it is answered.
Connects_MutantAny ==
  IF ~session.connected
    THEN <<Out("State", "Connected"), Out("Started", "remote"), Out("Started", "local"),
           Out("Rpc", "Join")>>
    ELSE <<>>

\* The first packet connects an answered session: both tracks start, and the
\* session joins its room.
Connects ==
  IF session.answered /\ ~session.connected
    THEN <<Out("State", "Connected"), Out("Started", "remote"), Out("Started", "local"),
           Out("Rpc", "Join")>>
    ELSE <<>>

\* UdpPacket: any RTP counts as received, PCMA connects and is transcoded.
UdpPacket(pcma, transcoded) ==
  /\ Ready /\ ~session.shutdown
  /\ session' = [session EXCEPT !.recv = 0, !.connected = @ \/ (pcma /\ session.answered)]
  /\ Push(IF pcma THEN Connects \o (IF transcoded THEN <<Out("Media", 0)>> ELSE <<>>) ELSE <<>>)
  /\ UNCHANGED <<endpoint, room, requests>>

-----------------------------------------------------------------------------
(* on_event: the room and the endpoint.                                    *)

\* The room tells the session of every track in order once it joined.
RoomChanges(t) ==
  /\ endpoint.joined /\ room.changes < MaxChanges
  /\ room' = [live    |-> IF t \in room.live THEN room.live \ {t} ELSE room.live \union {t},
              events  |-> Append(room.events, [track |-> t, started |-> t \notin room.live]),
              changes |-> room.changes + 1]
  /\ UNCHANGED <<session, queue, endpoint, requests>>

\* PeerTrackStarted: the session attaches to every track of others in turn, so
\* it hears the last.
PeerTrackStarted(t) == IF t \in Own THEN <<>> ELSE <<Out("Attach", t)>>

\* PeerTrackStopped: it detaches whichever track it hears.
PeerTrackStopped(t) == IF t \in Own THEN <<>> ELSE <<Out("Detach", t)>>

RoomEvent ==
  /\ Ready /\ ~session.shutdown /\ room.events # <<>>
  /\ LET e == Head(room.events)
     IN  Push(IF e.started THEN PeerTrackStarted(e.track) ELSE PeerTrackStopped(e.track))
  /\ room' = [room EXCEPT !.events = Tail(@)]
  /\ UNCHANGED <<session, endpoint, requests>>

\* Media of the attached track: sent as PCMA when there is a slot, a remote
\* address and a transcoded frame; it counts as sent in any case.
LocalMedia(transcoded) ==
  /\ Ready /\ ~session.shutdown /\ endpoint.attached # NoTrack
  /\ session' = [session EXCEPT !.send = 0]
  /\ Push(IF session.udp_slot /\ session.answered /\ transcoded
            THEN <<Out("UdpPacket", 0)>> ELSE <<>>)
  /\ UNCHANGED <<endpoint, room, requests>>

-----------------------------------------------------------------------------
(* on_input, Ext: the node API.                                            *)

Ask == requests' = Append(requests, 0)
Id == Len(requests) + 1

\* SetAnswer, with an SDP that has a media line or has not.
SetAnswer(valid) ==
  /\ Ask
  /\ session' = [session EXCEPT !.answered = @ \/ valid]
  /\ Push((IF valid THEN <<Out("State", "Connecting")>> ELSE <<>>) \o <<Out("Ext", Id)>>)

\* Disconnect: the endpoint is told, and the session waits for its timeout.
Disconnect ==
  /\ Ask
  /\ Push(<<Out("Ext", Id), Out("State", "Disconnected")>>)
  /\ UNCHANGED session

Ext ==
  /\ Ready /\ ~session.shutdown /\ Len(requests) < MaxReqs
  /\ (\E valid \in BOOLEAN : SetAnswer(valid)) \/ Disconnect
  /\ UNCHANGED <<endpoint, room>>

\* Endpoint::on_shutdown: the endpoint ends first, then the transport.
Shutdown ==
  /\ Ready /\ ~session.shutdown
  /\ session' = [session EXCEPT !.shutdown = TRUE]
  /\ endpoint' = [endpoint EXCEPT !.ended = TRUE, !.joined = FALSE, !.attached = NoTrack]
  /\ UNCHANGED <<queue, room, requests>>

-----------------------------------------------------------------------------
(* pop_output, and what the endpoint does with an output.                  *)

\* The endpoint ends with the first Disconnected; what it did not do by then it
\* still does: a join that comes later is one nobody takes back.
Taken(o) ==
  CASE o.op = "State" /\ o.arg # "Disconnected" -> [endpoint EXCEPT !.told = o.arg]
    [] o.op = "State" /\ o.arg = "Disconnected" ->
         [endpoint EXCEPT !.told = o.arg, !.ended = TRUE,
                          !.joined = endpoint.joined /\ endpoint.ended,
                          !.attached = IF endpoint.ended THEN @ ELSE NoTrack]
    [] o.op = "Rpc"     -> [endpoint EXCEPT !.joins = @ + 1, !.joined = TRUE, !.late = endpoint.ended]
    [] o.op = "Attach"  -> [endpoint EXCEPT !.attached = IF endpoint.joined THEN o.arg ELSE @]
    [] o.op = "Detach"  -> [endpoint EXCEPT !.attached = NoTrack]
    [] OTHER            -> endpoint

Pop ==
  /\ queue # <<>> /\ queue' = Tail(queue)
  /\ endpoint' = Taken(Head(queue))
  /\ IF Head(queue).op = "Ext" THEN requests' = [requests EXCEPT ![Head(queue).arg] = @ + 1]
                               ELSE UNCHANGED requests
  /\ UNCHANGED <<session, room>>

Gone == is_empty /\ UNCHANGED vars

-----------------------------------------------------------------------------
Next ==
  \/ Tick \/ RoomEvent \/ Ext \/ Shutdown \/ Pop \/ Gone
  \/ UdpListenResult
  \/ \E pcma, transcoded \in BOOLEAN : UdpPacket(pcma, transcoded)
  \/ \E t \in Tracks : RoomChanges(t)
  \/ \E transcoded \in BOOLEAN : LocalMedia(transcoded)

Spec == Init /\ [][Next]_vars

\* The worker pops outputs and ticks forever.
Fairness == WF_vars(Pop) /\ SF_vars(Tick)

-----------------------------------------------------------------------------
(* Properties.                                                             *)

TypeOK ==
  /\ session.age \in 0..Timeout
  /\ session.recv \in {Never} \union 0..Timeout /\ session.send \in {Never} \union 0..Timeout
  /\ Len(queue) <= 5
  /\ endpoint.attached \in Tracks \union {NoTrack}
  /\ room.live \subseteq Tracks

\* A call joins its room once, and only after its answer is known, however its
\* packets and the answer of the other side interleave (UdpPacket, SetAnswer).
JoinsOnce == endpoint.joins <= 1 /\ (endpoint.joins > 0 => session.answered)

\* When the events of the room are handled, the call does not hear a track that
\* stopped, nor its own (PeerTrackStarted, PeerTrackStopped).
HearsLive ==
  (queue = <<>> /\ room.events = <<>>) =>
    endpoint.attached \in {NoTrack} \union (room.live \ Own)

\* A session that is gone has left its room, whichever of timeout, Disconnect and
\* shutdown ended it, unless its first packet came after a Disconnect, which
\* leaves the transport open (Disconnect, on_tick, on_shutdown).
LeftAtEnd == is_empty => (~endpoint.joined \/ endpoint.late)

\* A call that was never answered, that never had RTP both ways, or that went
\* silent in both directions, is gone after the timeout (last_activity, on_tick).
SilentEnds ==
  []<>(is_empty \/ (session.recv # Never /\ session.send # Never /\ last_activity(session) = 0))

\* Every request of the node API to the session is answered, once (on_input).
AllAnswered ==
  /\ [](\A id \in DOMAIN requests : requests[id] <= 1)
  /\ []<>(\A id \in DOMAIN requests : requests[id] = 1)

=============================================================================
