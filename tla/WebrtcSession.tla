--------------------------- MODULE WebrtcSession ---------------------------
(***************************************************************************)
(* One WebRTC session of a media node: TransportWebrtc, which drives the   *)
(* str0m library, around one of its three internals: TransportWebrtcWhip   *)
(* (a publisher), TransportWebrtcWhep (a viewer that follows the room by   *)
(* itself) and TransportWebrtcSdk (a client that asks over a data channel).*)
(*                                                                         *)
(* Around it are str0m (connection events, media lines, packets, bitrate   *)
(* estimates), the endpoint, which takes the outputs of the transport in   *)
(* order and answers its requests, the room, and the client.               *)
(*                                                                         *)
(* One Tick is one second of on_tick.  An event that reaches a session     *)
(* after it ended is a race of module Endpoint; here str0m speaks to a     *)
(* session that has not ended.  A client lists the same tracks again, in   *)
(* the same order, whenever it negotiates new ones, and attaches a sender  *)
(* once its media line is negotiated.                                      *)
(*                                                                         *)
(* The runtime pops the outputs after every input (see the note at         *)
(* TransportWebrtc::on_input), so few of them wait when the next input     *)
(* comes; the answers of the endpoint come at any moment.                  *)
(***************************************************************************)
EXTENDS Integers, Sequences, SequencesExt

CONSTANTS
  Timeout,      \* TIMEOUT_SEC, in ticks
  WarmUp,       \* WARM_UP_MS, in ticks
  BweTimeout,   \* TIMEOUT_MS of BweState, in ticks
  Senders,      \* the senders a client negotiates, in the order it does
  Receivers,    \* its receivers
  Tracks,       \* tracks of the room
  PeerOf,       \* the peer of a track
  KindOf,       \* its kind
  MaxReqs,      \* bound: requests of the client and of the node API
  MaxChanges,   \* bound: starts and stops of tracks of the room
  MaxQueue      \* bound: outputs that wait

VARIABLES
  variant,        \* "whip", "whep" or "sdk"
  state, at,      \* State of the internal, and ticks since it was entered
  queue,          \* outputs of the internal
  answers,        \* TransportWebrtc.queue: answers to the node API
  mids,           \* audio_mid and video_mid of whip and whep
  subscribed,     \* SubscribeStreams
  waits,          \* audio_subscribe_waits and video_subscribe_waits
  remote_tracks,  \* of the SDK session: [id, name, source, mid]
  local_tracks,
  bwe,            \* BweState, with the age of the last video packet
  str0m,          \* media lines that str0m has and has not announced
  endpoint,       \* what the endpoint was told, and what it owes
  room,           \* the tracks of the room, and the events on their way
  requests        \* of the client and of the API: [dropped, answers] of each id

vars == <<variant, state, at, queue, answers, mids, subscribed, waits, remote_tracks,
          local_tracks, bwe, str0m, endpoint, room, requests>>

Kinds == {"audio", "video"}
NoTrack == "none"

ended == {"ConnectError", "Disconnected"}

\* State::is_shutdown.
is_shutdown == state \in ended

\* is_empty, after which the worker removes the session.
is_empty == is_shutdown /\ queue = <<>> /\ answers = <<>>

Alive == ~is_shutdown /\ Len(queue) < MaxQueue

\* An output: what it is, the request it belongs to (0 for the transport's own
\* join request, -1 for none), and the track, kind or state it names.
Out(op, id, arg) == [op |-> op, id |-> id, arg |-> arg]

Tell(s) == Out("State", -1, s)

\* send_event, with the answer to a request (send_rpc_res and send_rpc_res_err)
\* or with an event of the room.
SendEvent(id) == Out("Data", id, NoTrack)

NewEndpoint == [told |-> "New", started |-> {}, early |-> FALSE, rpc |-> {},
                attached |-> [k \in Kinds |-> NoTrack], video |-> BweTimeout]

\* TransportWebrtcSdk::new: the tracks of the connect request, numbered in the
\* order they are listed.
NewTracks(names) == [i \in DOMAIN names |->
                       [id |-> i - 1, name |-> names[i], source |-> FALSE, mid |-> 0]]

\* TransportWebrtc::new: the offer of a whip or whep client may have any media
\* lines, that of an SDK client the tracks it lists.
Init ==
  /\ variant \in {"whip", "whep", "sdk"}
  /\ state = "New" /\ at = 0
  /\ queue = <<>> /\ answers = <<>>
  /\ mids = {}
  /\ subscribed = [k \in Kinds |-> NoTrack] /\ waits = [k \in Kinds |-> <<>>]
  /\ \E n \in 0..1 :
       /\ variant # "sdk" => n = 0
       /\ remote_tracks = NewTracks(SubSeq(Senders, 1, n))
       /\ local_tracks = NewTracks(SubSeq(Receivers, 1, n))
       /\ str0m = [lines |-> IF variant = "sdk" THEN {} ELSE Kinds,
                   senders |-> n, receivers |-> n, open |-> FALSE]
  /\ bwe = [stage |-> "Inactive", age |-> 0, last |-> 0, reset |-> FALSE]
  /\ endpoint = NewEndpoint
  /\ room = [live |-> {}, events |-> <<>>, changes |-> 0, missed |-> {}]
  /\ requests = <<>>

Push(outs) == queue' = queue \o outs

-----------------------------------------------------------------------------
(* BweState.                                                               *)

\* on_tick of BweState, with the reset it asks for.
BweTick ==
  LET last == bwe.last + 1
      age  == bwe.age + 1
  IN  CASE bwe.stage = "WarmUp" /\ bwe.reset ->
             [to |-> [bwe EXCEPT !.reset = FALSE, !.last = last, !.age = age], reset |-> TRUE]
        [] bwe.stage # "Inactive" /\ ~bwe.reset /\ last >= BweTimeout ->
             [to |-> [stage |-> "Inactive", age |-> 0, last |-> 0, reset |-> FALSE], reset |-> TRUE]
        [] bwe.stage = "WarmUp" /\ ~bwe.reset /\ last < BweTimeout /\ age >= WarmUp ->
             [to |-> [bwe EXCEPT !.stage = "Active", !.last = last, !.age = 0], reset |-> FALSE]
        [] bwe.stage = "WarmUp" /\ ~bwe.reset /\ last < BweTimeout /\ age < WarmUp ->
             [to |-> [bwe EXCEPT !.last = last, !.age = age], reset |-> FALSE]
        [] bwe.stage = "Active" /\ last < BweTimeout ->
             [to |-> [bwe EXCEPT !.last = last], reset |-> FALSE]
        [] bwe.stage = "Inactive" -> [to |-> bwe, reset |-> FALSE]

on_send_video ==
  IF bwe.stage = "Inactive"
    THEN [stage |-> "WarmUp", age |-> 0, last |-> 0, reset |-> TRUE]
    ELSE [bwe EXCEPT !.last = 0]

\* filter_bwe, for an estimate of 1: nothing while inactive, and at least the
\* warm-up bitrate, 2, while warming up.
filter_bwe == CASE bwe.stage = "Inactive" -> 0
                [] bwe.stage = "WarmUp"   -> 2
                [] bwe.stage = "Active"   -> 1

-----------------------------------------------------------------------------
(* on_tick of the internals.                                               *)

TimedOut == at + 1 >= Timeout

\* The next state, and what the endpoint is told of it.
StateTick ==
  CASE state = "New"                       -> "Connecting"
    [] state = "Connecting" /\ TimedOut    -> "ConnectError"
    [] state = "Reconnecting" /\ TimedOut  -> "Disconnected"
    [] OTHER                               -> state

Older == IF StateTick = state /\ state \in {"Connecting", "Reconnecting"} THEN at + 1 ELSE 0

Tick ==
  /\ ~is_shutdown /\ Len(queue) < MaxQueue
  /\ LET b == IF variant = "whip" THEN [to |-> bwe, reset |-> FALSE] ELSE BweTick
     IN  /\ bwe' = b.to
         /\ Push((IF b.reset THEN <<Out("ResetBwe", -1, NoTrack)>> ELSE <<>>)
                  \o (IF StateTick # state THEN <<Tell(StateTick)>> ELSE <<>>))
  /\ state' = StateTick
  /\ at' = Older
  /\ endpoint' = [endpoint EXCEPT !.video = IF @ < BweTimeout THEN @ + 1 ELSE @]
  /\ UNCHANGED <<variant, answers, mids, subscribed, waits, remote_tracks, local_tracks,
                 str0m, room, requests>>

-----------------------------------------------------------------------------
(* on_str0m_event.                                                         *)

Quiet == <<variant, answers, subscribed, waits, endpoint, room, requests>>

\* The session switches to s and tells the endpoint; a new connection asks to
\* join the room, with request 0.
Switch(s, join) ==
  /\ state' = s /\ at' = 0
  /\ Push(<<Tell(s)>> \o (IF join THEN <<Out("Rpc", 0, "Join")>> ELSE <<>>))
  /\ UNCHANGED <<mids, remote_tracks, local_tracks, bwe, Quiet>>

\* Connected of a whip or whep session, ChannelOpen of an SDK session, whose
\* connect request may name a room.
Connected ==
  /\ Alive /\ state = "Connecting" /\ ~str0m.open
  /\ \E join \in (IF variant = "sdk" THEN BOOLEAN ELSE {TRUE}) : Switch("Connected", join)
  /\ str0m' = [str0m EXCEPT !.open = TRUE]

\* IceConnectionStateChange.
on_str0m_state(ice) ==
  /\ Alive /\ str0m.open
  /\ \/ ice = "Connected" /\ state = "Reconnecting" /\ Switch("Connected", FALSE)
     \/ ice = "Disconnected" /\ state = "Connected" /\ Switch("Reconnecting", FALSE)
  /\ UNCHANGED str0m

ChannelClose ==
  /\ Alive /\ variant = "sdk" /\ str0m.open
  /\ Switch("Disconnected", FALSE) /\ UNCHANGED str0m

\* MediaAdded of a whip session: the line becomes the main track of its kind.
WhipMediaAdded(k) ==
  /\ mids' = mids \union {k}
  /\ Push(<<Out("Started", -1, k)>>)
  /\ UNCHANGED <<subscribed, waits>>

\* try_subscribe: the viewer follows one peer, one track of each kind.
CanSubscribe(sub, t) ==
  /\ sub[KindOf[t]] = NoTrack
  /\ \A k \in Kinds : sub[k] # NoTrack => PeerOf[sub[k]] = PeerOf[t]

\* The subscription after the tracks ts were tried in turn.
try_subscribe(sub, ts) ==
  FoldLeft(LAMBDA s, t : IF CanSubscribe(s, t) THEN [s EXCEPT ![KindOf[t]] = t] ELSE s, sub, ts)

Attaches(from, to) ==
  SetToSeq({Out("Attach", -1, to[k]) : k \in {j \in Kinds : from[j] # to[j]}})

\* MediaAdded of a whep session: the tracks that waited for the line are tried.
WhepMediaAdded(k) ==
  /\ mids' = mids \union {k}
  /\ subscribed' = try_subscribe(subscribed, waits[k])
  /\ waits' = [waits EXCEPT ![k] = <<>>]
  /\ Push(<<Out("Started", -1, k)>> \o Attaches(subscribed, subscribed'))

MediaAdded(k) ==
  /\ Alive /\ str0m.open /\ k \in str0m.lines
  /\ str0m' = [str0m EXCEPT !.lines = @ \ {k}]
  /\ \/ variant = "whip" /\ WhipMediaAdded(k)
     \/ variant = "whep" /\ WhepMediaAdded(k)
  /\ UNCHANGED <<state, at, variant, answers, remote_tracks, local_tracks, bwe, endpoint, room, requests>>

NoMid(tracks) == {i \in DOMAIN tracks : tracks[i].mid = 0}

FirstFree(tracks) == CHOOSE i \in NoMid(tracks) : \A j \in NoMid(tracks) : i <= j

SetMid(tracks, line) ==
  IF NoMid(tracks) = {} THEN tracks ELSE [tracks EXCEPT ![FirstFree(tracks)].mid = line]

MaxMid(tracks) == Len(SelectSeq(tracks, LAMBDA t : t.mid # 0))

\* MediaAdded of an SDK session, for the next sender and the next receiver that
\* str0m negotiated: the first track without a media line gets it.  A sender
\* without a source waits for Attach.
SenderAdded ==
  /\ Alive /\ variant = "sdk" /\ str0m.open /\ MaxMid(remote_tracks) < str0m.senders
  /\ LET i == FirstFree(remote_tracks)
     IN  /\ remote_tracks' = SetMid(remote_tracks, MaxMid(remote_tracks) + 1)
         /\ Push(IF remote_tracks[i].source
                   THEN <<Out("Started", -1, remote_tracks[i].name)>> ELSE <<>>)
  /\ UNCHANGED <<state, at, mids, local_tracks, bwe, str0m, Quiet>>

ReceiverAdded ==
  /\ Alive /\ variant = "sdk" /\ str0m.open /\ MaxMid(local_tracks) < str0m.receivers
  /\ local_tracks' = SetMid(local_tracks, MaxMid(local_tracks) + 1)
  /\ Push(<<Out("Started", -1, local_tracks[FirstFree(local_tracks)].name)>>)
  /\ UNCHANGED <<state, at, mids, remote_tracks, bwe, str0m, Quiet>>

\* RtpPacket: of the main track of its kind, or of the track that has its line.
WhipPacket(k) == variant = "whip" /\ k \in mids /\ Push(<<Out("Media", -1, k)>>)

SdkPacket(i) ==
  /\ variant = "sdk" /\ i \in DOMAIN remote_tracks
  /\ remote_tracks[i].mid # 0 /\ remote_tracks[i].source
  /\ Push(<<Out("Media", -1, remote_tracks[i].name)>>)

RtpPacket ==
  /\ Alive
  /\ (\E k \in Kinds : WhipPacket(k)) \/ (\E i \in DOMAIN remote_tracks : SdkPacket(i))
  /\ UNCHANGED <<state, at, mids, remote_tracks, local_tracks, bwe, str0m, Quiet>>

\* EgressBitrateEstimate.
Estimate ==
  /\ Alive /\ str0m.open /\ variant # "whip"
  /\ Push(<<Out("Estimate", filter_bwe, NoTrack)>>)
  /\ UNCHANGED <<state, at, mids, remote_tracks, local_tracks, bwe, str0m, Quiet>>

-----------------------------------------------------------------------------
(* on_endpoint_event.                                                      *)

\* A video packet for the viewer (LocalMediaTrack): it keeps the estimate alive.
SendVideo ==
  /\ Alive
  /\ \/ variant = "whep" /\ "video" \in mids /\ endpoint.attached["video"] # NoTrack
     \/ variant = "sdk" /\ MaxMid(local_tracks) > 0
  /\ bwe' = on_send_video
  /\ endpoint' = [endpoint EXCEPT !.video = 0]
  /\ Push(<<Out("SendMedia", -1, "video")>>)
  /\ UNCHANGED <<variant, state, at, answers, mids, subscribed, waits, remote_tracks,
                 local_tracks, str0m, room, requests>>

\* RequestKeyFrame and LimitBitrateBps go to str0m, a KeyframeRequest of str0m and
\* a BweConfig (filter_bwe_config) take the same way, when the line is there.
WhipFeedback == variant = "whip" /\ "video" \in mids /\ Push(<<Out("Feedback", -1, "video")>>)
WhepFeedback == variant = "whep" /\ "video" \in mids /\ Push(<<Out("Feedback", -1, "video")>>)
SdkFeedback ==
  variant = "sdk" /\ MaxMid(remote_tracks) > 0 /\ Push(<<Out("Feedback", -1, "video")>>)

\* The other events of the room, of the mixer and of the channels are told to an
\* SDK client (send_event).
SdkTold == variant = "sdk" /\ Push(<<SendEvent(-1)>>)

EndpointEvent ==
  /\ Alive /\ str0m.open
  /\ WhipFeedback \/ WhepFeedback \/ SdkFeedback \/ SdkTold
  /\ UNCHANGED <<state, at, mids, remote_tracks, local_tracks, bwe, str0m, Quiet>>

\* The room: a track starts or stops, and a viewer who joined is told in order.
RoomChanges(t) ==
  /\ variant = "whep" /\ ~is_shutdown /\ room.changes < MaxChanges
  /\ room' = [room EXCEPT !.live = IF t \in @ THEN @ \ {t} ELSE @ \union {t},
                          !.events = Append(@, t), !.changes = @ + 1]
  /\ UNCHANGED <<variant, state, at, queue, answers, mids, subscribed, waits, remote_tracks,
                 local_tracks, bwe, str0m, endpoint, requests>>

\* Was the oldest event a start?  Starts and stops of one track alternate.
IsStart(t) ==
  LET later == Len(SelectSeq(room.events, LAMBDA e : e = t))
  IN  (t \in room.live) <=> (later % 2 = 1)

\* PeerTrackStarted: a track whose kind has no media line yet waits.
WhepStarted(t) ==
  IF KindOf[t] \notin mids
    THEN /\ waits' = [waits EXCEPT ![KindOf[t]] = Append(@, t)]
         /\ UNCHANGED <<subscribed, queue>>
    ELSE /\ subscribed' = try_subscribe(subscribed, <<t>>)
         /\ Push(Attaches(subscribed, subscribed'))
         /\ UNCHANGED waits

\* A track that stops is forgotten without a Detach.
try_unsubscribe_MutantSilent(t) ==
  /\ subscribed' = [k \in Kinds |-> IF subscribed[k] = t THEN NoTrack ELSE subscribed[k]]
  /\ UNCHANGED <<queue, waits>>

\* try_unsubscribe (PeerTrackStopped): waits is not searched.
try_unsubscribe(t) ==
  /\ subscribed' = [k \in Kinds |-> IF subscribed[k] = t THEN NoTrack ELSE subscribed[k]]
  /\ Push(IF subscribed[KindOf[t]] = t THEN <<Out("Detach", -1, KindOf[t])>> ELSE <<>>)
  /\ UNCHANGED waits

RoomEvent ==
  /\ Alive /\ room.events # <<>> /\ endpoint.told # "New" /\ str0m.open
  /\ LET t == Head(room.events)
     IN  /\ IF IsStart(t) THEN WhepStarted(t) ELSE try_unsubscribe(t)
         /\ room' = [room EXCEPT !.events = Tail(@),
                      !.missed = IF ~IsStart(t) /\ t \in ToSet(waits[KindOf[t]])
                                   THEN @ \union {t} ELSE @]
  /\ UNCHANGED <<variant, state, at, answers, mids, remote_tracks, local_tracks, bwe, str0m,
                 endpoint, requests>>

-----------------------------------------------------------------------------
(* on_str0m_channel_event: the requests of an SDK client.                  *)

\* Ids are positions in requests: 1, 2, ...
Ask(kind) == requests' = Append(requests, [dropped |-> kind = "NoMixer", answers |-> 0])

Id == Len(requests) + 1

Answer == <<SendEvent(Id)>>
Forward == <<Out("Rpc", Id, "Request")>>

\* on_session_req, Join: with a token of this app, room and peer it goes to the
\* endpoint, otherwise it is refused.  Leave, on_recever_req, on_mixer_req and
\* on_msg_chan_req go to the endpoint, a request without content is refused.
JoinReq == Push(Forward) \/ Push(Answer)
LeaveReq == Push(Forward)
ReceiverReq(i) == i \in DOMAIN local_tracks /\ Push(Forward)
MixerReq == Push(Forward)
ChannelReq == Push(Forward)
InvalidReq == Push(Answer)

Names(tracks) == [i \in DOMAIN tracks |-> tracks[i].name]

\* on_session_req, Sdp: the tracks it does not know yet are added, numbered by
\* their place in the list.
AddTracks(tracks, names) ==
  tracks \o [i \in 1..(Len(names) - Len(tracks)) |->
               [id |-> Len(tracks) + i - 1, name |-> names[Len(tracks) + i],
                source |-> FALSE, mid |-> 0]]

\* The offer follows the tracks to str0m.
SdpReq ==
  /\ \E n \in Len(remote_tracks)..Len(Senders), m \in Len(local_tracks)..Len(Receivers) :
       /\ remote_tracks' = AddTracks(remote_tracks, SubSeq(Senders, 1, n))
       /\ local_tracks' = AddTracks(local_tracks, SubSeq(Receivers, 1, m))
  /\ Push(<<Out("Sdp", Id, NoTrack)>>)
  /\ UNCHANGED <<state, at>>

\* on_session_req, Disconnect: the session ends, then the client is answered.
DisconnectReq ==
  /\ state' = "Disconnected" /\ at' = 0
  /\ Push(<<Tell("Disconnected")>> \o Answer)
  /\ UNCHANGED <<remote_tracks, local_tracks>>

\* on_sender_req, Attach and Detach: answered here, and the endpoint is told;
\* refused when there is, or is no, source.
SenderReq(i, attach) ==
  /\ i \in DOMAIN remote_tracks /\ remote_tracks[i].mid # 0
  /\ IF remote_tracks[i].source = attach
       THEN Push(Answer) /\ UNCHANGED remote_tracks
       ELSE /\ remote_tracks' = [remote_tracks EXCEPT ![i].source = attach]
            /\ Push(Answer \o <<Out(IF attach THEN "Started" ELSE "Ended", -1, remote_tracks[i].name)>>)
  /\ UNCHANGED <<state, at, local_tracks>>

\* on_sender_req, Config, and a request that names a track there is not.
SenderConfig == Push(Forward) \/ Push(Answer)

\* A features request without a mixer request has no answer.
NoMixerReq == Push(<<>>)

Same == UNCHANGED <<state, at, remote_tracks, local_tracks>>

ClientAsks ==
  /\ Alive /\ variant = "sdk" /\ str0m.open /\ Len(requests) < MaxReqs
  /\ \/ Ask("Join") /\ JoinReq /\ Same
     \/ Ask("Leave") /\ LeaveReq /\ Same
     \/ Ask("Receiver") /\ (\E i \in DOMAIN local_tracks : ReceiverReq(i)) /\ Same
     \/ Ask("Mixer") /\ MixerReq /\ Same
     \/ Ask("Channel") /\ ChannelReq /\ Same
     \/ Ask("Invalid") /\ InvalidReq /\ Same
     \/ Ask("SenderConfig") /\ SenderConfig /\ Same
     \/ Ask("NoMixer") /\ NoMixerReq /\ Same
     \/ Ask("Sdp") /\ SdpReq
     \/ Ask("Disconnect") /\ DisconnectReq
     \/ Ask("Sender") /\ \E i \in DOMAIN remote_tracks, a \in BOOLEAN : SenderReq(i, a)
  /\ UNCHANGED <<variant, answers, mids, subscribed, waits, bwe, str0m, endpoint, room>>

\* The answer of the endpoint (on_transport_rpc_res): only an SDK session tells
\* its client, and the answer to the transport's own join is told as well.
EndpointAnswers(id) ==
  /\ id \in endpoint.rpc /\ ~is_empty
  /\ endpoint' = [endpoint EXCEPT !.rpc = @ \ {id}]
  /\ Push(IF variant = "sdk" THEN <<SendEvent(id)>> ELSE <<>>)
  /\ UNCHANGED <<variant, state, at, answers, mids, subscribed, waits, remote_tracks, local_tracks,
                 bwe, str0m, room, requests>>

-----------------------------------------------------------------------------
(* TransportWebrtc::on_input, Ext: the requests of the node API.           *)

\* on_shutdown of the internals; whip and whep look at Disconnected only.
on_shutdown ==
  LET ends == IF variant = "sdk" THEN ~is_shutdown ELSE state # "Disconnected"
  IN  /\ state' = IF ends THEN "Disconnected" ELSE state
      /\ at' = IF ends THEN 0 ELSE at
      /\ Push(IF ends THEN <<Tell("Disconnected")>> ELSE <<>>)

\* RemoteIce adds candidates, RestartIce accepts a new offer or not, Disconnect
\* shuts the internal down; each is answered with its request id.
ApiAsks(kind) ==
  /\ Alive /\ Len(requests) < MaxReqs
  /\ Ask(kind)
  /\ answers' = Append(answers, Out("Ext", Id, NoTrack))
  /\ IF kind = "ApiDisconnect" THEN on_shutdown ELSE UNCHANGED <<state, at, queue>>
  /\ UNCHANGED <<variant, mids, subscribed, waits, remote_tracks, local_tracks, bwe, str0m,
                 endpoint, room>>

\* TransportWebrtc::on_shutdown: the node stops.
Shutdown ==
  /\ Alive /\ on_shutdown
  /\ UNCHANGED <<variant, answers, mids, subscribed, waits, remote_tracks, local_tracks, bwe,
                 str0m, endpoint, room, requests>>

-----------------------------------------------------------------------------
(* pop_output: the answers of the API first, then the internal's outputs.  *)

Answered(id) == requests' = [requests EXCEPT ![id].answers = @ + 1]

\* What the endpoint does with an output.
Taken(o) ==
  CASE o.op = "State"    -> [endpoint EXCEPT !.told = o.arg]
    [] o.op = "Started"  -> [endpoint EXCEPT !.started = @ \union {o.arg}]
    [] o.op = "Ended"    -> [endpoint EXCEPT !.started = @ \ {o.arg}]
    [] o.op = "Media"    -> [endpoint EXCEPT !.early = @ \/ o.arg \notin endpoint.started]
    [] o.op = "Rpc"      -> [endpoint EXCEPT !.rpc = @ \union {o.id}]
    [] o.op = "Attach"   -> [endpoint EXCEPT !.attached[KindOf[o.arg]] = o.arg]
    [] o.op = "Detach"   -> [endpoint EXCEPT !.attached[o.arg] = NoTrack]
    [] OTHER             -> endpoint

\* process_internal_output, SetRemoteSdp: str0m accepts the offer, and its new
\* media lines, or refuses it; on_rpc_res answers the client.
SetRemoteSdp(id, rest) ==
  \/ /\ str0m' = [str0m EXCEPT !.senders = Len(remote_tracks), !.receivers = Len(local_tracks)]
     /\ queue' = Append(rest, SendEvent(id))
  \/ UNCHANGED str0m /\ queue' = Append(rest, SendEvent(id))

PopAnswer ==
  /\ answers # <<>>
  /\ answers' = Tail(answers) /\ Answered(Head(answers).id)
  /\ UNCHANGED <<queue, endpoint, str0m>>

PopInternal ==
  /\ answers = <<>> /\ queue # <<>> /\ UNCHANGED answers
  /\ LET o == Head(queue)
     IN  /\ endpoint' = Taken(o)
         /\ IF o.op = "Sdp" THEN SetRemoteSdp(o.id, Tail(queue))
                            ELSE queue' = Tail(queue) /\ UNCHANGED str0m
         /\ IF o.op = "Data" /\ o.id > 0 THEN Answered(o.id) ELSE UNCHANGED requests

Pop ==
  /\ PopAnswer \/ PopInternal
  /\ UNCHANGED <<variant, state, at, mids, subscribed, waits, remote_tracks, local_tracks, bwe, room>>

Gone == is_empty /\ UNCHANGED vars

-----------------------------------------------------------------------------
Next ==
  \/ Tick \/ Connected \/ ChannelClose \/ SenderAdded \/ ReceiverAdded \/ RtpPacket
  \/ Estimate \/ SendVideo \/ EndpointEvent \/ RoomEvent \/ ClientAsks \/ Shutdown \/ Pop \/ Gone
  \/ \E ice \in {"Connected", "Disconnected"} : on_str0m_state(ice)
  \/ \E k \in Kinds : MediaAdded(k)
  \/ \E t \in Tracks : RoomChanges(t)
  \/ \E id \in endpoint.rpc : EndpointAnswers(id)
  \/ \E kind \in {"RemoteIce", "RestartIce", "ApiDisconnect"} : ApiAsks(kind)

Spec == Init /\ [][Next]_vars

Answers == \E id \in endpoint.rpc : EndpointAnswers(id)

\* The worker pops outputs and ticks forever, and the endpoint answers.
Fairness == WF_vars(Pop) /\ SF_vars(Tick) /\ WF_vars(Answers)

-----------------------------------------------------------------------------
(* Properties.                                                             *)

TypeOK ==
  /\ variant \in {"whip", "whep", "sdk"}
  /\ state \in ended \union {"New", "Connecting", "Connected", "Reconnecting"}
  /\ at \in 0..(Timeout - 1)
  /\ Len(queue) <= MaxQueue + MaxReqs + 2
  /\ mids \subseteq Kinds
  /\ subscribed \in [Kinds -> Tracks \union {NoTrack}]
  /\ bwe.stage \in {"Inactive", "WarmUp", "Active"}
  /\ bwe.age \in 0..WarmUp /\ bwe.last \in 0..BweTimeout
  /\ endpoint.rpc \subseteq 0..MaxReqs

\* No request, of the client over its data channel or of the node API, is
\* answered twice, whether the transport, str0m or the endpoint answers it
\* (send_rpc_res, on_rpc_res, on_transport_rpc_res, ExtOut).
AnsweredOnce == \A id \in DOMAIN requests : requests[id].answers <= 1

\* The endpoint gets media of a remote track only after the transport told it
\* that the track started (on_str0m_media_added, on_sender_req, RtpPacket).
MediaAfterStart == ~endpoint.early

\* A WHEP viewer is attached to tracks of one peer at any moment, also while
\* tracks of several peers start and stop (try_subscribe, try_unsubscribe).
OnePeer ==
  \A j, k \in Kinds : LET a == endpoint.attached
                      IN  (a[j] # NoTrack /\ a[k] # NoTrack) => PeerOf[a[j]] = PeerOf[a[k]]

\* Once the events of the room are handled, a WHEP viewer is attached to the
\* tracks it believes it follows, and they are live, except for a track that
\* stopped while it waited for its media line (the waits are not searched).
FollowsRoom ==
  (variant = "whep" /\ ~is_shutdown /\ queue = <<>> /\ room.events = <<>>) =>
    \A k \in Kinds : /\ endpoint.attached[k] = subscribed[k]
                      /\ subscribed[k] \in {NoTrack} \union room.live \union room.missed

\* Every track of an SDK session has an id of its own and gets the media line
\* that the client negotiated for it, also when tracks are added by later offers
\* and some offers are refused (on_session_req, on_str0m_media_added).
LinesMatch ==
  \A tracks \in {remote_tracks, local_tracks} :
    \A i \in DOMAIN tracks : /\ tracks[i].mid \in {0, i}
                              /\ \A j \in DOMAIN tracks : tracks[i].id = tracks[j].id => i = j

\* While video is sent, the estimate is not held at zero: BweState is inactive
\* only if no video packet was sent for its timeout.
Awake == endpoint.video < BweTimeout => bwe.stage # "Inactive"

\* No session stays half open: it is connected again and again, or it ends by
\* its timeouts and its last outputs leave (on_tick, is_empty).
Ends == []<>(state = "Connected" \/ is_empty)

\* Every request is answered as long as the session is there, except a features
\* request without a mixer request, which on_str0m_channel_event drops.
AllAnswered ==
  []<>(is_empty \/ \A id \in DOMAIN requests :
                     requests[id].answers > 0 \/ requests[id].dropped)

=============================================================================
