----------------------------- MODULE ManualMixer -----------------------------
(***************************************************************************)
(* The manual audio mixing of one room on one node: the requests of the    *)
(* endpoints (endpoint/internal.rs), the controls they become on their way *)
(* to the room, and the room's mixers, one task for each endpoint in       *)
(* manual mode (room/audio_mixer.rs with manual.rs), which share the       *)
(* node's subscriptions to the sources' channels.                          *)
(*                                                                         *)
(* A source stands for its channel.  The outputs of a mixer are popped     *)
(* before the room's next input, so they are part of the input's action.   *)
(* Whether the runtime's task group reports a mixer that lost its last     *)
(* source while its endpoint is still in the room is not decided by this   *)
(* code: "idle" chooses.                                                   *)
(***************************************************************************)
EXTENDS AudioMixer

CONSTANTS
  Endpoints,
  Sources,       \* remote audio tracks
  Levels,        \* audio levels of packets, None among them
  Slots,         \* outputs of a mixer
  TickInterval,  \* TICK_INTERVAL of the room's mixer, in the unit of SlotTimeout
  MaxControls    \* bound: controls of an endpoint under way

VARIABLES
  joined,           \* EndpointInternal.joined: "no", "plain" or "manual"
  asked,            \* sources an endpoint was told it has attached (history)
  ctrls,            \* controls under way to the room, per endpoint
  members,          \* endpoints in the room
  manual_mode,      \* endpoint -> index of its task
  tasks,            \* index -> ManualMixer: sources and mixer
  manual_channels,  \* channel -> indices of the tasks that have it
  sdn,              \* channels the node is subscribed to
  told,             \* what an endpoint was last told of its slots
  sinceTick,        \* time since last_tick
  panicked,         \* an expect of the room's mixer failed
  idle              \* whether the runtime reports idle mixers early

vars == <<joined, asked, ctrls, members, manual_mode, tasks, manual_channels, sdn, told, sinceTick, panicked, idle>>
room == <<members, manual_mode, tasks, manual_channels, sdn, told, sinceTick, panicked>>

Untold == [i \in 0 .. Slots - 1 |-> None]
Task(S, m) == [sources |-> S, mixer |-> m]
Control(op, mode, S) == [op |-> op, mode |-> mode, sources |-> S]

-----------------------------------------------------------------------------
(* The endpoint: requests are answered at once and become controls. *)

Send(e, c) ==
  /\ Len(ctrls[e]) + Len(c) <= MaxControls
  /\ ctrls' = [ctrls EXCEPT ![e] = @ \o c]

\* on_transport_rpc JoinRoom: an endpoint that is in a room leaves it first.
JoinReq(e, mode) ==
  /\ Send(e, (IF joined[e] # "no" THEN <<Control("Leave", "no", {})>> ELSE <<>>) \o <<Control("Join", mode, {})>>)
  /\ joined' = [joined EXCEPT ![e] = mode]
  /\ asked' = [asked EXCEPT ![e] = {}]
  /\ UNCHANGED <<room, idle>>

\* LeaveRoom, and the end of the endpoint.
LeaveReq(e) ==
  /\ joined[e] # "no"
  /\ Send(e, <<Control("Leave", "no", {})>>)
  /\ joined' = [joined EXCEPT ![e] = "no"]
  /\ asked' = [asked EXCEPT ![e] = {}]
  /\ UNCHANGED <<room, idle>>

\* AudioMixer Attach and Detach: an error unless the endpoint joined in manual mode.
MixerReq(e, op, S) ==
  IF joined[e] = "manual"
  THEN /\ Send(e, <<Control(op, "no", S)>>)
       /\ asked' = [asked EXCEPT ![e] = IF op = "Attach" THEN @ \union S ELSE @ \ S]
       /\ UNCHANGED <<joined, room, idle>>
  ELSE UNCHANGED vars

\* SubscribePeer, UnsubscribePeer and the five requests on message channels.
RoomReq(e) ==
  IF joined[e] # "no"
  THEN Send(e, <<Control("Other", "no", {})>>) /\ UNCHANGED <<joined, asked, room, idle>>
  ELSE UNCHANGED vars

-----------------------------------------------------------------------------
(* The room. *)

Indices == 0 .. 2 * Cardinality(Endpoints)
Free_index(t) == CHOOSE i \in Indices \ DOMAIN t : \A j \in Indices \ DOMAIN t : i <= j

\* pop_output, SubAuto: the first task of a channel subscribes the node.
Subscribed(ch, i, S) ==
  [c \in DOMAIN ch \union S |-> IF c \in S THEN (IF c \in DOMAIN ch THEN Append(ch[c], i) ELSE <<i>>) ELSE ch[c]]

Removed(s, i) == SelectSeq(s, LAMBDA j : j # i)

\* The channel is given up as soon as one task has.
Unsubscribed_MutantFirst(ch, i, S) == [c \in DOMAIN ch \ S |-> ch[c]]

\* UnsubAuto: the last one unsubscribes it.
Unsubscribed(ch, i, S) ==
  [c \in {d \in DOMAIN ch : d \notin S \/ Removed(ch[d], i) # <<>>} |-> IF c \in S THEN Removed(ch[c], i) ELSE ch[c]]

\* "Manual channel map not found", "Subscribed task not found".
Missing(ch, i, S) == \E c \in S : c \notin DOMAIN ch \/ \A k \in DOMAIN ch[c] : ch[c][k] # i

\* OnResourceEmpty: the task is removed.
Settled(t, i, left) == IF t[i].sources = {} /\ (left \/ idle) THEN Without(t, i) ELSE t

\* on_join; in manual mode the endpoint gets a task.
on_join(e, mode) ==
  /\ members' = members \union {e}
  /\ IF mode # "manual" THEN UNCHANGED <<manual_mode, tasks, panicked>>
     ELSE LET i == Free_index(tasks) IN
          /\ tasks' = With(tasks, i, Task({}, NewMixer(Slots)))
          /\ manual_mode' = With(manual_mode, e, i)
          /\ panicked' = (panicked \/ e \in DOMAIN manual_mode)
  /\ told' = [told EXCEPT ![e] = Untold]
  /\ UNCHANGED <<manual_channels, sdn>>

\* attach: for the sources the task does not have.
attach(i, S) ==
  LET new == S \ tasks[i].sources IN
  /\ tasks' = Settled([tasks EXCEPT ![i] = Task(@.sources \union new, @.mixer)], i, FALSE)
  /\ manual_channels' = Subscribed(manual_channels, i, new)
  /\ sdn' = sdn \union new

\* detach, and LeaveRoom for all sources; the mixer keeps the source in its slot.
detach(i, S, left) ==
  LET gone == S \intersect tasks[i].sources IN
  /\ tasks' = Settled([tasks EXCEPT ![i] = Task(@.sources \ gone, @.mixer)], i, left)
  /\ manual_channels' = Unsubscribed(manual_channels, i, gone)
  /\ sdn' = sdn \ {c \in gone : c \notin DOMAIN manual_channels'}
  /\ panicked' = (panicked \/ Missing(manual_channels, i, gone))

\* on_control: the endpoint's task, if there is one, gets the sources.
on_control(e, op, S) ==
  LET i == manual_mode[e] IN
  /\ IF e \notin DOMAIN manual_mode THEN panicked' = TRUE /\ UNCHANGED <<tasks, manual_channels, sdn>>
     ELSE IF i \notin DOMAIN tasks THEN UNCHANGED <<tasks, manual_channels, sdn, panicked>>
     ELSE IF op = "Attach" THEN attach(i, S) /\ UNCHANGED panicked
     ELSE detach(i, S, FALSE)
  /\ UNCHANGED <<members, manual_mode, told>>

\* on_leave: all sources of the endpoint's task are given up.
on_leave(e) ==
  /\ members' = members \ {e}
  /\ manual_mode' = Without(manual_mode, e)
  /\ IF e \in DOMAIN manual_mode /\ manual_mode[e] \in DOMAIN tasks
     THEN detach(manual_mode[e], Sources, TRUE)
     ELSE UNCHANGED <<tasks, manual_channels, sdn, panicked>>
  /\ told' = [told EXCEPT ![e] = Untold]

\* The room takes an endpoint's next control.
Deliver(e) ==
  LET c == Head(ctrls[e]) IN
  /\ ctrls[e] # <<>>
  /\ ctrls' = [ctrls EXCEPT ![e] = Tail(@)]
  /\ CASE c.op = "Join" -> on_join(e, c.mode)
       [] c.op = "Leave" -> on_leave(e)
       [] c.op \in {"Attach", "Detach"} -> on_control(e, c.op, c.sources)
       [] c.op = "Other" -> UNCHANGED <<members, manual_mode, tasks, manual_channels, sdn, told, panicked>>
  /\ UNCHANGED <<joined, asked, sinceTick, idle>>

-----------------------------------------------------------------------------
(* Packets and time. *)

Owner(i) == {e \in DOMAIN manual_mode : manual_mode[e] = i}

\* on_source_pkt: SourceChanged and SlotSet when the slot was just set.
on_source_pkt(i, c, level) == on_pkt(tasks[i].mixer, c, level)

Announced(r, i, e) == r.just_set /\ e \in Owner(i)

\* on_pubsub_event: every task of the channel gets the packet.
Packet(c, level) ==
  LET tos == IF c \in DOMAIN manual_channels THEN {manual_channels[c][k] : k \in DOMAIN manual_channels[c]} ELSE {}
      R   == [i \in tos \intersect DOMAIN tasks |-> on_source_pkt(i, c, level)] IN
  /\ tos # {}
  /\ tasks' = [i \in DOMAIN tasks |-> IF i \in DOMAIN R THEN Task(tasks[i].sources, R[i].mixer) ELSE tasks[i]]
  /\ told' = [e \in Endpoints |->
                [k \in DOMAIN told[e] |->
                   IF \E i \in DOMAIN R : Announced(R[i], i, e) /\ R[i].slot = k THEN c ELSE told[e][k]]]
  /\ panicked' = (panicked \/ \E i \in DOMAIN R : R[i].just_set /\ c \notin tasks[i].sources)
  /\ UNCHANGED <<joined, asked, ctrls, members, manual_mode, manual_channels, sdn, sinceTick, idle>>

Advance ==
  /\ sinceTick' = IF sinceTick < TickInterval THEN sinceTick + 1 ELSE sinceTick
  /\ tasks' = [i \in DOMAIN tasks |-> Task(tasks[i].sources, Older(tasks[i].mixer))]
  /\ UNCHANGED <<joined, asked, ctrls, members, manual_mode, manual_channels, sdn, told, panicked, idle>>

\* on_tick: slots of sources that timed out are cleared, and SlotUnset tells.
Tick ==
  /\ sinceTick >= TickInterval
  /\ sinceTick' = 0
  /\ tasks' = [i \in DOMAIN tasks |-> Task(tasks[i].sources, on_tick(tasks[i].mixer))]
  /\ told' = [e \in Endpoints |->
                [k \in DOMAIN told[e] |->
                   IF \E i \in DOMAIN tasks : e \in Owner(i) /\ k \in Cleared(tasks[i].mixer) THEN None ELSE told[e][k]]]
  /\ UNCHANGED <<joined, asked, ctrls, members, manual_mode, manual_channels, sdn, panicked, idle>>

Init ==
  /\ joined = [e \in Endpoints |-> "no"] /\ asked = [e \in Endpoints |-> {}]
  /\ ctrls = [e \in Endpoints |-> <<>>] /\ members = {}
  /\ manual_mode = Empty /\ tasks = Empty /\ manual_channels = Empty /\ sdn = {}
  /\ told = [e \in Endpoints |-> Untold] /\ sinceTick = 0 /\ panicked = FALSE
  /\ idle \in BOOLEAN

Next ==
  \/ \E e \in Endpoints, mode \in {"plain", "manual"} : JoinReq(e, mode)
  \/ \E e \in Endpoints : LeaveReq(e) \/ RoomReq(e) \/ Deliver(e)
  \/ \E e \in Endpoints, op \in {"Attach", "Detach"}, S \in (SUBSET Sources) \ {{}} : MixerReq(e, op, S)
  \/ \E c \in Sources, level \in Levels : Packet(c, level)
  \/ Advance
  \/ Tick

Spec == Init /\ [][Next]_vars

-----------------------------------------------------------------------------
(* Properties *)

\* None of the expectations of the room's mixer fails ("Manual mixer not found for
\* control", "Manual mixer for endpoint already exist", "Manual channel map not
\* found", "Subscribed task not found", "Missing source info for channel"), and a
\* control finds its endpoint in the room, whatever the endpoints request while
\* earlier controls are under way.
NoExpectFails ==
  /\ ~panicked
  /\ \A e \in Endpoints : ctrls[e] # <<>> /\ Head(ctrls[e]).op # "Join" => e \in members

\* The node is subscribed to a channel exactly while some mixer has it, and the
\* channel lists each of these mixers once (pop_output counts SubAuto and
\* UnsubAuto for the tasks of the room).
ChannelsShared ==
  /\ sdn = DOMAIN manual_channels
  /\ sdn = UNION {tasks[i].sources : i \in DOMAIN tasks}
  /\ \A c \in sdn : /\ {manual_channels[c][k] : k \in DOMAIN manual_channels[c]} = {i \in DOMAIN tasks : c \in tasks[i].sources}
                    /\ Len(manual_channels[c]) = Cardinality({i \in DOMAIN tasks : c \in tasks[i].sources})

\* Once its controls have arrived, the mixer of an endpoint has exactly the sources
\* the endpoint was told it has attached, and the endpoint was told the source of
\* every slot ("each peer has separated mixer logic").
SourcesAsAsked ==
  \A e \in Endpoints : ctrls[e] = <<>> /\ joined[e] = "manual" /\ ~idle =>
    /\ e \in DOMAIN manual_mode /\ manual_mode[e] \in DOMAIN tasks
    /\ LET t == tasks[manual_mode[e]] IN
       /\ t.sources = asked[e]
       /\ \A k \in DOMAIN told[e] : told[e][k] = IF t.mixer.outputs[k] = None THEN None ELSE t.mixer.outputs[k].source
=============================================================================
