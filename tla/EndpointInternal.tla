-------------------------- MODULE EndpointInternal --------------------------
(***************************************************************************)
(* EndpointInternal, the session logic of one endpoint, as operators on    *)
(* its state: each handler maps a state (i) to the next one.               *)
(*                                                                         *)
(* Every local and remote track of the endpoint is a task of a task group  *)
(* with its own output queue.  The internal routes transport events,       *)
(* requests and room changes to the tasks through index, collects their    *)
(* outputs into out, and keeps the bitrate allocators informed.  Only the  *)
(* outputs that go to the room or to the allocators are kept; answers to   *)
(* requests, peer events, record events and events for the transport have  *)
(* no effect on them.  Every track is taken to be a video track: the       *)
(* allocators ignore the others.                                           *)
(***************************************************************************)
EXTENDS ControlStream, SequencesExt

CONSTANTS
  Rooms,     \* ClusterRoomHash of the rooms
  Locals,    \* LocalTrackId
  Remotes,   \* RemoteTrackId
  Targets,   \* (peer, track name) pairs a local track may view
  None       \* Option::None

OwnTracks == Locals \union Remotes

\* A cluster control of a track (Subscribe, Unsubscribe, Feedback for
\* RequestKeyFrame and DesiredBitrate, Started, Ended, Media) or of the
\* endpoint (Join, Leave).
Control(op, room, track, target) == [op |-> op, room |-> room, track |-> track, target |-> target]

\* What a task tells the allocators: Bind, Updated, Started and Update set
\* the share of its track, Unbind and Stopped delete it.
Share(op, track) == [op |-> op, room |-> None, track |-> track, target |-> None]

IsShare(o) == o.op \in {"SetShare", "DelShare"}

IsControl(o) == ~IsShare(o)

\* EndpointInternal::new.
NewInternal ==
  [state |-> "None", waitJoin |-> None, joined |-> None, tasks |-> Empty, index |-> Empty,
   shares |-> {}, out |-> <<>>, shutdown |-> FALSE, made |-> 0]

NewTask(track, room) == [track |-> track, room |-> room, bind |-> None, queue |-> <<>>, shutdown |-> FALSE]

Push(k, outs) == [k EXCEPT !.queue = @ \o outs]

-----------------------------------------------------------------------------
(* The handlers of one track task k.                                       *)

\* on_join_room: a remote track announces itself, a local one waits for Attach.
TaskJoin(k, r) ==
  [Push(k, IF k.track \in Remotes THEN <<Control("Started", r, k.track, None)>> ELSE <<>>)
     EXCEPT !.room = r]

\* on_leave_room: what the track does in the room is undone.  A local track
\* that lets go here keeps its bitrate share.
TaskLeave(k) ==
  [Push(k, IF k.track \in Remotes THEN <<Control("Ended", k.room, k.track, None)>>
           ELSE IF k.bind # None THEN <<Control("Unsubscribe", k.room, k.track, None)>>
           ELSE <<>>)
     EXCEPT !.room = None, !.bind = None]

\* A task that is in no room skips its shutdown.
TaskShutdown_Mutant(k) ==
  IF k.shutdown \/ k.room = None THEN k ELSE [TaskLeave(k) EXCEPT !.shutdown = TRUE]

\* on_shutdown of a task.
TaskShutdown(k) ==
  IF k.shutdown THEN k
  ELSE [(IF k.room # None THEN TaskLeave(k) ELSE k) EXCEPT !.shutdown = TRUE]

\* on_rpc_req Attach of a local track: the current source is let go first.  A
\* request with priority 0 is refused and changes nothing.
TaskAttach(k, s) ==
  IF k.room = None THEN k
  ELSE [Push(k, (IF k.bind = None THEN <<>>
                 ELSE <<Control("Unsubscribe", k.room, k.track, None), Share("DelShare", k.track)>>)
                \o <<Share("SetShare", k.track), Control("Subscribe", k.room, k.track, s)>>)
          EXCEPT !.bind = s]

\* on_rpc_req Detach of a local track.
TaskDetach(k) ==
  IF k.room = None \/ k.bind = None THEN k
  ELSE [Push(k, <<Share("DelShare", k.track), Control("Unsubscribe", k.room, k.track, None)>>)
          EXCEPT !.bind = None]

\* on_rpc_req Config of either kind of track.
TaskConfig(k) == Push(k, <<Share("SetShare", k.track)>>)

\* RequestKeyFrame of the transport, RelayChanged of the room and SetBitrate of
\* the allocator, for a local track; Media for a remote one.
TaskForward(k, op) == IF k.room = None THEN k ELSE Push(k, <<Control(op, k.room, k.track, None)>>)

\* RemoteTrackEvent::Started.
TaskStarted(k) ==
  IF k.room = None THEN k
  ELSE Push(k, <<Control("Started", k.room, k.track, None), Share("SetShare", k.track)>>)

\* RemoteTrackEvent::Ended: outside a room the task returns before it shuts down.
TaskEnded(k) ==
  IF k.room = None THEN k
  ELSE [Push(k, <<Control("Ended", k.room, k.track, None)>>) EXCEPT !.shutdown = TRUE]

-----------------------------------------------------------------------------
(* Routing and collecting.                                                 *)

\* The live tasks index leads to: events for any other are lost.
Indexed(i) == {i.index[t] : t \in DOMAIN i.index} \intersect DOMAIN i.tasks

\* The task of a track, if there is one.
TaskOf(i, t) == IF t \in DOMAIN i.index THEN {i.index[t]} \intersect DOMAIN i.tasks ELSE {}

\* Apply f to the tasks of D.
OnTasks(i, D, f(_)) ==
  [i EXCEPT !.tasks = [n \in DOMAIN i.tasks |-> IF n \in D THEN f(i.tasks[n]) ELSE i.tasks[n]]]

\* set_ or del_ of the egress and ingress allocators.
ShareStep(S, o) ==
  CASE o.op = "SetShare" -> S \union {o.track}
    [] o.op = "DelShare" -> S \ {o.track}
    [] OTHER -> S

\* pop_local_tracks and pop_remote_tracks for the outputs outs.
Collect(i, outs) ==
  [i EXCEPT !.out = @ \o SelectSeq(outs, IsControl),
            !.shares = FoldLeft(ShareStep, @, outs)]

\* The last output of a task that is shut down and drained: Stopped of a
\* remote track deletes its share, OnResourceEmpty of a local one does not.
LastOutput(k) == IF k.track \in Remotes THEN <<Share("DelShare", k.track)>> ELSE <<>>

\* remove_task, and local_tracks_id.remove1 for a local track.
remove_task(i, n) ==
  [i EXCEPT !.tasks = Without(@, n),
            !.index = IF i.tasks[n].track \in Locals THEN Without(@, i.tasks[n].track) ELSE @]

\* One output of task n is popped.
PopTask(i, n) ==
  Collect([i EXCEPT !.tasks[n].queue = Tail(@)], <<Head(i.tasks[n].queue)>>)

\* Task n is shut down and drained.
EndTask(i, n) == Collect(remove_task(i, n), LastOutput(i.tasks[n]))

\* "while let Some(task) = self.switcher.current()": all tasks are drained, in
\* the order they were made.
Drain(i) ==
  LET outs == FlattenSeq([n \in 1..i.made |->
                IF n \notin DOMAIN i.tasks THEN <<>>
                ELSE i.tasks[n].queue \o (IF i.tasks[n].shutdown THEN LastOutput(i.tasks[n]) ELSE <<>>)])
      live == {n \in DOMAIN i.tasks : ~i.tasks[n].shutdown}
      gone == {i.tasks[n].track : n \in DOMAIN i.tasks \ live} \intersect Locals
  IN  Collect([i EXCEPT !.tasks = [n \in live |-> [i.tasks[n] EXCEPT !.queue = <<>>]],
                        !.index = [t \in DOMAIN i.index \ gone |-> i.index[t]]], outs)

-----------------------------------------------------------------------------
(* The handlers of the endpoint.                                           *)

\* Leave is queued while outputs of the tracks still wait in their tasks.
leave_room_Mutant(i) ==
  IF i.joined = None THEN i
  ELSE [OnTasks(i, Indexed(i), TaskLeave)
          EXCEPT !.joined = None, !.out = Append(@, Control("Leave", i.joined, None, None))]

\* leave_room: the tracks leave and are drained, then the endpoint leaves.
leave_room(i) ==
  IF i.joined = None THEN i
  ELSE [Drain(OnTasks(i, Indexed(i), TaskLeave))
          EXCEPT !.joined = None, !.out = Append(@, Control("Leave", i.joined, None, None))]

\* join_room: leave the current room, join, then every known track joins.
join_room(i, r) ==
  LET l == leave_room(i)
      j == [l EXCEPT !.joined = r, !.out = Append(@, Control("Join", r, None, None))]
  IN  OnTasks(j, Indexed(j), LAMBDA k : TaskJoin(k, r))

\* on_shutdown: every task shuts down and is drained, then the endpoint leaves.
on_shutdown(i) ==
  IF i.shutdown THEN i
  ELSE LET d == Drain(OnTasks(i, DOMAIN i.tasks, TaskShutdown))
       IN  [d EXCEPT !.shutdown = TRUE, !.joined = None,
              !.out = IF i.joined = None THEN @ ELSE Append(@, Control("Leave", i.joined, None, None))]

\* on_transport_state_changed.
OnState(i, s) ==
  LET n == [i EXCEPT !.state = s]
  IN  CASE s \in {"ConnectError", "Disconnected"} -> on_shutdown(n)
        [] s = "Connected" /\ i.waitJoin # None -> join_room([n EXCEPT !.waitJoin = None], i.waitJoin)
        [] OTHER -> n

\* on_transport_rpc JoinRoom.
OnJoinReq(i, r) ==
  IF i.state \in {"None", "Connecting"} THEN [i EXCEPT !.waitJoin = r] ELSE join_room(i, r)

\* on_transport_rpc LeaveRoom: a join that still waits is all that is dropped.
OnLeaveReq(i) == IF i.waitJoin # None THEN [i EXCEPT !.waitJoin = None] ELSE leave_room(i)

\* add_task of a track that starts, in the room the endpoint is in.
AddTask(i, t) ==
  [i EXCEPT !.made = @ + 1,
            !.tasks = With(@, i.made + 1, NewTask(t, i.joined)),
            !.index = With(@, t, i.made + 1)]

\* on_transport_local_track and on_transport_remote_track with Started.
OnStarted(i, t) ==
  LET a == AddTask(i, t)
  IN  IF t \in Remotes THEN OnTasks(a, {a.made}, TaskStarted) ELSE a

\* IndexMap2d lookup and on_event for any other event or request of track t.
OnTrack(i, t, f(_)) == OnTasks(i, TaskOf(i, t), f)

\* EndpointInternal::is_empty.
IsEmptyInternal(i) == i.shutdown /\ i.out = <<>> /\ DOMAIN i.tasks = {}
=============================================================================
