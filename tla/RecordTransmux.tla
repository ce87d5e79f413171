--------------------------- MODULE RecordTransmux ---------------------------
(***************************************************************************)
(* A convert job (media_record bin/convert_record_worker.rs, convert.rs)   *)
(* and its first half, the transmuxer (convert/transmuxer.rs,              *)
(* track_writer.rs): a task per recorded session writes a file per track   *)
(* and tells the main task over a channel of one place; the main task      *)
(* builds the summary, uploads the files and removes them.                 *)
(* Composing, the second half, is RecordCompose; here it has an outcome.   *)
(* A track's name stands for it, in the summary and in its files' names.   *)
(***************************************************************************)
EXTENDS RecordReader

CONSTANTS
    Sessions,   \* recorded sessions of the room
    Files,      \* chunk files of a session
    MaxFaults   \* bound on requests and reads that fail

VARIABLES
    cfg,        \* what the job asks for: transmux, its place, and compose
    phase,      \* what the job is doing
    hooks,      \* events told to the app's hook
    task,       \* the sessions' tasks
    chan,       \* the channel of the tasks, one place
    summary,    \* TransmuxSummary: session -> timeline of its tracks
    local,      \* files in the local folder
    sent,       \* timeline entries whose file was uploaded: session and place
    faults

vars == <<cfg, phase, hooks, task, chan, summary, local, sent, faults>>

Dead == {"dead", "ended"}
NewTask == [state |-> "waiting", reader |-> Connected(Files), meta |-> {}, writers |-> {}, told |-> <<>>]
File(s, id, ts) == [session |-> s, track |-> id, ts |-> ts]

\* create_job: the app is told that the job has started.
create_job ==
    /\ phase = "asked"
    /\ hooks' = Append(hooks, "started")
    /\ phase' = IF cfg.transmux THEN "listing" ELSE "composing"
    /\ UNCHANGED <<cfg, task, chan, summary, local, sent, faults>>

\* The job is over, and the app is told how it went.
Report(outcome) ==
    /\ phase' = "over" /\ hooks' = Append(hooks, outcome)

\* A list of the room or of a peer that cannot be fetched fails the job; tasks
\* that were started for earlier peers find nobody at the channel, and are left out.
ListFails ==
    /\ phase = "listing" /\ faults < MaxFaults
    /\ Report("failed") /\ faults' = faults + 1
    /\ UNCHANGED <<cfg, task, chan, summary, local, sent>>

\* convert: a task for each session, and no other sender is left.
Spawn ==
    /\ phase = "listing"
    /\ task' = [s \in Sessions |-> [NewTask EXCEPT !.state = "connecting"]]
    /\ phase' = "collecting"
    /\ UNCHANGED <<cfg, hooks, chan, summary, local, sent, faults>>

\* A session whose files cannot be listed is left out.
TaskConnect(s) ==
    /\ task[s].state = "connecting"
    /\ \/ task' = [task EXCEPT ![s].state = "reading"] /\ UNCHANGED faults
       \/ faults < MaxFaults /\ task' = [task EXCEPT ![s].state = "dead"] /\ faults' = faults + 1
    /\ UNCHANGED <<cfg, phase, hooks, chan, summary, local, sent>>

\* TrackWriter::push: the task afterwards, what it tells, and the file it makes.
\* The file is made with the first packet of a track that was started, and told
\* then; the stop of a track without a file is not told.
push(s, t, row) ==
    LET id == row.ev.track
        same == [t |-> t, event |-> <<>>, file |-> {}] IN
    CASE row.ev.kind = "start" -> [same EXCEPT !.t.meta = @ \cup {id}]
      [] row.ev.kind = "stop" ->
            [same EXCEPT !.t.meta = @ \ {id}, !.t.writers = IF id \in t.meta THEN @ \ {id} ELSE @,
                         !.event = IF id \in t.meta /\ id \in t.writers THEN <<[kind |-> "stop", session |-> s, track |-> id, ts |-> row.ts]>> ELSE <<>>]
      [] row.ev.kind = "media" ->
            IF id \in t.writers \/ id \notin t.meta THEN same
            ELSE [t |-> [t EXCEPT !.writers = @ \cup {id}],
                  event |-> <<[kind |-> "start", session |-> s, track |-> id, ts |-> row.ts]>>, file |-> {File(s, id, row.ts)}]

\* A task reads a row and handles it; an event waits for a place in the channel.
\* A first packet of H264 ends the task: there is no writer for it.
TaskRead(s) ==
    /\ task[s].state = "reading"
    /\ \E o \in pop(task[s].reader, MaxFaults - faults) :
          /\ faults' = faults + o.bad
          /\ LET t == [task[s] EXCEPT !.reader = o.r] IN
             IF o.row = <<>> THEN task' = [task EXCEPT ![s] = [t EXCEPT !.state = "ended"]] /\ UNCHANGED local
             ELSE IF o.row[1].ev.kind = "h264"
             THEN /\ task' = [task EXCEPT ![s] = IF o.row[1].ev.track \in t.meta \ t.writers THEN [t EXCEPT !.state = "dead"] ELSE t]
                  /\ UNCHANGED local
             ELSE LET p == push(s, t, o.row[1]) IN
                  /\ task' = [task EXCEPT ![s] = IF p.event = <<>> THEN p.t ELSE [p.t EXCEPT !.told = p.event, !.state = "sending"]]
                  /\ local' = local \cup p.file
    /\ UNCHANGED <<cfg, phase, hooks, chan, summary, sent>>

\* The task tells the main task.
TaskSend(s) ==
    /\ task[s].state = "sending" /\ Len(chan) < 1
    /\ chan' = chan \o task[s].told
    /\ task' = [task EXCEPT ![s].told = <<>>, ![s].state = "reading"]
    /\ UNCHANGED <<cfg, phase, hooks, summary, local, sent, faults>>

\* The timeline of a session: a start opens an entry of the track, and a stop
\* closes the track's last one, unless it is closed.
Noted(sum, e) ==
    LET mine == {i \in DOMAIN sum : sum[i].track = e.track} IN
    IF e.kind = "start" THEN Append(sum, [track |-> e.track, start |-> e.ts, end |-> -1])
    ELSE IF mine = {} THEN sum
    ELSE LET last == CHOOSE i \in mine : \A j \in mine : j <= i IN
         IF sum[last].end = -1 THEN [sum EXCEPT ![last].end = e.ts] ELSE sum

\* The main task takes an event.
Collect ==
    /\ phase = "collecting" /\ chan # <<>>
    /\ summary' = [summary EXCEPT ![chan[1].session] = Noted(@, chan[1])]
    /\ chan' = Tail(chan)
    /\ UNCHANGED <<cfg, phase, hooks, task, local, sent, faults>>

\* The first task that ends closes the channel.
Collected_MutantFirst ==
    /\ phase = "collecting" /\ chan = <<>>
    /\ \E s \in Sessions : task[s].state \in Dead
    /\ phase' = IF cfg.s3 THEN "uploading" ELSE "composing"
    /\ UNCHANGED <<cfg, hooks, task, chan, summary, local, sent, faults>>

\* All tasks are over, and with them the channel: the summary is complete.  It is
\* put to the output, or written beside the files; if it cannot be, the job fails.
Collected ==
    /\ phase = "collecting" /\ chan = <<>>
    /\ \A s \in Sessions : task[s].state \in Dead
    /\ \/ phase' = (IF cfg.s3 THEN "uploading" ELSE "composing") /\ UNCHANGED <<hooks, faults>>
       \/ faults < MaxFaults /\ faults' = faults + 1 /\ Report("failed")
    /\ UNCHANGED <<cfg, task, chan, summary, local, sent>>

Entries == UNION {{<<s, i>> : i \in DOMAIN summary[s]} : s \in Sessions}
Path(e) == File(e[1], summary[e[1]][e[2]].track, summary[e[1]][e[2]].start)

\* The files of the summary are uploaded one by one, each removed once it is; an
\* upload that fails, or finds no file, fails the job.
UploadFile ==
    /\ phase = "uploading"
    /\ \E e \in Entries \ sent :
          \/ Path(e) \in local /\ sent' = sent \cup {e} /\ local' = local \ {Path(e)} /\ UNCHANGED <<phase, hooks, faults>>
          \/ Path(e) \notin local /\ Report("failed") /\ UNCHANGED <<sent, local, faults>>
          \/ faults < MaxFaults /\ faults' = faults + 1 /\ Report("failed") /\ UNCHANGED <<sent, local>>
    /\ UNCHANGED <<cfg, task, chan, summary>>

Uploaded ==
    /\ phase = "uploading" /\ Entries \subseteq sent
    /\ phase' = "composing"
    /\ UNCHANGED <<cfg, hooks, task, chan, summary, local, sent, faults>>

\* convert: what is asked for is composed; the job completes if that did.  A
\* panic while composing ends the task, and the app is told nothing more.
Convert ==
    /\ phase = "composing"
    /\ \/ Report("completed") /\ UNCHANGED faults
       \/ cfg.compose /\ faults < MaxFaults /\ Report("failed") /\ faults' = faults + 1
       \/ cfg.compose /\ faults < MaxFaults /\ phase' = "over" /\ faults' = faults + 1 /\ UNCHANGED hooks
    /\ UNCHANGED <<cfg, task, chan, summary, local, sent>>

------------------------------------------------------------------------------
Init ==
    /\ cfg \in [transmux : BOOLEAN, s3 : BOOLEAN, compose : BOOLEAN]
    /\ phase = "asked" /\ hooks = <<>>
    /\ task = [s \in Sessions |-> NewTask]
    /\ chan = <<>> /\ summary = [s \in Sessions |-> <<>>]
    /\ local = {} /\ sent = {} /\ faults = 0

Next ==
    \/ create_job \/ ListFails \/ Spawn \/ Collect \/ Collected \/ UploadFile \/ Uploaded \/ Convert
    \/ \E s \in Sessions : TaskConnect(s) \/ TaskRead(s) \/ TaskSend(s)

Spec == Init /\ [][Next]_vars

\* The tasks of the job run on.
Fairness == WF_vars(Next)

------------------------------------------------------------------------------
(* Properties *)

\* The channel has one place, and the app is told at most a start and an end.
TypeOK == Len(chan) <= 1 /\ Len(hooks) <= 2 /\ (hooks # <<>> => hooks[1] = "started")

\* Once the summary is complete it lists every file a task made, also those of
\* sessions that ended early: none is left in the local folder unlisted.
FilesListed ==
    phase \in {"uploading", "composing"} /\ cfg.transmux =>
        local \subseteq {Path(e) : e \in Entries} /\ \A s \in Sessions : task[s].state \in Dead

\* The times of a track's files do not overlap: an entry is closed before the next
\* one of the track is opened.
TimelineInOrder ==
    \A s \in Sessions : \A i, j \in DOMAIN summary[s] :
        i < j /\ summary[s][i].track = summary[s][j].track =>
            summary[s][i].end \in summary[s][i].start .. summary[s][j].start

\* "after upload to s3 successfully, it will be removed in local": a file of the
\* summary is in the local folder until it was uploaded.
KeptUntilUploaded == \A e \in Entries : Path(e) \in local \/ \E x \in sent : Path(x) = Path(e)

\* A job that is reported completed has uploaded every file of its summary.
CompletedIsWhole ==
    cfg.transmux /\ cfg.s3 /\ "completed" \in {hooks[i] : i \in DOMAIN hooks} => Entries \subseteq sent

\* The job comes to an end, whatever its sessions' tasks meet.
Ends == <>(phase = "over")
==============================================================================
