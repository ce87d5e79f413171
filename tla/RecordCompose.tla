---------------------------- MODULE RecordCompose ----------------------------
(***************************************************************************)
(* Composing a recorded room into one file (media_record convert/composer, *)
(* mixer_buffer.rs, vpx_writer.rs): the sessions' rows are merged by time  *)
(* with a heap, the audio of all tracks is mixed into frames, and the      *)
(* frames are written.  Samples are left out: a frame counts the rows that *)
(* were mixed into it.                                                     *)
(***************************************************************************)
EXTENDS RecordReader

CONSTANTS
    Sessions,   \* recorded sessions of the room
    Files,      \* chunk files of a session
    Limit,      \* FRAME_QUEUE_LIMIT
    Diff,       \* FRAME_TS_DIFF_ACCEPTABLE
    MaxFaults   \* bound on requests and reads that fail

\* A search for the next row meets one failure at most.
VARIABLES
    cfg,        \* is audio asked for; video alone composes nothing
    reader,     \* the sessions' readers
    heap,       \* sessions in the heap, with their front_ts
    tracks,     \* AudioMixer.tracks: tracks with a decoder
    frames,     \* MixerBuffer.frames
    writer,     \* the file: none, or its first and last time
    status,     \* what compose is doing, or how it ended
    count,      \* rows given to the mixer and rows written (history)
    now,        \* time of the last row (history)
    sorted,     \* were the frames written in the order of their times (history)
    faults

vars == <<cfg, reader, heap, tracks, frames, writer, status, count, now, sorted, faults>>

NoWriter == [start |-> -1, last |-> -1]
Track(s, e) == <<s, e.track>>

\* The sessions are connected and their first rows peeked; an empty one is left out.
Connect(s) ==
    /\ status = "connecting" /\ reader[s].files = -1
    /\ \E o \in peek_ts(Connected(Files), MaxFaults - faults) :
          /\ reader' = [reader EXCEPT ![s] = o.r]
          /\ heap' = IF o.found THEN [heap EXCEPT ![s] = o.r.peek[1].ts] ELSE heap
          /\ faults' = faults + o.bad
    /\ UNCHANGED <<cfg, tracks, frames, writer, status, count, now, sorted>>

Connects ==
    /\ status = "connecting" /\ \A s \in Sessions : reader[s].files >= 0
    /\ status' = "reading"
    /\ UNCHANGED <<cfg, reader, heap, tracks, frames, writer, count, now, sorted, faults>>

\* A list of files that cannot be fetched fails the job.
ConnectFails ==
    /\ status = "connecting" /\ faults < MaxFaults
    /\ status' = "failed" /\ faults' = faults + 1
    /\ UNCHANGED <<cfg, reader, heap, tracks, frames, writer, count, now, sorted>>

\* The top of the heap: a session whose front is the earliest.
Top(s) == heap[s] >= 0 /\ \A x \in Sessions : heap[x] >= 0 => heap[s] <= heap[x]

\* SessionWrapper::pop: the row, and the session's place in the heap, its next row's.
WrapperPop(s) ==
    UNION {IF o.row = <<>> THEN {[r |-> o.r, row |-> <<>>, front |-> heap[s], bad |-> o.bad]}
           ELSE {[r |-> p.r, row |-> o.row, front |-> IF p.found THEN p.r.peek[1].ts ELSE o.row[1].ts, bad |-> o.bad + p.bad]
                 : p \in peek_ts(o.r, MaxFaults - faults - o.bad)}
           : o \in pop(reader[s], MaxFaults - faults)}

\* put_into: the track is not yet in the frame, and the times are close.
put_into(f, track, ts) == track \notin f.tracks /\ ~(f.ts + Diff <= ts \/ ts + Diff <= f.ts)

Mixed(f, track) == [f EXCEPT !.tracks = @ \cup {track}, !.rows = @ + 1]

\* push_data_to_frame: into the first frame that takes it, otherwise into a new
\* one, unless it is older than the first.
push_data_to_frame(fs, track, ts) ==
    LET fits == {i \in DOMAIN fs : put_into(fs[i], track, ts)} IN
    IF fits # {} THEN [fs EXCEPT ![CHOOSE i \in fits : \A j \in fits : i <= j] = Mixed(@, track)]
    ELSE IF fs # <<>> /\ ts < fs[1].ts THEN fs
    ELSE Append(fs, [ts |-> ts, tracks |-> {track}, rows |-> 1])

\* push: the first frame is due once there are more than the limit.
Full(fs) == Len(fs) > Limit

\* push_media of VpxWriter: the file is made with the first frame.
Written(w, f) == IF w = NoWriter THEN [start |-> f.ts, last |-> f.ts] ELSE [w EXCEPT !.last = f.ts]

InOrder(w, f) == w = NoWriter \/ f.ts >= w.last

\* on_media of the mixer, and the frame it gives to the writer.
OnAudio(track, ts) ==
    IF track \notin tracks THEN UNCHANGED <<frames, writer, count, sorted>>
    ELSE LET fs == push_data_to_frame(frames, track, ts)
             due == Full(fs) IN
         /\ frames' = IF due THEN Tail(fs) ELSE fs
         /\ writer' = IF due THEN Written(writer, fs[1]) ELSE writer
         /\ count' = [given |-> count.given + 1, written |-> IF due THEN count.written + fs[1].rows ELSE count.written]
         /\ sorted' = (sorted /\ (due => InOrder(writer, fs[1])))

\* A row of the recording; video is only looked at (video_composer.rs).
Handle(s, row) ==
    LET audio == cfg /\ row.ev.media = "audio" IN
    /\ tracks' = CASE row.ev.kind = "start" /\ audio -> tracks \cup {Track(s, row.ev)}
                   [] row.ev.kind = "stop" /\ cfg -> tracks \ {Track(s, row.ev)}
                   [] OTHER -> tracks
    /\ IF row.ev.kind = "media" /\ audio THEN OnAudio(Track(s, row.ev), row.ts)
       ELSE UNCHANGED <<frames, writer, count, sorted>>

\* The row of the top of the heap is handled.
Read(s) ==
    /\ status = "reading" /\ Top(s)
    /\ \E o \in WrapperPop(s) :
          /\ o.row # <<>>
          /\ reader' = [reader EXCEPT ![s] = o.r]
          /\ heap' = [heap EXCEPT ![s] = o.front]
          /\ faults' = faults + o.bad
          /\ now' = o.row[1].ts
          /\ Handle(s, o.row[1])
    /\ UNCHANGED <<cfg, status>>

\* A session that has no more rows leaves the heap.
ReadEnd(s) ==
    /\ status = "reading" /\ Top(s)
    /\ \E o \in WrapperPop(s) : o.row = <<>> /\ reader' = [reader EXCEPT ![s] = o.r] /\ faults' = faults + o.bad
    /\ heap' = [heap EXCEPT ![s] = -1]
    /\ UNCHANGED <<cfg, tracks, frames, writer, status, count, now, sorted>>

\* The heap is empty: what is left in the mixer is written,
Rest ==
    /\ status = "reading" /\ \A s \in Sessions : heap[s] < 0
    /\ status' = "flushing"
    /\ UNCHANGED <<cfg, reader, heap, tracks, frames, writer, count, now, sorted, faults>>

\* frame by frame; a file that was never made is a panic,
ForcePop ==
    /\ status = "flushing" /\ frames # <<>>
    /\ IF writer = NoWriter THEN status' = "panic" /\ UNCHANGED <<frames, writer, count, sorted>>
       ELSE /\ frames' = Tail(frames)
            /\ writer' = Written(writer, frames[1])
            /\ count' = [count EXCEPT !.written = @ + frames[1].rows]
            /\ sorted' = (sorted /\ InOrder(writer, frames[1]))
            /\ UNCHANGED status
    /\ UNCHANGED <<cfg, reader, heap, tracks, now, faults>>

\* and the file is uploaded; without one the record is empty.
Upload ==
    /\ status = "flushing" /\ frames = <<>>
    /\ \/ writer = NoWriter /\ status' = "failed" /\ UNCHANGED faults
       \/ writer # NoWriter /\ status' = "done" /\ UNCHANGED faults
       \/ writer # NoWriter /\ faults < MaxFaults /\ status' = "failed" /\ faults' = faults + 1
    /\ UNCHANGED <<cfg, reader, heap, tracks, frames, writer, count, now, sorted>>

------------------------------------------------------------------------------
\* convert composes when audio or video is asked for.
Init ==
    /\ cfg \in BOOLEAN
    /\ reader = [s \in Sessions |-> [Connected(-1) EXCEPT !.files = -1]]
    /\ heap = [s \in Sessions |-> -1]
    /\ tracks = {} /\ frames = <<>> /\ writer = NoWriter /\ status = "connecting"
    /\ count = [given |-> 0, written |-> 0] /\ now = 0 /\ sorted = TRUE /\ faults = 0

Next ==
    \/ \E s \in Sessions : Connect(s) \/ Read(s) \/ ReadEnd(s)
    \/ Connects \/ ConnectFails \/ Rest \/ ForcePop \/ Upload

Spec == Init /\ [][Next]_vars

\* The job runs on.
Fairness == WF_vars(Next)

------------------------------------------------------------------------------
(* Properties *)

\* The mixer keeps no more frames than its limit, and a frame has one row of a track.
TypeOK ==
    /\ Len(frames) <= Limit
    /\ \A i \in DOMAIN frames : frames[i].rows = Cardinality(frames[i].tracks)
    /\ heap \in [Sessions -> -1 .. MaxTs]

\* When no read failed, the rows of all sessions are handled in the order of
\* their times (SessionWrapper and the heap).
RowsInOrder == [][faults' = 0 => now' >= now]_vars

\* When no read failed, frames are written in the order of their times, so that
\* the time since the start of the file never underflows (push_media).
FramesInOrder == faults = 0 => sorted

\* No sample is lost or written twice: when no read failed, every row given to the
\* mixer is in a frame that waits or was written, and at the end was written.
EachRowOnce ==
    faults = 0 =>
        count.given = count.written + (LET rows[i \in 0 .. Len(frames)] == IF i = 0 THEN 0 ELSE rows[i - 1] + frames[i].rows
                                       IN rows[Len(frames)])

\* Composing comes to an end.
Ends == <>(status \in {"done", "failed", "panic"})
==============================================================================
