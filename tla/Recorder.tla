------------------------------ MODULE Recorder ------------------------------
(* How what a session sends is recorded: media_record lib.rs, session.rs,    *)
(* worker.rs and storage/, fed by the main loop of the media server.         *)
(*                                                                           *)
(* The rows of a session are cut into chunks; for each chunk a link is asked *)
(* from the connector, the chunk waits in memory or on disk, and a child     *)
(* worker uploads it once the link has come.  Rows are numbered in the order *)
(* the session sends them; their bytes, and the signed links, are left out.  *)
(* Times are kept as ages in ticks.                                          *)
EXTENDS Integers, Sequences, FiniteSets, SequencesExt, FiniteSetsExt

CONSTANTS
    Sessions,   \* sessions with recording switched on
    Children,   \* child workers (record_upload_worker)
    MaxRows,    \* bound: rows a session sends
    MaxRooms,   \* bound: rooms a session joins, one after the other
    MaxLag,     \* bound: ticks an event waits for the main loop
    MaxWire,    \* bound: a session with this many events waiting sends no more
    MaxLen,     \* MAX_FILE_LEN_MS, in ticks
    ChanCap,    \* places of the worker's channel (10)
    MemMax,     \* record_mem_max_size, in rows
    Radix,      \* digits a chunk's index is written with (10)
    MaxFaults   \* bound on uploads, disk copies and answers that fail

VARIABLES
    peer,       \* what each session did: rows sent, rooms joined, in a room, gone
    wire,       \* record events on their way from the worker thread to the main loop
    sessions,   \* MediaRecordService.sessions
    asked,      \* files whose link was asked: chunk_map and the requests to the connector
    chan,       \* the channel to the upload worker
    mem, disk,  \* HybridStorage: the files in each part
    current_size, \* MemoryStorage.current_size
    job_queue,  \* files whose link has come
    busy,       \* the file each child worker is uploading
    s3,         \* objects stored
    lost,       \* files given up
    unlinked,   \* files whose link never comes
    dropped,    \* rows given up before they were put in a file
    faults

service == <<sessions, asked, chan, lost, dropped>>
storage == <<mem, disk, current_size>>
vars == <<peer, wire, service, storage, job_queue, busy, s3, unlinked, faults>>

NoFile == [session |-> "none", room |-> 0, index |-> 0, rows |-> <<>>]

-----------------------------------------------------------------------------
(* What a session sends.  A session that joins leaves its room first; one    *)
(* that disconnects says so before its tracks stop and it leaves.            *)
Event(s, kind) == [kind |-> kind, n |-> peer[s].n, room |-> peer[s].rooms + 1, age |-> 0]

Ready(s) == ~peer[s].gone /\ Len(wire[s]) < MaxWire

JoinRoom(s) ==
    /\ Ready(s) /\ peer[s].rooms < MaxRooms /\ peer[s].n < MaxRows
    /\ wire' = [wire EXCEPT ![s] = @ \o (IF peer[s].inside THEN <<Event(s, "leave")>> ELSE <<>>)
                                     \o <<Event(s, "join")>>]
    /\ peer' = [peer EXCEPT ![s].n = @ + 1, ![s].rooms = @ + 1, ![s].inside = TRUE]
    /\ UNCHANGED <<service, storage, job_queue, busy, s3, unlinked, faults>>

LeaveRoom(s) ==
    /\ Ready(s) /\ peer[s].inside
    /\ wire' = [wire EXCEPT ![s] = Append(@, Event(s, "leave"))]
    /\ peer' = [peer EXCEPT ![s].inside = FALSE]
    /\ UNCHANGED <<service, storage, job_queue, busy, s3, unlinked, faults>>

SendRow(s) ==
    /\ Ready(s) /\ peer[s].n < MaxRows
    /\ wire' = [wire EXCEPT ![s] = Append(@, Event(s, "row"))]
    /\ peer' = [peer EXCEPT ![s].n = @ + 1]
    /\ UNCHANGED <<service, storage, job_queue, busy, s3, unlinked, faults>>

Disconnect(s) ==
    /\ Ready(s) /\ peer[s].n < MaxRows
    /\ wire' = [wire EXCEPT ![s] = @ \o <<Event(s, "gone"), Event(s, "row")>>
                                     \o (IF peer[s].inside THEN <<Event(s, "leave")>> ELSE <<>>)]
    /\ peer' = [peer EXCEPT ![s].n = @ + 1, ![s].inside = FALSE, ![s].gone = TRUE]
    /\ UNCHANGED <<service, storage, job_queue, busy, s3, unlinked, faults>>

-----------------------------------------------------------------------------
(* SessionRecord: rows wait in a queue until the chunk is long enough, old   *)
(* enough, or forced out.                                                    *)
NewSession == [room |-> 0, index |-> 0, queue |-> <<>>, closed |-> FALSE]

should_pop(r, force) ==
    /\ r.room # 0 /\ r.queue # <<>>
    /\ \/ force
       \/ r.queue[1].age - r.queue[Len(r.queue)].age >= MaxLen
       \/ r.queue[Len(r.queue)].age >= MaxLen

(* pop_file: the record afterwards and the files made, none or one.          *)
pop_file(s, r, force) ==
    IF should_pop(r, force)
      THEN [record |-> [r EXCEPT !.queue = <<>>, !.index = @ + 1],
            files  |-> <<[session |-> s, room |-> r.room, index |-> r.index,
                          rows |-> [i \in DOMAIN r.queue |-> r.queue[i].n]]>>]
      ELSE [record |-> r, files |-> <<>>]

(* push: a new room starts over with its own first row; a closed session     *)
(* takes nothing more and only flushes.                                      *)
push(s, r, e) ==
    LET row == [n |-> e.n, age |-> e.age] IN
    CASE r.closed -> pop_file(s, r, TRUE)
      [] ~r.closed /\ e.kind = "join" ->
            [record |-> [r EXCEPT !.room = e.room, !.index = 0, !.queue = <<row>>], files |-> <<>>]
      [] ~r.closed /\ e.kind = "leave" -> pop_file(s, r, TRUE)
      [] ~r.closed /\ e.kind = "gone" -> pop_file(s, [r EXCEPT !.closed = TRUE], TRUE)
      [] ~r.closed /\ e.kind = "row" ->
            IF r.room = 0 THEN [record |-> r, files |-> <<>>]
            ELSE pop_file(s, [r EXCEPT !.queue = Append(@, row)], FALSE)

(* Rows the session refuses: those of a closed session, those outside a room *)
(* and those still queued when another room is joined.                       *)
Refused(s, r, e) ==
    LET queued == {<<s, r.queue[i].n>> : i \in DOMAIN r.queue} IN
    CASE e.kind = "row"  -> IF r.closed \/ r.room = 0 THEN {<<s, e.n>>} ELSE {}
      [] e.kind = "join" -> IF r.closed THEN {<<s, e.n>>} ELSE queued
      [] e.kind \in {"leave", "gone"} -> {}

-----------------------------------------------------------------------------
(* process_chunk: ask for a link, then hand the file to the worker; a full   *)
(* channel loses the file, and the link is asked all the same.               *)
process_chunk(files) ==
    LET fits == Min({Len(files), ChanCap - Len(chan)})
        sent == SubSeq(files, 1, fits)
        gone == SubSeq(files, fits + 1, Len(files))
    IN /\ asked' = asked \cup ToSet(files)
       /\ chan' = chan \o [i \in DOMAIN sent |-> [kind |-> "chunk", file |-> sent[i]]]
       /\ lost' = lost \cup ToSet(gone)

(* Oldest of the events of a session that still wait.                        *)
on_record_event(s) ==
    /\ wire[s] # <<>>
    /\ \E r \in {IF s \in DOMAIN sessions THEN sessions[s] ELSE NewSession} :
       \E p \in {push(s, r, Head(wire[s]))} :
          /\ sessions' = [t \in DOMAIN sessions \cup {s} |-> IF t = s THEN p.record ELSE sessions[t]]
          /\ dropped' = dropped \cup Refused(s, r, Head(wire[s]))
          /\ process_chunk(p.files)
    /\ wire' = [wire EXCEPT ![s] = Tail(@)]
    /\ UNCHANGED <<peer, storage, job_queue, busy, s3, unlinked, faults>>

(* A tick of the main loop: every session may cut a chunk, in any order, and *)
(* the closed ones are forgotten.                                            *)
Older(q) == [i \in DOMAIN q |-> [q[i] EXCEPT !.age = @ + 1]]

on_tick ==
    /\ \A s \in Sessions : \A i \in DOMAIN wire[s] : wire[s][i].age < MaxLag
    /\ \E p \in {[s \in DOMAIN sessions |-> pop_file(s, [sessions[s] EXCEPT !.queue = Older(@)], FALSE)]} :
       /\ sessions' = [s \in {t \in DOMAIN sessions : ~p[t].record.closed} |-> p[s].record]
       /\ \E order \in SetToSeqs(DOMAIN sessions) :
             process_chunk(FlattenSeq([i \in DOMAIN order |-> p[order[i]].files]))
    /\ wire' = [s \in Sessions |-> Older(wire[s])]
    /\ UNCHANGED <<peer, storage, job_queue, busy, s3, unlinked, dropped, faults>>

(* The connector answers a request; the link goes to the worker, unless the  *)
(* channel is full.                                                          *)
UploadResponse(f) ==
    /\ f \in asked
    /\ asked' = asked \ {f}
    /\ IF Len(chan) < ChanCap
         THEN chan' = Append(chan, [kind |-> "link", file |-> f]) /\ UNCHANGED unlinked
         ELSE unlinked' = unlinked \cup {f} /\ UNCHANGED chan
    /\ UNCHANGED <<peer, wire, sessions, lost, dropped, storage, job_queue, busy, s3, faults>>

(* The connector does not know the room, or the answer is lost: the request  *)
(* stays in chunk_map.                                                       *)
NoResponse(f) ==
    /\ f \in asked \ unlinked /\ faults < MaxFaults
    /\ unlinked' = unlinked \cup {f} /\ asked' = asked \ {f}
    /\ faults' = faults + 1
    /\ UNCHANGED <<peer, wire, sessions, chan, lost, dropped, storage, job_queue, busy, s3>>

-----------------------------------------------------------------------------
(* HybridStorage: memory while the chunk fits in, else a copy on disk.       *)

can_push(f) == current_size + Len(f.rows) <= MemMax

Push(f) ==
    \/ /\ can_push(f)
       /\ mem' = mem \cup {f} /\ current_size' = current_size + Len(f.rows)
       /\ UNCHANGED <<disk, lost, faults>>
    \/ /\ ~can_push(f)
       /\ disk' = disk \cup {f}
       /\ UNCHANGED <<mem, current_size, lost, faults>>
    \/ /\ ~can_push(f) /\ faults < MaxFaults
       /\ lost' = lost \cup {f} /\ faults' = faults + 1
       /\ UNCHANGED <<mem, disk, current_size>>

Pop_MutantDiskStays(f) ==
    /\ mem' = mem \ {f} /\ UNCHANGED disk
    /\ current_size' = IF f \in mem THEN current_size - Len(f.rows) ELSE current_size

Pop(f) ==
    /\ mem' = mem \ {f} /\ disk' = IF f \in mem THEN disk ELSE disk \ {f}
    /\ current_size' = IF f \in mem THEN current_size - Len(f.rows) ELSE current_size

(* UploadWorker::recv.                                                       *)
recv ==
    /\ chan # <<>>
    /\ chan' = Tail(chan)
    /\ IF Head(chan).kind = "chunk"
         THEN Push(Head(chan).file) /\ UNCHANGED job_queue
         ELSE job_queue' = Append(job_queue, Head(chan).file) /\ UNCHANGED <<storage, lost, faults>>
    /\ UNCHANGED <<peer, wire, sessions, asked, dropped, busy, s3, unlinked>>

(* A job whose file is missing is tried again later.                         *)
TakeJob_MutantRetries(c) ==
    /\ busy[c] = NoFile /\ job_queue # <<>>
    /\ LET f == Head(job_queue)  found == f \in mem \cup disk IN
       /\ job_queue' = IF found THEN Tail(job_queue) ELSE Append(Tail(job_queue), f)
       /\ busy' = [busy EXCEPT ![c] = IF found THEN f ELSE NoFile]
       /\ Pop(f)
    /\ UNCHANGED <<peer, wire, service, s3, unlinked, faults>>

(* A child worker takes a job; a file that is not in the storage is missing, *)
(* and the job is over.                                                      *)
TakeJob(c) ==
    /\ busy[c] = NoFile /\ job_queue # <<>>
    /\ job_queue' = Tail(job_queue)
    /\ busy' = [busy EXCEPT ![c] = IF Head(job_queue) \in mem \cup disk THEN Head(job_queue) ELSE NoFile]
    /\ Pop(Head(job_queue))
    /\ UNCHANGED <<peer, wire, service, s3, unlinked, faults>>

Uploaded(c) ==
    /\ busy[c] # NoFile
    /\ s3' = s3 \cup {busy[c]}
    /\ busy' = [busy EXCEPT ![c] = NoFile]
    /\ UNCHANGED <<peer, wire, service, storage, job_queue, unlinked, faults>>

(* The upload fails, or is refused with a status nobody looks at.            *)
UploadFailed(c) ==
    /\ busy[c] # NoFile /\ faults < MaxFaults
    /\ lost' = lost \cup {busy[c]} /\ faults' = faults + 1
    /\ busy' = [busy EXCEPT ![c] = NoFile]
    /\ UNCHANGED <<peer, wire, sessions, asked, chan, dropped, storage, job_queue, s3, unlinked>>

-----------------------------------------------------------------------------
Init ==
    /\ peer = [s \in Sessions |-> [n |-> 0, rooms |-> 0, inside |-> FALSE, gone |-> FALSE]]
    /\ wire = [s \in Sessions |-> <<>>]
    /\ sessions = <<>> /\ asked = {} /\ chan = <<>> /\ lost = {} /\ dropped = {}
    /\ mem = {} /\ disk = {} /\ current_size = 0
    /\ job_queue = <<>> /\ busy = [c \in Children |-> NoFile]
    /\ s3 = {} /\ unlinked = {} /\ faults = 0

Next ==
    \/ \E s \in Sessions : JoinRoom(s) \/ LeaveRoom(s) \/ SendRow(s) \/ Disconnect(s) \/ on_record_event(s)
    \/ on_tick
    \/ \E f \in asked : UploadResponse(f) \/ NoResponse(f)
    \/ recv
    \/ \E c \in Children : TakeJob(c) \/ Uploaded(c) \/ UploadFailed(c)

Spec == Init /\ [][Next]_vars

(* The main loop and the worker keep going round, children keep uploading,   *)
(* and what the connector answers arrives.                                   *)
Fairness ==
    /\ \A s \in Sessions : WF_vars(on_record_event(s))
    /\ WF_vars(on_tick) /\ WF_vars(recv)
    /\ WF_vars(\E f \in asked : UploadResponse(f))
    /\ WF_vars(\E c \in Children : TakeJob(c)) /\ \A c \in Children : WF_vars(Uploaded(c))

-----------------------------------------------------------------------------
(* The reader: SessionReader::connect sorts the names of the objects as      *)
(* strings, and a name starts with the index, not padded.                    *)
Name(f) == IF f.index < Radix THEN <<f.index>> ELSE <<f.index \div Radix, f.index % Radix>>

(* '-' ends the index and is smaller than any digit.                         *)
ReadsBefore(f, g) ==
    LET a == Append(Name(f), -1)  b == Append(Name(g), -1)
    IN \E i \in DOMAIN a \cap DOMAIN b :
          a[i] < b[i] /\ \A j \in 1 .. i - 1 : a[j] = b[j]

SameFolder(f, g) == f.session = g.session /\ f.room = g.room
Precedes(f, g) == \A i \in DOMAIN f.rows, j \in DOMAIN g.rows : f.rows[i] < g.rows[j]

-----------------------------------------------------------------------------
ChunksIn(q) == {q[i].file : i \in {j \in DOMAIN q : q[j].kind = "chunk"}}
Held(s, n, fs) == \E f \in fs : f.session = s /\ n \in ToSet(f.rows)

(* Each record of the service is one the program can hold: the queue of a    *)
(* session outside a room, and of one that closed, is empty.                 *)
TypeOK ==
    /\ \A s \in DOMAIN sessions : sessions[s].room = 0 \/ sessions[s].closed => sessions[s].queue = <<>>
    /\ \A s \in DOMAIN sessions : \A i \in DOMAIN sessions[s].queue : sessions[s].queue[i].age < 2 * MaxLen + MaxLag
    /\ Len(chan) <= ChanCap
    /\ faults \in 0 .. MaxFaults

(* A row is always in one place: on its way, in its session's queue, in a    *)
(* file that waits, is uploaded, is stored or is given up, or refused.  No   *)
(* row is uploaded twice and none disappears, whatever the order in which    *)
(* ticks, events, answers and child workers come (session.rs, worker.rs).    *)
RowInOnePlace ==
    \A s \in Sessions : \A n \in 0 .. peer[s].n - 1 :
       Cardinality({w \in 1 .. 8 :
          CASE w = 1 -> \E i \in DOMAIN wire[s] : wire[s][i].n = n /\ wire[s][i].kind \in {"row", "join"}
            [] w = 2 -> s \in DOMAIN sessions /\ \E i \in DOMAIN sessions[s].queue : sessions[s].queue[i].n = n
            [] w = 3 -> Held(s, n, ChunksIn(chan))
            [] w = 4 -> Held(s, n, mem)
            [] w = 5 -> Held(s, n, disk)
            [] w = 6 -> \E c \in Children : Held(s, n, {busy[c]})
            [] w = 7 -> Held(s, n, s3)
            [] w = 8 -> Held(s, n, lost) \/ <<s, n>> \in dropped}) = 1

(* Memory never holds more rows than it may, and the counter that decides    *)
(* about the disk is what memory holds (memory.rs current_size).             *)
MemoryBounded ==
    /\ current_size <= MemMax
    /\ current_size = MapThenSumSet(LAMBDA f : Len(f.rows), mem)

(* What is stored of a session in a room reads back in the order it was      *)
(* sent, while the index has one digit (session_reader.rs connect).          *)
ReadBack ==
    \A f, g \in s3 : f # g /\ SameFolder(f, g) /\ f.index < Radix /\ g.index < Radix
       => \/ ReadsBefore(f, g) /\ Precedes(f, g)
          \/ ReadsBefore(g, f) /\ Precedes(g, f)

(* session_reader.rs: "recv all packets in sequence".                        *)
ReadInSequence ==
    \A f, g \in s3 : SameFolder(f, g) /\ ReadsBefore(f, g) => Precedes(f, g)

(* Everything recorded leaves the server: in the end no row waits in a       *)
(* session, no job is left, and the storage only holds files whose link      *)
(* never came (lib.rs on_tick, worker.rs).                                   *)
Drains ==
    <>[](/\ \A s \in DOMAIN sessions : sessions[s].queue = <<>>
         /\ chan = <<>> /\ job_queue = <<>>
         /\ \A c \in Children : busy[c] = NoFile
         /\ mem \cup disk \subseteq unlinked)
=============================================================================
