---------------------------- MODULE RecordReader ----------------------------
(***************************************************************************)
(* Reading the recording of a session back (media_record raw_record/): a   *)
(* session is a list of chunk files, a chunk a list of rows.  What a file  *)
(* holds is chosen when it is read, so every recording is covered: rows in *)
(* the order of their times, each chunk with a row at least, as the        *)
(* recorder cuts them.                                                     *)
(*                                                                         *)
(* Each operator gives the set of its outcomes: the reader afterwards, the *)
(* row (none or one) and how many requests or reads failed.                *)
(***************************************************************************)
EXTENDS Integers, Sequences, FiniteSets

CONSTANTS
    Events,     \* what a row may record
    MaxTs,      \* rows have times 0 .. MaxTs
    ChunkRows   \* bound on the rows of a chunk

\* connect: the files of the session, read from the first to the last.
Connected(n) == [files |-> n, left |-> -1, peek |-> <<>>, ts |-> 0]

NoChunk == -1

\* next_chunk_if_empty: without an open chunk the next file is taken and opened.
\* A file that cannot be opened is gone from the list, and nothing is open.
next_chunk_if_empty(r, faults) ==
    IF r.left # NoChunk THEN {[r |-> r, open |-> TRUE, bad |-> 0]}
    ELSE IF r.files = 0 THEN {[r |-> r, open |-> FALSE, bad |-> 0]}
    ELSE {[r |-> [r EXCEPT !.files = @ - 1, !.left = n], open |-> TRUE, bad |-> 0] : n \in 1 .. ChunkRows}
           \cup {[r |-> [r EXCEPT !.files = @ - 1], open |-> FALSE, bad |-> 1] : x \in 1 .. faults}

\* RecordChunkReader::pop: the peeked row, the next one, or none at the end; a row
\* that cannot be read is an error.
chunk_pop(r, faults) ==
    IF r.peek # <<>> THEN {[r |-> [r EXCEPT !.peek = <<>>], row |-> r.peek, bad |-> 0]}
    ELSE IF r.left = 0 THEN {[r |-> r, row |-> <<>>, bad |-> 0]}
    ELSE {[r |-> [r EXCEPT !.left = @ - 1, !.ts = t], row |-> <<[ts |-> t, ev |-> e]>>, bad |-> 0] : t \in r.ts .. MaxTs, e \in Events}
           \cup {[r |-> [r EXCEPT !.left = 0], row |-> <<>>, bad |-> 1] : x \in 1 .. faults}

\* A chunk that is read to its end is closed and the next one opened.
Reopened(r, faults) ==
    next_chunk_if_empty(IF r.left = 0 /\ r.peek = <<>> THEN [r EXCEPT !.left = NoChunk] ELSE r, faults)

\* pop, and recv: a row, or none when there are no more files or a read failed.
pop(r, faults) ==
    UNION {IF n.open THEN {[c EXCEPT !.bad = @ + n.bad] : c \in chunk_pop(n.r, faults - n.bad)}
           ELSE {[r |-> n.r, row |-> <<>>, bad |-> n.bad]} : n \in Reopened(r, faults)}

\* peek_ts: the row is read and kept.  A read that fails closes the chunk, and the
\* next one is tried; a file that cannot be opened ends the search.
peek_ts(r, faults) ==
    LET once(q, f) == UNION {IF n.open
                             THEN {IF c.row = <<>> THEN [r |-> [c.r EXCEPT !.left = NoChunk], found |-> FALSE, again |-> TRUE, bad |-> n.bad + c.bad]
                                   ELSE [r |-> [c.r EXCEPT !.peek = c.row], found |-> TRUE, again |-> FALSE, bad |-> n.bad + c.bad]
                                   : c \in chunk_pop(n.r, f - n.bad)}
                             ELSE {[r |-> n.r, found |-> FALSE, again |-> FALSE, bad |-> n.bad]} : n \in Reopened(q, f)}
    IN UNION {IF o.again THEN {[p EXCEPT !.bad = @ + o.bad] : p \in once(o.r, faults - o.bad)} ELSE {o} : o \in once(r, faults)}
==============================================================================
