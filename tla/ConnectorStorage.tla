-------------------------- MODULE ConnectorStorage --------------------------
(***************************************************************************)
(* The storage of the connector (sql_storage, lib): from the reports of    *)
(* sessions it keeps the tables of rooms, peers and peer sessions, decides *)
(* when a room has ended, and produces the hook events.                    *)
(*                                                                         *)
(* There are no transactions: a database error leaves the rows written     *)
(* before it and the hooks queued before it. An operation is given the     *)
(* number of database steps that succeed.                                  *)
(***************************************************************************)
EXTENDS Integers, Sequences, FiniteSets

CONSTANTS Sessions, Rooms,
          Peers,              \* the names of peers
          PeerOf,             \* the peer a session joins as
          DestroyAfter,       \* room_destroy_after_ms, in ticks
          Rejoin,             \* a session may join the same room again
          MaxEvents,          \* reports handled (bound)
          MaxWild,            \* ... when they are out of order or errors occur
          MaxFails            \* database errors (bound)

VARIABLES
  db,                         \* the tables, each in the order of insertion
  told,                       \* hook events produced, oldest first
  undrained,                  \* how many of the last are still in hook_events
  inside,                     \* the room a session was last said to be in
  ordered,                    \* the reports of a session come in order
  fails                       \* database errors so far

vars == <<db, told, undrained, inside, ordered, fails>>

Nil == "none"
Never == -1                   \* last_peer_leaved_at is null
Lowest(S) == CHOOSE x \in S : \A y \in S : x <= y
Highest(S) == CHOOSE x \in S : \A y \in S : x >= y

------------------------------------------------------------------------------
(* Rows.                                                                   *)
LiveRooms(d, r) == {i \in DOMAIN d.rooms : d.rooms[i].room = r
                                           /\ ~d.rooms[i].destroyed}
RoomId(d, r) == Lowest(LiveRooms(d, r))
PeerIds(d, i, p) == {j \in DOMAIN d.peers : d.peers[j] = [room |-> i, peer |-> p]}
Online(d, i) == {k \in DOMAIN d.rows : d.rows[k].room = i /\ ~d.rows[k].leaved}

\* The tables after each upsert. last_peer_leaved_at is kept as an age.
upsert_room(d, r) ==
  IF LiveRooms(d, r) = {}
  THEN [d EXCEPT !.rooms = Append(@, [room |-> r, left |-> Never,
                                      destroyed |-> FALSE, record |-> FALSE])]
  ELSE [d EXCEPT !.rooms[RoomId(d, r)].left = Never]

upsert_peer(d, i, p) ==
  IF PeerIds(d, i, p) # {} THEN d
  ELSE [d EXCEPT !.peers = Append(@, [room |-> i, peer |-> p])]

upsert_peer_session(d, i, j, s) ==
  IF \E k \in DOMAIN d.rows : /\ d.rows[k].session = s /\ d.rows[k].peer = j
                              /\ ~d.rows[k].leaved
  THEN d
  ELSE [d EXCEPT !.rows = Append(@, [session |-> s, peer |-> j, room |-> i,
                                     leaved |-> FALSE, record |-> FALSE])]

\* The row of a session and a peer, left or not: the database returns the first.
LeaveRow(d, j, s) ==
  LET own == {k \in DOMAIN d.rows : d.rows[k].session = s /\ d.rows[k].peer = j}
  IN IF own = {} THEN d ELSE [d EXCEPT !.rows[Lowest(own)].leaved = TRUE]

\* Mutant: the room waits to be closed though others are in it.
LastLeaved_MutantAny(d, i) == [d EXCEPT !.rooms[i].left = 0]
LastLeaved(d, i) ==
  IF Online(d, i) = {} THEN [d EXCEPT !.rooms[i].left = 0] ELSE d

Seen(d, s) == [d EXCEPT !.sessions = @ \cup {s}]
Logged(d, s) == [d EXCEPT !.events = Append(@, s)]
Hook(kind, r) == [kind |-> kind, room |-> r]
Started(d, r) == IF LiveRooms(d, r) = {} THEN <<Hook("Started", r)>> ELSE <<>>

------------------------------------------------------------------------------
(* on_peer_event: the tables and the hooks when `upto` steps succeed.      *)
OnOther(d, s, upto) ==
  LET d1 == IF upto < 1 THEN d ELSE Seen(d, s)
  IN [db |-> IF upto < 2 THEN d1 ELSE Logged(d1, s),
      hooks |-> <<>>, ok |-> upto = 2]

OnJoin(d, s, r, upto) ==
  LET d1 == IF upto < 1 THEN d ELSE Seen(d, s)
      d2 == IF upto < 2 THEN d1 ELSE upsert_room(d1, r)
      d3 == IF upto < 3 THEN d2 ELSE upsert_peer(d2, RoomId(d2, r), PeerOf[s])
      d4 == IF upto < 4 THEN d3
            ELSE LET i == RoomId(d3, r) IN upsert_peer_session(d3, i,
                   Lowest(PeerIds(d3, i, PeerOf[s])), s)
  IN [db |-> IF upto < 5 THEN d4 ELSE Logged(d4, s),
      hooks |-> (IF upto < 1 THEN <<>> ELSE Started(d, r)) \o
                (IF upto < 4 THEN <<>> ELSE <<Hook("PeerJoined", r)>>),
      ok |-> upto = 5]

OnLeave(d, s, r, upto) ==
  LET d1 == IF upto < 1 THEN d ELSE Seen(d, s)
      d2 == IF upto < 2 THEN d1 ELSE upsert_room(d1, r)
      d3 == IF upto < 3 THEN d2 ELSE upsert_peer(d2, RoomId(d2, r), PeerOf[s])
      i  == RoomId(d3, r)
      d4 == IF upto < 4 THEN d3
            ELSE LeaveRow(d3, Lowest(PeerIds(d3, i, PeerOf[s])), s)
      d5 == IF upto < 5 THEN d4 ELSE LastLeaved(d4, i)
  IN [db |-> IF upto < 6 THEN d5 ELSE Logged(d5, s),
      hooks |-> (IF upto < 1 THEN <<>>
                 ELSE <<Hook("PeerLeaved", r)>> \o Started(d, r)) \o
                (IF upto < 5 \/ Online(d4, i) # {} THEN <<>>
                 ELSE <<Hook("AllPeersLeaved", r)>>),
      ok |-> upto = 6]

\* A chunk of a recording asks for its place: it needs a live room and a row of
\* the session in it, and marks each as recorded the first time.
OnRecord(d, s, r, upto) ==
  LET rows(e, i) == {k \in DOMAIN e.rows : e.rows[k].session = s
                                           /\ e.rows[k].room = i}
      i  == RoomId(d, r)
      d1 == IF upto < 1 THEN d ELSE [d EXCEPT !.rooms[i].record = TRUE]
      k  == Highest(rows(d1, i))
      d2 == IF upto < 2 \/ rows(d1, i) = {} THEN d1
            ELSE [d1 EXCEPT !.rows[k].record = TRUE]
  IN IF LiveRooms(d, r) = {} THEN [db |-> d, hooks |-> <<>>, ok |-> FALSE]
     ELSE [db |-> d2,
           hooks |-> (IF d.rooms[i].record THEN <<>>
                      ELSE <<Hook("RecordStarted", r)>>) \o
                     (IF upto < 1 \/ rows(d1, i) = {} \/ d1.rows[k].record
                      THEN <<>> ELSE <<Hook("RecordPeerJoined", r)>>),
           ok |-> upto = 2 /\ rows(d1, i) # {}]

------------------------------------------------------------------------------
Init == /\ db = [rooms |-> <<>>, peers |-> <<>>, rows |-> <<>>,
                 sessions |-> {}, events |-> <<>>]
        /\ told = <<>> /\ undrained = 0
        /\ inside = [s \in Sessions |-> Nil]
        /\ ordered \in BOOLEAN
        /\ fails = 0

\* ConnectorStorage::on_event: the hooks go to the workers only when the
\* storage has an answer.
Handled(res, last) ==
  /\ db' = res.db
  /\ told' = told \o res.hooks \o (IF res.ok THEN last ELSE <<>>)
  /\ undrained' = IF res.ok THEN 0 ELSE undrained + Len(res.hooks)
PeerHook == <<Hook("Peer", Nil)>>

More == Len(db.events) < IF ordered /\ fails = 0 THEN MaxEvents ELSE MaxWild
Upto(steps) == {steps} \cup (IF ordered /\ fails < MaxFails /\ Len(db.events) < MaxWild
                             THEN 0 .. steps - 1 ELSE {})
Failed(upto, steps) == fails' = IF upto = steps THEN fails ELSE fails + 1

Other(s) ==
  /\ More
  /\ \E upto \in Upto(2) : /\ Handled(OnOther(db, s, upto), PeerHook)
                           /\ Failed(upto, 2)
  /\ UNCHANGED <<inside, ordered>>

Join(s, r) ==
  /\ More
  /\ ordered => inside[s] = Nil
  /\ ~Rejoin => \A k \in DOMAIN db.rows : db.rows[k].session = s
                                          => db.rooms[db.rows[k].room].destroyed
  /\ \E upto \in Upto(5) : /\ Handled(OnJoin(db, s, r, upto), PeerHook)
                           /\ Failed(upto, 5)
  /\ inside' = [inside EXCEPT ![s] = r]
  /\ UNCHANGED ordered

Leave(s, r) ==
  /\ More
  /\ ordered => inside[s] = r
  /\ \E upto \in Upto(6) : /\ Handled(OnLeave(db, s, r, upto), PeerHook)
                           /\ Failed(upto, 6)
  /\ inside' = [inside EXCEPT ![s] = Nil]
  /\ UNCHANGED ordered

Record(s, r) ==
  /\ ordered => inside[s] = r
  /\ \E upto \in Upto(2) : /\ Handled(OnRecord(db, s, r, upto), <<>>)
                           /\ Failed(upto, 2)
  /\ UNCHANGED <<inside, ordered>>

\* Time passes for the rooms that wait to be closed.
Older ==
  /\ \E i \in DOMAIN db.rooms : db.rooms[i].left \in 0 .. DestroyAfter - 1
  /\ db' = [db EXCEPT !.rooms = [i \in DOMAIN @ |->
              IF @[i].left \in 0 .. DestroyAfter - 1
              THEN [@[i] EXCEPT !.left = @ + 1] ELSE @[i]]]
  /\ UNCHANGED <<told, undrained, inside, ordered, fails>>

Expired(d) == {i \in DOMAIN d.rooms : /\ ~d.rooms[i].destroyed
                                      /\ d.rooms[i].left = DestroyAfter}

\* on_tick: close_exited_rooms, up to a database error, and then all hooks go.
Stopped(S) == [j \in 1 .. Cardinality(S) |->
                 Hook("Stopped", db.rooms[CHOOSE i \in S :
                   Cardinality({h \in S : h < i}) = j - 1].room)]
TickWorks(shut) == shut # {} \/ undrained > 0
OnTick ==
  \E shut \in SUBSET Expired(db) :
    /\ \A i \in shut, j \in Expired(db) \ shut : i < j
    /\ shut # Expired(db) => fails < MaxFails
    /\ TickWorks(shut)
    /\ fails' = IF shut = Expired(db) THEN fails ELSE fails + 1
    /\ db' = [db EXCEPT !.rooms = [i \in DOMAIN @ |->
                IF i \in shut THEN [@[i] EXCEPT !.destroyed = TRUE] ELSE @[i]]]
    /\ told' = told \o Stopped(shut)
    /\ undrained' = 0
    /\ UNCHANGED <<inside, ordered>>

Next == \/ \E s \in Sessions : \/ Other(s)
                               \/ \E r \in Rooms : \/ Join(s, r) \/ Leave(s, r)
                                                   \/ Record(s, r)
        \/ Older \/ OnTick

Spec == Init /\ [][Next]_vars

\* Time passes, and the storage is ticked.
Fairness == WF_vars(Older) /\ WF_vars(OnTick)
FairSpec == Spec /\ Fairness

------------------------------------------------------------------------------
(* The queries: page number `page` of `limit` rows, youngest row first. A   *)
(* filter that is given is a set of one value, one that is not is {}.      *)
calc_page_num(elms, limit) == IF elms = 0 THEN 0 ELSE 1 + (elms - 1) \div limit
Wanted(filter, x) == filter = {} \/ x \in filter
Page(ids, page, limit) ==
  {i \in ids : LET before == Cardinality({j \in ids : j > i})
               IN page * limit <= before /\ before < (page + 1) * limit}

rooms(page, limit) ==
  [data |-> {[id |-> i, peers |-> Cardinality({j \in DOMAIN db.peers :
                                                 db.peers[j].room = i})] :
               i \in Page(DOMAIN db.rooms, page, limit)},
   total |-> calc_page_num(Len(db.rooms), limit)]
peers(room, page, limit) ==
  LET ids == {j \in DOMAIN db.peers : Wanted(room, db.peers[j].room)}
  IN [data |-> {[id |-> j, sessions |-> {[id |-> k, session |-> db.rows[k].session] :
                                           k \in {n \in DOMAIN db.rows : db.rows[n].peer = j}}] :
                  j \in Page(ids, page, limit)},
      total |-> calc_page_num(Cardinality(ids), limit)]
events(session, page, limit) ==
  LET ids == {i \in DOMAIN db.events : Wanted(session, db.events[i])}
  IN [data |-> {[id |-> i, session |-> db.events[i]] :
                  i \in Page(ids, page, limit)},
      total |-> calc_page_num(Cardinality(ids), limit)]

\* ConnectorRemoteRpcHandlerImpl: a query that failed has no answer, a page is
\* passed on row by row. A session is still the number it has in the table.
NoAnswer == [pagination |-> {}]
remote_rooms(ok, page, limit) ==
  IF ~ok THEN NoAnswer
  ELSE [rows |-> rooms(page, limit).data,
        pagination |-> {[total |-> rooms(page, limit).total, current |-> page]}]
remote_peers(ok, room, page, limit) ==
  IF ~ok THEN NoAnswer
  ELSE [rows |-> peers(room, page, limit).data,
        pagination |-> {[total |-> peers(room, page, limit).total, current |-> page]}]
remote_events(ok, session, page, limit) ==
  IF ~ok THEN NoAnswer
  ELSE [rows |-> events(session, page, limit).data,
        pagination |-> {[total |-> events(session, page, limit).total, current |-> page]}]

\* The console's log pages: no answer is an error, and a session becomes a text,
\* because a script cannot hold all its digits as a number.
ToText(session) == <<"text", session>>
ClusterError == [status |-> FALSE, error |-> "CLUSTER_ERROR"]
console_rooms(answer) ==
  IF answer = NoAnswer THEN ClusterError
  ELSE [status |-> TRUE, data |-> answer.rows, pagination |-> answer.pagination]
console_peers(answer) ==
  IF answer = NoAnswer THEN ClusterError
  ELSE [status |-> TRUE, pagination |-> answer.pagination,
        data |-> {[id |-> p.id, sessions |-> {[id |-> x.id, session |-> ToText(x.session)] : x \in p.sessions}] :
                    p \in answer.rows}]
console_events(answer) ==
  IF answer = NoAnswer THEN ClusterError
  ELSE [status |-> TRUE, pagination |-> answer.pagination,
        data |-> {[id |-> e.id, session |-> ToText(e.session)] : e \in answer.rows}]

------------------------------------------------------------------------------
\* The tables fit together.
StorageTypeOK ==
  /\ \A i \in DOMAIN db.rooms : /\ db.rooms[i].room \in Rooms
                                /\ db.rooms[i].left \in {Never} \cup 0 .. DestroyAfter
  /\ \A j \in DOMAIN db.peers : db.peers[j].room \in DOMAIN db.rooms
  /\ \A k \in DOMAIN db.rows : /\ db.rows[k].session \in db.sessions
                               /\ db.rows[k].peer \in DOMAIN db.peers
                               /\ db.peers[db.rows[k].peer].room = db.rows[k].room
  /\ undrained \in 0 .. Len(told)
  /\ inside \in [Sessions -> Rooms \cup {Nil}]
  /\ fails \in 0 .. MaxFails

\* Whatever the order of the reports and the errors of the database, a name has
\* one live room at most, no peer is stored twice in a room, and a room is
\* closed only when no row of it is online (close_exited_rooms, upsert_room).
RowsAgree ==
  /\ \A r \in Rooms : Cardinality(LiveRooms(db, r)) <= 1
  /\ \A i, j \in DOMAIN db.peers : i # j => db.peers[i] # db.peers[j]
  /\ \A i \in DOMAIN db.rooms : db.rooms[i].destroyed => Online(db, i) = {}

\* With reports in order and no database error, a live room waits to be closed
\* exactly when no session is in it, and a session is in a live room
\* ("Destroy room after no-one online", connector.rs).
NoOneOnline ==
  ordered /\ fails = 0 =>
    \A r \in Rooms :
      LET in == {s \in Sessions : inside[s] = r} IN
      /\ in # {} => LiveRooms(db, r) # {}
      /\ \A i \in LiveRooms(db, r) : db.rooms[i].left = Never <=> in # {}

\* The hooks of a room, in the order they are produced.
Story(r) == SelectSeq(told, LAMBDA h : h.room = r)
Number(r, n, kind) == Cardinality({i \in 1 .. n : Story(r)[i].kind = kind})

\* With reports in order and no database error, the hooks of a room tell a story:
\* it starts before anything else, all have left when it stops, and no peer
\* leaves that has not joined (on_peer_event).
HooksTellStory ==
  ordered /\ fails = 0 =>
    \A r \in Rooms : \A n \in 1 .. Len(Story(r)) :
      LET kind == Story(r)[n].kind
          open == Number(r, n - 1, "Started") - Number(r, n - 1, "Stopped")
          peersIn == Number(r, n, "PeerJoined") - Number(r, n, "PeerLeaved")
      IN /\ open = IF kind = "Started" THEN 0 ELSE 1
         /\ peersIn >= 0
         /\ kind \in {"AllPeersLeaved", "Stopped"} => peersIn = 0

\* The pages the console shows of a log, put together, hold every row once, the
\* number of pages is right, and a peer is shown with all its sessions (rooms,
\* peers, events of the querier, the connector's handler and the console's API).
PagesPartition ==
  \A limit \in 1 .. 2 :
    LET whole(rows, page(_)) ==
          LET ids(p) == {x.id : x \in page(p).data}
              total == (CHOOSE x \in page(0).pagination : TRUE).total
          IN /\ UNION {ids(p) : p \in 0 .. total} = rows
             /\ \A p, q \in 0 .. total : p # q => ids(p) \cap ids(q) = {}
             /\ total > 0 => ids(total - 1) # {}
             /\ ids(total) = {}
    IN /\ whole(DOMAIN db.rooms, LAMBDA p : console_rooms(remote_rooms(TRUE, p, limit)))
       /\ \A i \in DOMAIN db.rooms :
            /\ whole({j \in DOMAIN db.peers : db.peers[j].room = i},
                     LAMBDA p : console_peers(remote_peers(TRUE, {i}, p, limit)))
            /\ \A x \in console_peers(remote_peers(TRUE, {i}, 0, limit)).data :
                 x.sessions = {[id |-> k, session |-> ToText(db.rows[k].session)] :
                                 k \in {n \in DOMAIN db.rows : db.rows[n].peer = x.id}}
       /\ \A s \in Sessions :
            whole({j \in DOMAIN db.events : db.events[j] = s},
                  LAMBDA p : console_events(remote_events(TRUE, {s}, p, limit)))

\* Hooks that an error left in the queue go out with the next answer or tick
\* (ConnectorStorage::on_tick, on_event).
HooksGoOut == undrained > 0 ~> undrained = 0

\* With reports in order and no database error, a room that no one is in is
\* closed, unless someone comes back (close_exited_rooms).
AbandonedCloses ==
  \A r \in Rooms :
    (ordered /\ fails = 0 /\ LiveRooms(db, r) # {} /\ \A s \in Sessions : inside[s] # r)
      ~> (fails > 0 \/ LiveRooms(db, r) = {} \/ \E s \in Sessions : inside[s] = r)
=============================================================================
