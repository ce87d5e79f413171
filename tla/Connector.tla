----------------------------- MODULE Connector ------------------------------
(***************************************************************************)
(* The way of a request from a media node to the storage of a connector:   *)
(* the agent service and its message queue on every node (agent_service,   *)
(* msg_queue), the network, which loses, repeats and reorders, the handler *)
(* service with its memory of the requests it has seen (handler_service)   *)
(* and the task that hands requests to the storage and answers them        *)
(* (run_media_connector).                                                  *)
(*                                                                         *)
(* A request is known by the node it comes from, its time and its number.  *)
(* Numbers start again when a node does, the time does not: a request is   *)
(* the triple <<node, boot, number>>, where the boot stands for the time.  *)
(***************************************************************************)
EXTENDS Integers, Sequences, FiniteSets, Functions

CONSTANTS Nodes,              \* the media nodes that report
          MaxAsk,             \* requests of a node, over all its boots (bound)
          MaxInflight,        \* MAX_INFLIGHT of the agent's queue, 1024
          LruCap,             \* requests the handler remembers, 10000
          ResendAfter,        \* age of a message due for resending, 1000 ms
          MaxTimes,           \* times a request is handed to the storage (bound)
          MaxFaults           \* restarts and lost answers, together (bound)

ASSUME SizesAssumption == /\ MaxInflight \in Nat \ {0}
                          /\ LruCap \in Nat \ {0}
                          /\ ResendAfter \in Nat \ {0}
                          /\ MaxAsk \in Nat
                          /\ MaxTimes \in Nat \ {0}
                          /\ MaxFaults \in Nat

VARIABLES
  boot,                       \* which run of the node this is
  req_id_seed, req_data,      \* agent: next number, requests to be answered
  queue, inflight,            \* message queue: to be sent, sent and unanswered
  inflight_ts,                \* ... and its timers, in the order of their time
  reqs, ress,                 \* the network: requests, answers
  req_ids,                    \* handler: the LruCache, oldest first
  todo,                       \* requests on their way to the storage
  faults,                     \* how many there have been
  asked, times, forgotten,    \* what happened, for the properties:
  unanswered                  \* ... answers lost on their way

agent == <<boot, req_id_seed, req_data, queue, inflight, inflight_ts>>
history == <<asked, times, forgotten, unanswered>>
vars == <<agent, reqs, ress, req_ids, todo, faults, history>>

Ids == 0 .. MaxAsk - 1
Keys == Nodes \X (0 .. MaxFaults) \X Ids
Key(n, id) == <<n, boot[n], id>>

------------------------------------------------------------------------------
(* The message queue of an agent.                                          *)

\* The timers of one moment: the BTreeMap has one entry for each `now`, and
\* an entry whose age has reached ResendAfter is due.
Stamp(ts, id) ==
  IF ts # <<>> /\ ts[Len(ts)].age = 0
  THEN [ts EXCEPT ![Len(ts)] = [age |-> 0, ids |-> Append(@.ids, id)]]
  ELSE Append(ts, [age |-> 0, ids |-> <<id>>])

Live(e, live) == {i \in DOMAIN e.ids : e.ids[i] \in live}
Due(ts, live) ==
  {g \in DOMAIN ts : ts[g].age = ResendAfter /\ Live(ts[g], live) # {}}

Least(S) == CHOOSE x \in S : \A y \in S : x <= y
Greatest(S) == CHOOSE x \in S : \A y \in S : y <= x

\* pop_retry_msg_id takes the last unanswered message of the first due entry
\* that has one, and throws away what it passes over.
DueId(ts, live) ==
  LET e == ts[Least(Due(ts, live))] IN e.ids[Greatest(Live(e, live))]
AfterDue(ts, live) ==
  LET g == Least(Due(ts, live))
      i == Greatest(Live(ts[g], live))
      rest == SubSeq(ts, g + 1, Len(ts))
  IN IF i = 1 THEN rest
     ELSE <<[age |-> ts[g].age, ids |-> SubSeq(ts[g].ids, 1, i - 1)]>> \o rest
NoneDue(ts) ==
  LET old == {g \in DOMAIN ts : ts[g].age = ResendAfter}
  IN IF old = {} THEN ts ELSE SubSeq(ts, Greatest(old) + 1, Len(ts))

CanSendNew(n) == queue[n] # <<>> /\ Cardinality(inflight[n]) < MaxInflight

------------------------------------------------------------------------------
Init == /\ boot = [n \in Nodes |-> 0]
        /\ req_id_seed = [n \in Nodes |-> 0]
        /\ req_data = [n \in Nodes |-> {}]
        /\ queue = [n \in Nodes |-> <<>>]
        /\ inflight = [n \in Nodes |-> {}]
        /\ inflight_ts = [n \in Nodes |-> <<>>]
        /\ reqs = {} /\ ress = {}
        /\ req_ids = <<>> /\ todo = <<>>
        /\ faults = 0
        /\ asked = {} /\ times = [k \in Keys |-> 0] /\ forgotten = {}
        /\ unanswered = {}

\* Control::Request: a new number, and the message waits to be sent.
Request(n) ==
  /\ Cardinality({k \in asked : k[1] = n}) < MaxAsk
  /\ req_id_seed' = [req_id_seed EXCEPT ![n] = @ + 1]
  /\ req_data' = [req_data EXCEPT ![n] = @ \cup {req_id_seed[n]}]
  /\ queue' = [queue EXCEPT ![n] = Append(@, req_id_seed[n])]
  /\ asked' = asked \cup {Key(n, req_id_seed[n])}
  /\ UNCHANGED <<boot, inflight, inflight_ts, reqs, ress, req_ids, todo,
                 faults, times, forgotten, unanswered>>

\* Mutant: a message that is sent again gets no new timer.
Resend_MutantOnce(n) ==
  /\ Due(inflight_ts[n], inflight[n]) # {}
  /\ inflight_ts' = [inflight_ts EXCEPT ![n] = AfterDue(@, inflight[n])]
  /\ reqs' = reqs \cup {Key(n, DueId(inflight_ts[n], inflight[n]))}
  /\ UNCHANGED <<boot, req_id_seed, req_data, queue, inflight, ress, req_ids,
                 todo, faults, history>>

\* pop, when a message is due: it goes out again and its timer restarts.
Resend(n) ==
  LET id == DueId(inflight_ts[n], inflight[n]) IN
  /\ Due(inflight_ts[n], inflight[n]) # {}
  /\ inflight_ts' = [inflight_ts EXCEPT
                       ![n] = Stamp(AfterDue(@, inflight[n]), id)]
  /\ reqs' = reqs \cup {Key(n, id)}
  /\ UNCHANGED <<boot, req_id_seed, req_data, queue, inflight, ress, req_ids,
                 todo, faults, history>>

\* pop, when none is due: the first waiting message, if the window is open.
SendNew(n) ==
  LET id == Head(queue[n]) IN
  /\ Due(inflight_ts[n], inflight[n]) = {}
  /\ CanSendNew(n)
  /\ queue' = [queue EXCEPT ![n] = Tail(@)]
  /\ inflight' = [inflight EXCEPT ![n] = @ \cup {id}]
  /\ inflight_ts' = [inflight_ts EXCEPT ![n] = Stamp(NoneDue(@), id)]
  /\ reqs' = reqs \cup {Key(n, id)}
  /\ UNCHANGED <<boot, req_id_seed, req_data, ress, req_ids, todo,
                 faults, history>>

\* pop, when there is nothing to send: only the old timers go.
PopNone(n) ==
  /\ Due(inflight_ts[n], inflight[n]) = {}
  /\ ~CanSendNew(n)
  /\ NoneDue(inflight_ts[n]) # inflight_ts[n]
  /\ inflight_ts' = [inflight_ts EXCEPT ![n] = NoneDue(@)]
  /\ UNCHANGED <<boot, req_id_seed, req_data, queue, inflight, reqs, ress,
                 req_ids, todo, faults, history>>

\* Time passes for the timers of n.
Older(n) ==
  /\ \E g \in DOMAIN inflight_ts[n] : inflight_ts[n][g].age < ResendAfter
  /\ inflight_ts' = [inflight_ts EXCEPT ![n] =
       [g \in DOMAIN @ |-> IF @[g].age < ResendAfter
                           THEN [age |-> @[g].age + 1, ids |-> @[g].ids]
                           ELSE @[g]]]
  /\ UNCHANGED <<boot, req_id_seed, req_data, queue, inflight, reqs, ress,
                 req_ids, todo, faults, history>>

\* Mutant: an answer settles all requests.
OnResponse_MutantAll(n, k) ==
  /\ k \in ress /\ k[1] = n
  /\ ress' = ress \ {k}
  /\ req_data' = [req_data EXCEPT ![n] = {}]
  /\ inflight' = [inflight EXCEPT ![n] = {}]
  /\ UNCHANGED <<boot, req_id_seed, queue, inflight_ts, reqs, req_ids, todo,
                 faults, history>>

\* An answer carries the number of its request and nothing else. One that is
\* not expected is dropped.
OnResponse(n, k) ==
  /\ k \in ress /\ k[1] = n
  /\ ress' = ress \ {k}
  /\ req_data' = [req_data EXCEPT ![n] = @ \ {k[3]}]
  /\ inflight' = [inflight EXCEPT
                    ![n] = IF k[3] \in req_data[n] THEN @ \ {k[3]} ELSE @]
  /\ UNCHANGED <<boot, req_id_seed, queue, inflight_ts, reqs, req_ids, todo,
                 faults, history>>

\* The node starts again: an empty agent that counts from 0.
Restart(n) ==
  /\ faults < MaxFaults
  /\ faults' = faults + 1
  /\ boot' = [boot EXCEPT ![n] = @ + 1]
  /\ req_id_seed' = [req_id_seed EXCEPT ![n] = 0]
  /\ req_data' = [req_data EXCEPT ![n] = {}]
  /\ queue' = [queue EXCEPT ![n] = <<>>]
  /\ inflight' = [inflight EXCEPT ![n] = {}]
  /\ inflight_ts' = [inflight_ts EXCEPT ![n] = <<>>]
  /\ UNCHANGED <<reqs, ress, req_ids, todo, history>>

------------------------------------------------------------------------------
(* The connector.                                                          *)

\* LruCache::put of a key that is there: it becomes the youngest.
Touch(s, k) ==
  LET i == CHOOSE i \in DOMAIN s : s[i] = k
  IN [j \in DOMAIN s |-> IF j < i THEN s[j]
                         ELSE IF j = Len(s) THEN k ELSE s[j + 1]]
\* Mutant: the handler does not look up what it has seen.
Remembered_MutantNever(k) == FALSE
Remembered(k) == k \in Range(req_ids)
Full == Len(req_ids) >= LruCap

\* The handler hands a request it has not seen to the storage, and drops one
\* it has: it does not answer that one again.
OnRequest(k, again) ==
  /\ k \in reqs
  /\ Remembered(k) \/ times[k] < MaxTimes
  /\ reqs' = IF again THEN reqs ELSE reqs \ {k}
  /\ IF Remembered(k)
     THEN /\ req_ids' = Touch(req_ids, k)
          /\ UNCHANGED <<todo, times, forgotten>>
     ELSE /\ req_ids' = Append(IF Full THEN Tail(req_ids) ELSE req_ids, k)
          /\ forgotten' = (forgotten \ {k}) \cup
                          (IF Full THEN {Head(req_ids)} ELSE {})
          /\ todo' = Append(todo, k)
          /\ times' = [times EXCEPT ![k] = @ + 1]
  /\ UNCHANGED <<agent, ress, faults, asked, unanswered>>

\* The storage is done with the oldest request, and its answer, a result or
\* an error, goes out to the node the request came from.
Answer ==
  /\ todo # <<>>
  /\ todo' = Tail(todo)
  /\ ress' = ress \cup {Head(todo)}
  /\ UNCHANGED <<agent, reqs, req_ids, faults, history>>

\* The connector starts again and remembers nothing.
Crash ==
  /\ faults < MaxFaults
  /\ faults' = faults + 1
  /\ req_ids' = <<>> /\ todo' = <<>>
  /\ forgotten' = forgotten \cup Range(req_ids)
  /\ UNCHANGED <<agent, reqs, ress, asked, times, unanswered>>

(* The network.                                                            *)
LoseRequest(k) ==
  /\ k \in reqs
  /\ reqs' = reqs \ {k}
  /\ UNCHANGED <<agent, ress, req_ids, todo, faults, history>>

LoseAnswer(k) ==
  /\ k \in ress /\ faults < MaxFaults
  /\ faults' = faults + 1
  /\ ress' = ress \ {k}
  /\ unanswered' = unanswered \cup {k}
  /\ UNCHANGED <<agent, reqs, req_ids, todo, asked, times, forgotten>>

Next ==
  \/ \E n \in Nodes : \/ Request(n) \/ Resend(n) \/ SendNew(n) \/ PopNone(n)
                      \/ Older(n) \/ Restart(n)
                      \/ \E k \in ress : OnResponse(n, k)
  \/ \E k \in reqs : LoseRequest(k) \/ \E again \in BOOLEAN : OnRequest(k, again)
  \/ \E k \in ress : LoseAnswer(k)
  \/ Answer \/ Crash

Spec == Init /\ [][Next]_vars

(* What is polled on every loop keeps happening. A request that is sent    *)
(* again and again arrives, and an answer that is not lost arrives.        *)
Fairness ==
  /\ \A n \in Nodes : /\ WF_vars(Resend(n)) /\ SF_vars(SendNew(n))
                      /\ WF_vars(Older(n))
                      /\ \A k \in Keys : WF_vars(OnResponse(n, k))
  /\ \A k \in Keys : SF_vars(OnRequest(k, FALSE))
  /\ WF_vars(Answer)

FairSpec == Spec /\ Fairness

------------------------------------------------------------------------------
\* Every part of the state has the type the code gives it.
TypeOK ==
  /\ boot \in [Nodes -> 0 .. MaxFaults]
  /\ req_id_seed \in [Nodes -> 0 .. MaxAsk]
  /\ req_data \in [Nodes -> SUBSET Ids]
  /\ queue \in [Nodes -> Seq(Ids)]
  /\ inflight \in [Nodes -> SUBSET Ids]
  /\ \A n \in Nodes : \A e \in Range(inflight_ts[n]) :
       /\ e.age \in 0 .. ResendAfter
       /\ e.ids \in Seq(Ids) \ {<<>>}
  /\ reqs \subseteq Keys /\ ress \subseteq Keys
  /\ req_ids \in Seq(Keys) /\ todo \in Seq(Keys)
  /\ asked \subseteq Keys /\ forgotten \subseteq Keys
  /\ unanswered \subseteq Keys
  /\ times \in [Keys -> Nat]

\* The places in the timers where id stands, and that there is exactly one.
Stands(ts, id, g, i) == g \in DOMAIN ts /\ i \in DOMAIN ts[g].ids /\ ts[g].ids[i] = id
OneTimer(ts, id) ==
  \E g \in DOMAIN ts : \E i \in DOMAIN ts[g].ids :
    /\ Stands(ts, id, g, i)
    /\ \A h \in DOMAIN ts : \A j \in DOMAIN ts[h].ids :
         Stands(ts, id, h, j) => h = g /\ j = i

\* An entry is older than those behind it, or as old as is counted.
InOrder(ts) ==
  \A g, h \in DOMAIN ts : g < h => ts[g].age > ts[h].age \/ ts[g].age = ResendAfter

\* Until the node restarts, a request that is not answered is waiting or in
\* flight and never both, one in flight has exactly one timer, so that it will
\* be sent again and `get(&msg_id).expect("should exist retry_msg_id")` holds,
\* and the timers stand in the order of their age (MessageQueue::pop).
ResendArmed ==
  \A n \in Nodes : boot[n] = 0 =>
    /\ req_data[n] = Range(queue[n]) \cup inflight[n]
    /\ Range(queue[n]) \cap inflight[n] = {}
    /\ Cardinality(inflight[n]) <= MaxInflight
    /\ \A id \in inflight[n] : OneTimer(inflight_ts[n], id)
    /\ InOrder(inflight_ts[n])

\* Until the node restarts, a request leaves the agent's books only after the
\* connector has handed it to the storage (ConnectorAgentService::on_input).
\* After a restart it may not: numbers start again, and a late answer to the
\* request that had the number before is taken for the answer to the new one.
AckedWasTaken ==
  \A n \in Nodes : boot[n] = 0 =>
    \A id \in Ids : id < req_id_seed[n] /\ id \notin req_data[n]
                    => times[Key(n, id)] > 0

Log == INSTANCE RequestLog

\* The whole is a log that takes a request once, and again only after the
\* connector has forgotten it (ConnectorHandlerService::on_input).
TakenOnce == Log!Spec

\* Every place of the window is held by a request whose answer was lost. The
\* handler does not answer a request again, so the place stays held.
Stuck(n) == /\ Cardinality(inflight[n]) = MaxInflight
            /\ \A id \in inflight[n] : Key(n, id) \in unanswered

\* A request reaches the storage unless its node restarts first or the window
\* is held by requests whose answers were lost (MessageQueue::pop, resending).
Reported ==
  \A n \in Nodes, id \in Ids :
    <<n, 0, id>> \in asked
      ~> (times[<<n, 0, id>>] > 0 \/ boot[n] > 0 \/ Stuck(n))
=============================================================================
