------------------------------ MODULE MediaNode ------------------------------
(***************************************************************************)
(* A media node: the HTTP and gateway handlers that turn a client's call   *)
(* into an RPC (bin/src/http/api_media, server/media/rpc_handler.rs), the  *)
(* main loop that hands it to a worker and passes the answer back          *)
(* (server/media.rs), and the workers with their task groups of WebRTC and *)
(* RTPEngine sessions and the UDP port the WebRTC sessions share           *)
(* (media_runner/src/worker.rs, worker.rs of both transports,             *)
(* transport_webrtc/src/shared_port.rs).                                   *)
(*                                                                         *)
(* A session is named by the request that created it.  What it does inside *)
(* is the subject of WebrtcSession, RtpEngine and Endpoint; here it        *)
(* answers, and ends.  A worker takes its next input only when it has      *)
(* popped every output of the last one.                                    *)
(***************************************************************************)
EXTENDS Integers, Sequences, FiniteSets

CONSTANTS
    NumWorkers,     \* workers of the node
    NumSlots,       \* places of a task group (a bound: the real one grows)
    Addrs,          \* addresses of clients
    Modes,          \* protocols used, where the calls come from, and bounds: how
                    \* many calls, how many that wait at the same time, which
                    \* workers are told to stop
    Node, Boot      \* node_id and node_session

VARIABLES
    mode,       \* member of Modes
    requests,   \* the calls, oldest first
    rx,         \* req_rx: calls on their way to the main loop
    reqs,       \* the main loop's map of calls that wait for an answer
    inbox,      \* per worker: what the main loop sent it
    group,      \* per worker and kind: slot -> session, 0 when free
    port,       \* per worker: SharedUdpPort
    out,        \* per worker: outputs not yet popped
    events,     \* answers on their way to the main loop
    shutdown    \* per worker: MediaRuntimeWorker::shutdown

vars == <<mode, requests, rx, reqs, inbox, group, port, out, events, shutdown>>
mainVars == <<mode, rx, reqs, events>>

Workers == 0 .. NumWorkers - 1
Slots == 0 .. NumSlots - 1
NoSlot == -1
NoConn == [none |-> TRUE]
Ids == DOMAIN requests

------------------------------------------------------------------------------
(* Connection ids *)

Numeral == <<"0", "1", "2", "3", "4", "5", "6", "7", "8", "9">>
IsNumeral(c) == \E n \in DOMAIN Numeral : Numeral[n] = c
Number(c) == (CHOOSE n \in DOMAIN Numeral : Numeral[n] = c) - 1

\* Display of ClusterConnId, which ends with the one of ServerConnId.
to_string(c) ==
    <<Numeral[c.node + 1], "-", Numeral[c.session + 1], "-", Numeral[c.worker + 1], ",", Numeral[c.index + 1]>>

\* FromStr: the parts between the separators are numbers; parts after the
\* last one that is needed are not looked at.
from_str(s) ==
    IF /\ Len(s) >= 7 /\ \A k \in {1, 3, 5, 7} : IsNumeral(s[k])
       /\ s[2] = "-" /\ s[4] = "-" /\ s[6] = ","
    THEN [node |-> Number(s[1]), session |-> Number(s[3]), worker |-> Number(s[5]), index |-> Number(s[7])]
    ELSE NoConn

\* ConnLayer::up of a slot's index, through the worker, to the cluster.
UpToWorker(i, w) == [worker |-> w, index |-> i]
UpToCluster(c) == [node |-> Node, session |-> Boot, worker |-> c.worker, index |-> c.index]

\* ConnLayer::down: the node part is dropped, the worker part is returned.
DownFromCluster(c) == [worker |-> c.worker, index |-> c.index]
DownFromWorker(c) == c.index

\* Texts of an earlier run of this node, which may have had more workers.
OldTexts == {to_string([node |-> Node, session |-> Boot - 1, worker |-> w, index |-> 0]) : w \in {0, NumWorkers}}
Garbled == <<Numeral[Node + 1], "-", Numeral[Boot + 1]>>

------------------------------------------------------------------------------
(* The clients' calls *)

Creates == {"Connect", "CreateOffer", "CreateAnswer"}
GroupOf(proto) == IF proto = "rtpengine" THEN "rtpengine" ELSE "webrtc"

\* A client: the text it was given, and the call that gave it (0: none here).
Clients(proto) ==
    {[by |-> 0, text |-> t] : t \in OldTexts \cup {Garbled}}
        \cup {[by |-> k, text |-> requests[k].conn] : k \in {j \in Ids : requests[j].proto = proto /\ requests[j].reply = "ok"
                                                                          /\ requests[j].conn # <<>>}}

\* conn: the id it is given; astray: it reached a session that is not the one
\* it is about, which lives; lost: nobody will answer; late: it made a session
\* on a worker that was told to stop.
Call(proto, op, by, text) ==
    [proto |-> proto, op |-> op, by |-> by, text |-> text, reply |-> "none", conn |-> <<>>,
     astray |-> FALSE, lost |-> FALSE, late |-> FALSE]

Asked(r) ==
    /\ Len(requests) < mode.calls
    /\ Cardinality({k \in Ids : requests[k].reply = "none"}) < mode.waiting
    /\ requests' = Append(requests, r)
    /\ rx' = Append(rx, Len(requests) + 1)
    /\ UNCHANGED <<mode, reqs, inbox, group, port, out, events, shutdown>>

From(via, proto) == mode.via = via /\ proto \in mode.protos

\* A call that makes a session.  Without a valid token (module Access) or,
\* from a gateway, with a message that does not convert, it is refused at once
\* and leaves no trace.
Create(via, proto, op) == From(via, proto) /\ Asked(Call(proto, op, 0, <<>>))

\* A call about a session: refused at once when its id cannot be read.
Named(via, proto, op) ==
    /\ From(via, proto)
    /\ \E c \in Clients(proto) : from_str(c.text) # NoConn /\ Asked(Call(proto, op, c.by, c.text))

whip_create == Create("http", "whip", "Connect")
conn_whip_patch == Named("http", "whip", "RemoteIce")
conn_whip_delete == Named("http", "whip", "Delete")
whep_create == Create("http", "whep", "Connect")
conn_whep_patch == Named("http", "whep", "RemoteIce")
conn_whep_delete == Named("http", "whep", "Delete")
webrtc_connect == Create("http", "webrtc", "Connect")
webrtc_ice_candidate == Named("http", "webrtc", "RemoteIce")
webrtc_restart_ice == Named("http", "webrtc", "RestartIce")
create_offer == Create("http", "rtpengine", "CreateOffer")
create_answer == Create("http", "rtpengine", "CreateAnswer")
rtpengine_patch == Named("http", "rtpengine", "SetAnswer")
rtpengine_delete == Named("http", "rtpengine", "Delete")

Http ==
    \/ whip_create \/ conn_whip_patch \/ conn_whip_delete
    \/ whep_create \/ conn_whep_patch \/ conn_whep_delete
    \/ webrtc_connect \/ webrtc_ice_candidate \/ webrtc_restart_ice
    \/ create_offer \/ create_answer \/ rtpengine_patch \/ rtpengine_delete

whip_connect == Create("gateway", "whip", "Connect")
whip_remote_ice == Named("gateway", "whip", "RemoteIce")
whip_close == Named("gateway", "whip", "Delete")
whep_connect == Create("gateway", "whep", "Connect")
whep_remote_ice == Named("gateway", "whep", "RemoteIce")
whep_close == Named("gateway", "whep", "Delete")
gateway_webrtc_connect == Create("gateway", "webrtc", "Connect")
webrtc_remote_ice == Named("gateway", "webrtc", "RemoteIce")
gateway_webrtc_restart_ice == Named("gateway", "webrtc", "RestartIce")
rtp_engine_create_offer == Create("gateway", "rtpengine", "CreateOffer")
rtp_engine_create_answer == Create("gateway", "rtpengine", "CreateAnswer")
rtp_engine_set_answer == Named("gateway", "rtpengine", "SetAnswer")
rtp_engine_delete == Named("gateway", "rtpengine", "Delete")

Gateway ==
    \/ whip_connect \/ whip_remote_ice \/ whip_close
    \/ whep_connect \/ whep_remote_ice \/ whep_close
    \/ gateway_webrtc_connect \/ webrtc_remote_ice \/ gateway_webrtc_restart_ice
    \/ rtp_engine_create_offer \/ rtp_engine_create_answer \/ rtp_engine_set_answer \/ rtp_engine_delete

------------------------------------------------------------------------------
(* The main loop *)

\* RpcReq::down twice: the worker the request names (-1: any) and the slot.
Down(r, named) ==
    IF r.op \in named
    THEN LET server == DownFromCluster(from_str(r.text)) IN [worker |-> server.worker, index |-> DownFromWorker(server)]
    ELSE [worker |-> -1, index |-> NoSlot]
WhipDown(r) == Down(r, {"RemoteIce", "Delete"})
WhepDown(r) == Down(r, {"RemoteIce", "Delete"})
WebrtcDown(r) == Down(r, {"RemoteIce", "RestartIce", "Delete"})
RtpEngineDown(r) == Down(r, {"SetAnswer", "Delete"})
down(r) ==
    CASE r.proto = "whip" -> WhipDown(r)
      [] r.proto = "whep" -> WhepDown(r)
      [] r.proto = "webrtc" -> WebrtcDown(r)
      [] r.proto = "rtpengine" -> RtpEngineDown(r)

Sent(w, id, index) ==
    inbox' = [inbox EXCEPT ![w] = Append(@, [id |-> id, proto |-> requests[id].proto, op |-> requests[id].op, index |-> index])]

\* The main loop takes a call: to the worker it names, to nobody when that
\* worker does not exist, to any worker when it names none.
Dispatch ==
    /\ rx # <<>>
    /\ rx' = Tail(rx) /\ reqs' = reqs \cup {Head(rx)}
    /\ LET id == Head(rx)
           to == down(requests[id])
       IN IF to.worker = -1
          THEN (\E w \in Workers : Sent(w, id, to.index)) /\ UNCHANGED requests
          ELSE IF to.worker < NumWorkers
               THEN Sent(to.worker, id, to.index) /\ UNCHANGED requests
               ELSE requests' = [requests EXCEPT ![id].lost = TRUE] /\ UNCHANGED inbox
    /\ UNCHANGED <<mode, group, port, out, events, shutdown>>

\* RpcRes::up twice, then the text the handler returns: a client learns an
\* id from the answers that make a session or restart one.
up(e) == IF e.ok /\ e.op \in Creates \cup {"RestartIce"} THEN to_string(UpToCluster(UpToWorker(e.index, e.worker))) ELSE <<>>

\* What the handler that waits makes of the answer: one of another protocol
\* or operation is an internal error.
Reply(r, e) ==
    CASE e.proto # r.proto \/ e.op # r.op -> "internal"
      [] e.ok -> "ok"
      [] OTHER -> "error"

\* What the call was about is over.
Replied(r, e) == [r EXCEPT !.reply = Reply(r, e), !.conn = up(e), !.by = 0, !.text = <<>>]

\* The main loop takes an answer: the call that waits for it ends.
Answer ==
    /\ events # <<>>
    /\ LET e == Head(events) IN
          /\ requests' = IF e.id \in reqs THEN [requests EXCEPT ![e.id] = Replied(@, e)] ELSE requests
          /\ reqs' = reqs \ {e.id}
    /\ events' = Tail(events)
    /\ UNCHANGED <<mode, rx, inbox, group, port, out, shutdown>>

------------------------------------------------------------------------------
(* SharedUdpPort *)

NoPort == [remotes |-> [a \in Addrs |-> NoSlot], remotes_map |-> [i \in Slots |-> {}],
           ufrags |-> {}, ufrags_reverse |-> [i \in Slots |-> 0], learnt |-> [a \in Addrs |-> 0]]

\* A session's user fragment is named by the session.
add_ufrag(p, sid, i) == [p EXCEPT !.ufrags = @ \cup {<<sid, i>>}, !.ufrags_reverse[i] = sid]

\* The addresses of the task stay known.
remove_task_MutantKeeps(p, i) ==
    IF p.ufrags_reverse[i] = 0 THEN p
    ELSE [p EXCEPT !.ufrags_reverse[i] = 0, !.ufrags = @ \ {<<p.ufrags_reverse[i], i>>}, !.remotes_map[i] = {}]

remove_task(p, i) ==
    IF p.ufrags_reverse[i] = 0 THEN p
    ELSE [p EXCEPT !.ufrags_reverse[i] = 0, !.ufrags = @ \ {<<p.ufrags_reverse[i], i>>}, !.remotes_map[i] = {},
                   !.remotes = [a \in Addrs |-> IF a \in p.remotes_map[i] THEN NoSlot ELSE p.remotes[a]],
                   !.learnt = [a \in Addrs |-> IF a \in p.remotes_map[i] THEN 0 ELSE p.learnt[a]]]

\* A packet of an unknown address is mapped by the user name of its STUN
\* message; learnt remembers the session that name belonged to.
map_remote(p, a, sid) ==
    IF p.remotes[a] # NoSlot \/ ~\E i \in Slots : <<sid, i>> \in p.ufrags THEN p
    ELSE LET i == CHOOSE s \in Slots : <<sid, s>> \in p.ufrags
         IN [p EXCEPT !.remotes[a] = i, !.remotes_map[i] = @ \cup {a}, !.learnt[a] = sid]

------------------------------------------------------------------------------
(* A worker *)

Drained(w) == out[w] = <<>>
Tasks(w, kind) == {i \in Slots : group[w][kind][i] # 0}
Lives(sid) == \E w \in Workers, k \in {"webrtc", "rtpengine"}, i \in Slots : group[w][k][i] = sid

\* TaskGroup::add_task: the first free place is taken again.
FirstFree(w, kind) == {i \in Slots \ Tasks(w, kind) : \A j \in Slots \ Tasks(w, kind) : i <= j}

Res(m, ok, i) == [what |-> "res", id |-> m.id, proto |-> m.proto, op |-> m.op, ok |-> ok, index |-> i]
Empty(kind, i) == [what |-> "empty", kind |-> kind, index |-> i]

\* MediaWorkerWebrtc::spawn: the offer may be refused; the session
\* takes a place and its user fragment is added to the port.
SpawnWebrtc(w, m) ==
    \/ /\ out' = [out EXCEPT ![w] = <<Res(m, FALSE, NoSlot)>>]
       /\ UNCHANGED <<requests, group, port>>
    \/ \E i \in FirstFree(w, "webrtc") :
          /\ group' = [group EXCEPT ![w]["webrtc"][i] = m.id]
          /\ port' = [port EXCEPT ![w] = add_ufrag(@, m.id, i)]
          /\ out' = [out EXCEPT ![w] = <<Res(m, TRUE, i)>>]
          /\ requests' = [requests EXCEPT ![m.id].late = shutdown[w]]

\* MediaWorkerRtpEngine::spawn
SpawnRtpEngine(w, m) ==
    \/ /\ out' = [out EXCEPT ![w] = <<Res(m, FALSE, NoSlot)>>]
       /\ UNCHANGED <<requests, group, port>>
    \/ \E i \in FirstFree(w, "rtpengine") :
          /\ group' = [group EXCEPT ![w]["rtpengine"][i] = m.id]
          /\ out' = [out EXCEPT ![w] = <<Res(m, TRUE, i)>>]
          /\ requests' = [requests EXCEPT ![m.id].late = shutdown[w]]
          /\ UNCHANGED port

\* Does the call reach another session although the one it is about lives?
Reached(w, m, kind) ==
    LET by == requests[m.id].by
    IN requests' = [requests EXCEPT ![m.id].astray = by # 0 /\ Lives(by) /\ group[w][kind][m.index] # by]

\* A task that is gone gives no answer.
WebrtcExt_MutantSilent(w, m) ==
    IF m.index \in Tasks(w, "webrtc")
    THEN /\ Reached(w, m, "webrtc")
         /\ out' = [out EXCEPT ![w] = <<Res(m, TRUE, m.index)>>]
         /\ UNCHANGED <<group, port>>
    ELSE UNCHANGED <<requests, group, port, out>>

\* MediaWorkerWebrtc::on_event, Ext: a session answers (Delete also ends it);
\* without one, RestartIce makes a new one and the others are errors.
WebrtcExt(w, m) ==
    IF m.index \in Tasks(w, "webrtc")
    THEN /\ Reached(w, m, "webrtc")
         /\ \E ok \in IF m.op = "RestartIce" THEN BOOLEAN ELSE {TRUE} :
               out' = [out EXCEPT ![w] = <<Res(m, ok, m.index)>> \o IF m.op = "Delete" THEN <<Empty("webrtc", m.index)>> ELSE <<>>]
         /\ UNCHANGED <<group, port>>
    ELSE IF m.op = "RestartIce"
         THEN SpawnWebrtc(w, m)
         ELSE out' = [out EXCEPT ![w] = <<Res(m, FALSE, m.index)>>] /\ UNCHANGED <<requests, group, port>>

\* MediaWorkerRtpEngine::on_event, Ext: an input of a missing task is dropped,
\* and nobody answers the call.  Delete does not end the session.
RtpEngineExt(w, m) ==
    IF m.index \in Tasks(w, "rtpengine")
    THEN /\ Reached(w, m, "rtpengine")
         /\ \E ok \in IF m.op = "SetAnswer" THEN BOOLEAN ELSE {TRUE} : out' = [out EXCEPT ![w] = <<Res(m, ok, m.index)>>]
         /\ UNCHANGED <<group, port>>
    ELSE requests' = [requests EXCEPT ![m.id].lost = TRUE] /\ UNCHANGED <<group, port, out>>

WhipRpc(w, m) == IF m.op = "Connect" THEN SpawnWebrtc(w, m) ELSE WebrtcExt(w, m)
WhepRpc(w, m) == IF m.op = "Connect" THEN SpawnWebrtc(w, m) ELSE WebrtcExt(w, m)
WebrtcRpc(w, m) == IF m.op = "Connect" THEN SpawnWebrtc(w, m) ELSE WebrtcExt(w, m)
RtpEngineRpc(w, m) == IF m.op \in {"CreateOffer", "CreateAnswer"} THEN SpawnRtpEngine(w, m) ELSE RtpEngineExt(w, m)

\* MediaServerWorker::process_rpc
process_rpc(w, m) ==
    \/ m.proto = "whip" /\ WhipRpc(w, m)
    \/ m.proto = "whep" /\ WhepRpc(w, m)
    \/ m.proto = "webrtc" /\ WebrtcRpc(w, m)
    \/ m.proto = "rtpengine" /\ RtpEngineRpc(w, m)

Receive(w) ==
    /\ Drained(w) /\ inbox[w] # <<>>
    /\ process_rpc(w, Head(inbox[w]))
    /\ inbox' = [inbox EXCEPT ![w] = Tail(@)]
    /\ UNCHANGED <<mainVars, shutdown>>

\* A STUN message of a client of session sid reaches the worker's port.
UdpPacket(w, a, sid) ==
    /\ Drained(w)
    /\ port' = [port EXCEPT ![w] = map_remote(@, a, sid)]
    /\ UNCHANGED <<mainVars, requests, inbox, group, out, shutdown>>

\* A session ends by itself: its client left, or it timed out.
SessionEnds(w, kind, i) ==
    /\ Drained(w) /\ i \in Tasks(w, kind)
    /\ out' = [out EXCEPT ![w] = <<Empty(kind, i)>>]
    /\ UNCHANGED <<mainVars, requests, inbox, group, port, shutdown>>

\* on_shutdown of the worker and its groups: every session is told to end.
Shutdown(w) ==
    /\ w \in mode.stops /\ Drained(w) /\ ~shutdown[w]
    /\ shutdown' = [shutdown EXCEPT ![w] = TRUE]
    /\ \E webrtc \in [1 .. Cardinality(Tasks(w, "webrtc")) -> Slots],
          rtpengine \in [1 .. Cardinality(Tasks(w, "rtpengine")) -> Slots] :
          /\ {webrtc[k] : k \in DOMAIN webrtc} = Tasks(w, "webrtc")
          /\ {rtpengine[k] : k \in DOMAIN rtpengine} = Tasks(w, "rtpengine")
          /\ out' = [out EXCEPT ![w] = [k \in DOMAIN webrtc |-> Empty("webrtc", webrtc[k])]
                                          \o [k \in DOMAIN rtpengine |-> Empty("rtpengine", rtpengine[k])]]
    /\ UNCHANGED <<mainVars, requests, inbox, group, port>>

\* process_out of MediaRuntimeWorker: the answer leaves with the worker's index.
process_out(w, o) ==
    /\ events' = Append(events, [id |-> o.id, worker |-> w, proto |-> o.proto, op |-> o.op, ok |-> o.ok, index |-> o.index])
    /\ UNCHANGED <<group, port>>

\* Ext: the answer of a session, for the protocol that asked it.
output_webrtc(w, o) == o.what = "res" /\ GroupOf(o.proto) = "webrtc" /\ process_out(w, o)
output_rtpengine(w, o) == o.what = "res" /\ GroupOf(o.proto) = "rtpengine" /\ process_out(w, o)

\* process_output, OnResourceEmpty: the task goes, and its traces in the port.
EmptyWebrtc(w, o) ==
    /\ o.what = "empty" /\ o.kind = "webrtc"
    /\ group' = [group EXCEPT ![w].webrtc[o.index] = 0]
    /\ port' = [port EXCEPT ![w] = remove_task(@, o.index)]
    /\ UNCHANGED events

EmptyRtpEngine(w, o) ==
    /\ o.what = "empty" /\ o.kind = "rtpengine"
    /\ group' = [group EXCEPT ![w].rtpengine[o.index] = 0]
    /\ UNCHANGED <<events, port>>

Pop(w) ==
    /\ out[w] # <<>>
    /\ LET o == Head(out[w]) IN
          output_webrtc(w, o) \/ output_rtpengine(w, o) \/ EmptyWebrtc(w, o) \/ EmptyRtpEngine(w, o)
    /\ out' = [out EXCEPT ![w] = Tail(@)]
    /\ UNCHANGED <<mode, requests, rx, reqs, inbox, shutdown>>

------------------------------------------------------------------------------
Init ==
    /\ mode \in Modes
    /\ requests = <<>> /\ rx = <<>> /\ reqs = {} /\ events = <<>>
    /\ inbox = [w \in Workers |-> <<>>]
    /\ group = [w \in Workers |-> [k \in {"webrtc", "rtpengine"} |-> [i \in Slots |-> 0]]]
    /\ port = [w \in Workers |-> NoPort]
    /\ out = [w \in Workers |-> <<>>]
    /\ shutdown = [w \in Workers |-> FALSE]

WorkerStep(w) ==
    \/ Receive(w) \/ Pop(w) \/ Shutdown(w)
    \/ \E a \in Addrs, sid \in Ids : UdpPacket(w, a, sid)
    \/ \E kind \in {"webrtc", "rtpengine"}, i \in Slots : SessionEnds(w, kind, i)

Next == Http \/ Gateway \/ Dispatch \/ Answer \/ \E w \in Workers : WorkerStep(w)

Spec == Init /\ [][Next]_vars

\* The main loop and the workers poll their queues all the time.
Fairness ==
    /\ WF_vars(Dispatch) /\ WF_vars(Answer)
    /\ \A w \in Workers : WF_vars(Pop(w)) /\ SF_vars(Receive(w))

------------------------------------------------------------------------------
(* Properties *)

\* Calls, queues, groups and port have their types.
TypeOK ==
    /\ \A k \in Ids : requests[k].reply \in {"none", "ok", "error", "internal"}
    /\ reqs \subseteq Ids
    /\ group \in [Workers -> [{"webrtc", "rtpengine"} -> [Slots -> 0 .. mode.calls]]]
    /\ \A w \in Workers : port[w].remotes \in [Addrs -> Slots \cup {NoSlot}]
    /\ shutdown \in [Workers -> BOOLEAN]

\* No handler is given an answer that is not its own: a call gets one answer,
\* of its protocol and operation, and then leaves the main loop's map
\* (media.rs reqs, output_webrtc, output_rtpengine, rpc_handler.rs).
AnsweredRight ==
    \A k \in Ids : /\ requests[k].reply # "internal"
                   /\ requests[k].reply # "none" => k \notin reqs

\* As long as a session lives, the id its client holds names its worker and
\* its place, through the layers up, the text and the layers down
\* (endpoint.rs ConnLayer, FromStr, Display).
ConnNamesSession ==
    \A k \in Ids : requests[k].conn # <<>> =>
        \A w \in Workers, i \in Slots :
            group[w][GroupOf(requests[k].proto)][i] = k => down([proto |-> requests[k].proto, op |-> "Delete", text |-> requests[k].conn])
                                                                = [worker |-> w, index |-> i]

\* A call about a session that still lives reaches that session and no other,
\* whatever places were freed and taken again in between.
ReachesOwn == \A k \in Ids : ~requests[k].astray

\* An address known to the shared port leads to a live session, the one whose
\* user name the address was learnt with, also when the place of an earlier
\* session is taken again (shared_port.rs).
RemotesAlive ==
    \A w \in Workers : Drained(w) =>
        /\ \A a \in Addrs : port[w].remotes[a] # NoSlot =>
              /\ group[w]["webrtc"][port[w].remotes[a]] = port[w].learnt[a]
              /\ a \in port[w].remotes_map[port[w].remotes[a]]
        /\ port[w].ufrags = {<<group[w]["webrtc"][i], i>> : i \in Tasks(w, "webrtc")}

\* When a worker that was told to stop has popped its outputs, the only
\* sessions left are those it made after it was told (worker.rs on_shutdown).
ShutdownEndsAll ==
    \A w \in Workers, kind \in {"webrtc", "rtpengine"} :
        shutdown[w] /\ Drained(w) => \A i \in Tasks(w, kind) : requests[group[w][kind][i]].late

\* Every call is answered in the end, except one for a worker the node does
\* not have and one for an RTPEngine session that is gone.
AllAnswered == []<>(\A k \in Ids : requests[k].reply # "none" \/ requests[k].lost)
==============================================================================
