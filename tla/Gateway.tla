------------------------------ MODULE Gateway -------------------------------
(***************************************************************************)
(* The gateways: the agents of media nodes that ping the gateways of their *)
(* zone (agent_service), the stores in which a gateway keeps the nodes of  *)
(* its zone and the gateways of other zones (store, store/service,         *)
(* store_service), and the way of a request from gateway to gateway to a   *)
(* media node (dest_selector, local_rpc_handler, remote_rpc_handler).      *)
(*                                                                         *)
(* A ping either arrives or is lost. A source is kept with its age, in     *)
(* ticks of the gateway (one second), instead of the time it was updated.  *)
(***************************************************************************)
EXTENDS Integers, Sequences, FiniteSets

CONSTANTS Media, Gateways,
          Spare,              \* media nodes that do not run while requests come (bound)
          ZoneOf,             \* the zone of every node
          At,                 \* where a zone is, on a line
          Places,             \* where users are
          Loads,              \* what a node measures: cpu, memory, disk, live
          Serves,             \* the kinds a media node serves
          Capacity,           \* sessions a media node takes of each kind
          MaxCpu, MaxMemory, MaxDisk,
          PingTimeout,        \* PING_TIMEOUT, in ticks
          MaxChanges,         \* changes of load, starts, stops, lost pings (bound)
          MaxHops             \* gateways a request goes through (bound)

Servers == Media \cup Gateways
Kinds == {"webrtc", "rtpengine"}

VARIABLES
  waiting,                    \* the nodes that have yet to tick in this second
  load,                       \* of a node: an element of Loads
  up,                         \* the media nodes that run
  store,                      \* of a gateway, for each kind: local, zones
  heard,                      \* what the last ping of a node told a gateway
  calls,                      \* chosen at the start: requests come, and then nodes stop
                              \* and start but no ping is lost and no load changes (bound)
  req,                        \* the request under way
  open,                       \* routings a gateway reported the begin of, not the end
  changes

vars == <<waiting, load, up, store, heard, calls, req, open, changes>>

Nil == "none"
Absent == -1                  \* an Option<u8> or Option<u32> that is None

Distance(x, y) == IF x < y THEN y - x ELSE x - y
Larger(x, y) == IF x < y THEN y ELSE x

------------------------------------------------------------------------------
(* What a ping says.                                                       *)

\* The stats of a service: its live sessions over all workers and its maximum.
Stats(live, max) == [live |-> live, max |-> max, active |-> TRUE]
NoStats == [live |-> Absent, max |-> Absent, active |-> FALSE]

\* A ping of a media node (GatewayAgentService::on_shared_input).
MediaPing(n) == [from |-> n, load |-> load[n],
                 stats |-> [k \in Kinds |->
                   IF k \notin Serves[n] THEN NoStats
                   ELSE Stats(load[n].live[k], Capacity)]]

\* node_usage, webrtc_usage and rtpengine_usage. The share of sessions is cut
\* to a byte.
Overloaded(p) == \/ p.load.cpu >= MaxCpu
                 \/ p.load.memory >= MaxMemory
                 \/ p.load.disk >= MaxDisk
node_usage(p) == IF Overloaded(p) THEN Absent ELSE p.load.cpu
service_usage(p, k) ==
  IF Overloaded(p) \/ p.stats[k] = NoStats \/ ~p.stats[k].active THEN Absent
  ELSE Larger(p.load.cpu, ((p.stats[k].live * 100) \div p.stats[k].max) % 256)

------------------------------------------------------------------------------
(* ServiceStore.                                                           *)
Empty == [local |-> <<>>, zones |-> <<>>]
Source(n, usage, stats) == [node |-> n, usage |-> usage, stats |-> stats, age |-> 0]
Position(s, n) == CHOOSE i \in DOMAIN s : s[i].node = n
Known(s, n) == \E i \in DOMAIN s : s[i].node = n
ZoneAt(zs, z) == CHOOSE i \in DOMAIN zs : zs[i].zone = z
KnownZone(zs, z) == \E i \in DOMAIN zs : zs[i].zone = z

\* The stable sort by usage.
Sorted(s) ==
  LET rank(i) == 1 + Cardinality({j \in DOMAIN s :
                   \/ s[j].usage < s[i].usage
                   \/ s[j].usage = s[i].usage /\ j < i})
  IN [p \in DOMAIN s |-> s[CHOOSE i \in DOMAIN s : rank(i) = p]]

\* A source that is known gets a new usage and age. Its stats stay.
Updated(s, n, usage, stats) ==
  Sorted(IF Known(s, n)
         THEN [s EXCEPT ![Position(s, n)] = Source(n, usage, @.stats)]
         ELSE Append(s, Source(n, usage, stats)))

on_node_ping(st, n, usage, stats) ==
  [st EXCEPT !.local = Updated(@, n, usage, stats)]

remove_node(st, n) ==
  [st EXCEPT !.local = SelectSeq(@, LAMBDA s : s.node # n)]

on_gateway_ping(st, z, g, usage, stats) ==
  IF KnownZone(st.zones, z)
  THEN [st EXCEPT !.zones[ZoneAt(st.zones, z)].gateways = Updated(@, g, usage, stats)]
  ELSE [st EXCEPT !.zones = Append(@, [zone |-> z,
                      gateways |-> <<Source(g, usage, stats)>>])]

\* Mutant: a gateway whose zone has no more room stays.
remove_gateway_MutantKeeps(st, z, g) == st
remove_gateway(st, z, g) ==
  LET without(zs) == [i \in DOMAIN zs |-> IF zs[i].zone # z THEN zs[i] ELSE
        [zs[i] EXCEPT !.gateways = SelectSeq(@, LAMBDA s : s.node # g)]]
  IN [st EXCEPT !.zones = SelectSeq(without(@), LAMBDA x : x.gateways # <<>>)]

\* on_tick, a second later.
Aged(s) == SelectSeq([i \in DOMAIN s |-> [s[i] EXCEPT !.age = @ + 1]],
                     LAMBDA x : x.age < PingTimeout)
ServiceTick(st) ==
  [local |-> Aged(st.local),
   zones |-> SelectSeq([i \in DOMAIN st.zones |->
                          [st.zones[i] EXCEPT !.gateways = Aged(@)]],
                       LAMBDA x : x.gateways # <<>>)]

First(s) == IF s = <<>> THEN Nil ELSE s[1].node

\* best_for goes through the zones in the order they were met, and takes one
\* that is nearer to the user than what it has, or when it has nothing.
best_for(st, z, place) ==
  LET best[i \in 0 .. Len(st.zones)] ==
        IF i = 0 THEN [node |-> First(st.local), dis |-> Distance(At[z], place)]
        ELSE LET dis == Distance(At[st.zones[i].zone], place)
             IN IF best[i - 1].node = Nil \/ best[i - 1].dis > dis
                THEN [node |-> First(st.zones[i].gateways), dis |-> dis]
                ELSE best[i - 1]
  IN best[Len(st.zones)].node

dest_for(st, z, n) ==
  IF ZoneOf[n] = z THEN IF Known(st.local, n) THEN n ELSE Nil
  ELSE IF KnownZone(st.zones, ZoneOf[n])
       THEN First(st.zones[ZoneAt(st.zones, ZoneOf[n])].gateways) ELSE Nil

Total(s, field) ==
  LET sum[i \in 0 .. Len(s)] == IF i = 0 THEN 0 ELSE sum[i - 1] + s[i].stats[field]
  IN sum[Len(s)]
local_stats(st) ==
  IF st.local = <<>> THEN NoStats
  ELSE [live |-> Total(st.local, "live"), max |-> Total(st.local, "max"),
        active |-> \E i \in DOMAIN st.local : st.local[i].stats.active]

------------------------------------------------------------------------------
(* GatewayStore.                                                           *)

\* The ping of a gateway's tick: its own load and the stats of its local
\* sources.
GatewayPing(g, st) == [from |-> g, load |-> load[g],
                       stats |-> [k \in Kinds |-> local_stats(st[k])]]

Usable(p, k) == node_usage(p) # Absent /\ service_usage(p, k) # Absent

\* A ping of a media node of the zone.
on_media_ping(st, p) ==
  [k \in Kinds |-> IF Usable(p, k)
                   THEN on_node_ping(st[k], p.from, service_usage(p, k), p.stats[k])
                   ELSE remove_node(st[k], p.from)]

\* A ping of another zone's gateway tells of webrtc only.
on_zone_ping(st, p) ==
  LET z == ZoneOf[p.from]
  IN IF Usable(p, "webrtc")
     THEN [st EXCEPT !["webrtc"] =
             on_gateway_ping(@, z, p.from, node_usage(p), p.stats["webrtc"])]
     ELSE [k \in Kinds |-> remove_gateway(st[k], z, p.from)]

on_ping(g, st, p) ==
  IF p.from \in Media THEN on_media_ping(st, p)
  ELSE IF ZoneOf[p.from] = ZoneOf[g] THEN st
  ELSE on_zone_ping(st, p)

\* The gateways in to handle ping p. heard keeps what it said (-1: no room).
Told(p) == [usage |-> [k \in Kinds |-> service_usage(p, k)], age |-> 0]
Silence == [usage |-> [k \in Kinds |-> Absent], age |-> PingTimeout]
Handle(stores, hs, p, to) ==
  /\ store' = [g \in Gateways |-> IF g \in to THEN on_ping(g, stores[g], p) ELSE stores[g]]
  /\ heard' = [g \in Gateways |-> IF g \in to THEN [hs[g] EXCEPT ![p.from] = Told(p)] ELSE hs[g]]

Idle == [phase |-> "idle"]

\* A node has measured nothing (NodeMetrics::default) and no worker reported.
Start == [cpu |-> 0, memory |-> 0, disk |-> 0, live |-> [k \in Kinds |-> 0]]

\* The nodes there are.
Running == IF calls THEN Servers \ Spare ELSE Servers

Init == /\ calls \in BOOLEAN
        /\ waiting = Running
        /\ load = [n \in Servers |-> Start]
        /\ up = Media \cap Running
        /\ store = [g \in Gateways |-> [k \in Kinds |-> Empty]]
        /\ heard = [g \in Gateways |-> [n \in Servers |-> Silence]]
        /\ req = Idle
        /\ open = [g \in Gateways |-> 0]
        /\ changes = 0

\* All nodes tick once a second, in any order.
Ticks(n) == /\ n \in waiting
            /\ waiting' = IF waiting = {n} THEN Running ELSE waiting \ {n}

\* The gateways in lost do not get the ping.
Loses(lost) == /\ calls => lost = {}
               /\ changes' = changes + Cardinality(lost)
               /\ changes' <= MaxChanges

\* A media node's agent ticks and pings its zone's gateways.
MediaTick(n, lost) ==
  LET to == IF n \in up THEN {g \in Gateways : ZoneOf[g] = ZoneOf[n]} ELSE {}
  IN /\ Ticks(n)
     /\ lost \subseteq to /\ Loses(lost)
     /\ Handle(store, heard, MediaPing(n), to \ lost)
     /\ UNCHANGED <<load, up, calls, req, open>>

Older(h) == [n \in Servers |-> IF h[n].age + 1 < PingTimeout THEN [h[n] EXCEPT !.age = @ + 1]
                             ELSE Silence]

\* A gateway's tick: a second has passed, and all gateways are told.
GatewayTick(g, lost) ==
  LET st == [k \in Kinds |-> ServiceTick(store[g][k])]
      to == Gateways \ {g}
  IN /\ Ticks(g)
     /\ lost \subseteq to /\ Loses(lost)
     /\ Handle([store EXCEPT ![g] = st], [heard EXCEPT ![g] = Older(@)],
               GatewayPing(g, st), to \ lost)
     /\ UNCHANGED <<load, up, calls, req, open>>

\* NodeStats and WorkerUsage: what a node measures changes.
Measure(n, l) ==
  /\ changes < MaxChanges
  /\ ~calls
  /\ load[n] # l
  /\ load' = [load EXCEPT ![n] = l]
  /\ changes' = changes + 1
  /\ UNCHANGED <<waiting, up, store, heard, calls, req, open>>

\* A media node stops, or starts again.
StopStart(n) ==
  /\ changes < MaxChanges
  /\ calls => n \notin Spare
  /\ up' = IF n \in up THEN up \ {n} ELSE up \cup {n}
  /\ changes' = changes + 1
  /\ UNCHANGED <<waiting, load, store, heard, calls, req, open>>

------------------------------------------------------------------------------
(* A request. path holds the gateways it passed, each with whether its     *)
(* table had no local node when it chose.                                  *)

Hop(g) == [gw |-> g, empty |-> FALSE]
UnchangedTables == UNCHANGED <<waiting, load, up, store, heard, calls, changes>>

feedback_route_begin(g) == open' = [open EXCEPT ![g] = @ + 1]

\* A user at a place, or the gateway's own place, asks for a session.
Connect(g, k, place) ==
  /\ calls /\ req = Idle
  /\ req' = [phase |-> "asking", op |-> "connect", kind |-> k, place |-> place,
             target |-> Nil, dest |-> Nil, path |-> <<Hop(g)>>]
  /\ feedback_route_begin(g)
  /\ UnchangedTables

\* A call on the connection at node n goes to dest.
Call(op, n, dest) ==
  /\ calls /\ req = Idle
  /\ req' = IF dest = Nil THEN Idle
            ELSE [phase |-> "sent", op |-> op, kind |-> "webrtc", place |-> 0,
                  target |-> n, dest |-> dest, path |-> <<>>]
  /\ UNCHANGED open
  /\ UnchangedTables

\* FindNodeReq and FindDestReq to the store service.
Chosen(g, k, place) == best_for(store[g][k], ZoneOf[g], place)
Destination(g, k, n) == dest_for(store[g][k], ZoneOf[g], n)

\* The node of the connection if it is known, else the best one.
webrtc_restart_ice(g, n, place) ==
  LET dest == Destination(g, "webrtc", n)
  IN Call("restart", n, IF dest # Nil THEN dest ELSE Chosen(g, "webrtc", place))

\* The calls of the local handler by protocol: connect, then remote_ice and
\* delete, or set_answer and delete, which go to the node of the connection.
Whip(g) == \/ \E p \in Places : Connect(g, "webrtc", p)
           \/ \E n \in Media : Call("ice", n, n)
Whep(g) == \/ \E p \in Places : Connect(g, "webrtc", p)
           \/ \E n \in Media : Call("ice", n, n)
Webrtc(g) == \/ \E p \in Places : Connect(g, "webrtc", p)
             \/ \E n \in Media : Call("ice", n, n)
             \/ \E n \in Media, p \in Places : webrtc_restart_ice(g, n, p)
RtpEngine(g) == \/ Connect(g, "rtpengine", At[ZoneOf[g]])
                \/ \E n \in Media : Call("ice", n, n)
process_req(g) == Whip(g) \/ Whep(g) \/ Webrtc(g) \/ RtpEngine(g)

\* A call is over: feedback_route_success or feedback_route_error by every
\* gateway on the way of a connect.
Passed(g) == Cardinality({i \in DOMAIN req.path : req.path[i].gw = g})
Over == /\ req' = Idle
        /\ open' = [g \in Gateways |-> open[g] - Passed(g)]

\* The selector answers the last gateway of the path. A gateway that got the
\* request from another one asks for webrtc whatever the kind.
Here == req.path[Len(req.path)].gw
SelectKind == IF Len(req.path) = 1 THEN req.kind ELSE "webrtc"
Select ==
  /\ req.phase = "asking"
  /\ LET dest == Chosen(Here, SelectKind, req.place)
     IN \/ /\ dest = Nil
           /\ Over
        \/ /\ dest # Nil
           /\ req' = [req EXCEPT !.phase = "sent", !.dest = dest,
                        !.path[Len(req.path)].empty = store[Here][SelectKind].local = <<>>]
           /\ UNCHANGED open
  /\ UnchangedTables

\* The call reaches a gateway's remote handler: a connect is routed again, a
\* restart goes to the node of the connection.
RemoteCall ==
  /\ req.phase = "sent"
  /\ req.dest \in Gateways
  /\ Len(req.path) < MaxHops
  /\ \/ /\ req.op = "connect"
        /\ req' = [req EXCEPT !.phase = "asking", !.dest = Nil,
                              !.path = Append(@, Hop(req.dest))]
        /\ feedback_route_begin(req.dest)
     \/ /\ req.op # "connect"
        /\ req' = [req EXCEPT !.dest = req.target]
        /\ UNCHANGED open
  /\ UnchangedTables

\* The call is answered by a media node, or fails on the way.
Answered == /\ req.phase = "sent"
            /\ req.dest \in up
            /\ Over
            /\ UnchangedTables
CallFails == /\ req.phase = "sent"
             /\ Over
             /\ UnchangedTables

Next == \/ \E n \in Media : \E lost \in SUBSET Gateways : MediaTick(n, lost)
        \/ \E g \in Gateways : \E lost \in SUBSET Gateways : GatewayTick(g, lost)
        \/ \E n \in Servers, l \in Loads : Measure(n, l)
        \/ \E n \in Media : StopStart(n)
        \/ \E g \in Gateways : process_req(g)
        \/ Select
        \/ RemoteCall
        \/ Answered
        \/ CallFails

Spec == Init /\ [][Next]_vars

\* Time goes on: nodes tick again and again. Some node can always tick, so
\* this is weak fairness of the ticks.
Fairness == []<><<waiting' # waiting>>_vars

------------------------------------------------------------------------------
(* Properties.                                                             *)
Offers(g, n, k) == heard[g][n].usage[k] # Absent
Nearest(g, k, place) ==
  LET st == store[g][k]
      near == {Distance(At[st.zones[i].zone], place) : i \in DOMAIN st.zones}
      least == CHOOSE d \in near : \A e \in near : d <= e
      own == Distance(At[ZoneOf[g]], place)
  IN IF st.zones = <<>> \/ (st.local # <<>> /\ own <= least) THEN First(st.local)
     ELSE LET i == CHOOSE j \in DOMAIN st.zones :
                /\ Distance(At[st.zones[j].zone], place) = least
                /\ \A h \in 1 .. j - 1 : Distance(At[st.zones[h].zone], place) # least
          IN First(st.zones[i].gateways)

TypeOK == /\ load \in [Servers -> Loads \cup {Start}]
          /\ waiting \subseteq Servers /\ waiting # {}
          /\ up \subseteq Media
          /\ changes \in 0 .. MaxChanges
          /\ req.phase \in {"idle", "asking", "sent"}
          /\ req.phase = "sent" => req.dest \in Servers
          /\ \A g \in Gateways, k \in Kinds :
               /\ \A i \in DOMAIN store[g][k].local :
                    store[g][k].local[i].age \in 0 .. PingTimeout - 1
               /\ \A i \in DOMAIN store[g][k].zones : store[g][k].zones[i].gateways # <<>>

\* Whatever pings came, were lost or stopped, a gateway's table of the zone
\* holds just the media nodes whose last ping is younger than the timeout and
\* said they can take more, each with the usage of that ping, the least used
\* first.
LocalTableTrue ==
  \A g \in Gateways, k \in Kinds :
    LET s == store[g][k].local
    IN /\ \A i, j \in DOMAIN s : i < j => s[i].usage <= s[j].usage /\ s[i].node # s[j].node
       /\ \A n \in Media :
            /\ Known(s, n) <=> Offers(g, n, k)
            /\ Known(s, n) => s[Position(s, n)].usage = heard[g][n].usage[k]

\* The same for the gateways of other zones: a zone is there just while some
\* gateway of it has said, within the timeout, that its zone takes sessions;
\* and a gateway's own zone never is.
ZoneTableTrue ==
  \A g \in Gateways :
    LET zs == store[g]["webrtc"].zones
    IN /\ \A i, j \in DOMAIN zs : zs[i].zone = zs[j].zone => i = j
       /\ \A h \in Gateways \ {g} :
            (\E i \in DOMAIN zs : zs[i].zone = ZoneOf[h] /\ Known(zs[i].gateways, h))
              <=> ZoneOf[h] # ZoneOf[g] /\ Offers(g, h, "webrtc")

\* best_for's one pass finds the zone nearest to the user: its own when no
\* other is nearer and it has a node, and of others the first met.
BestIsNearest ==
  \A g \in Gateways, k \in Kinds, p \in Places :
    best_for(store[g][k], ZoneOf[g], p) = Nearest(g, k, p)

\* A request comes back to a gateway it has passed only if a gateway in
\* between had no local node left when it chose: forwarding to a nearer zone
\* alone cannot go round.
RoundNeedsEmpty ==
  req.phase # "idle" /\ req.op = "connect" =>
    \A i, j \in DOMAIN req.path :
      i < j /\ req.path[i].gw = req.path[j].gw
        => \E h \in i .. j - 1 : req.path[h].empty

\* Every routing a gateway reported the begin of gets one end reported,
\* wherever the call ended: there is none open once the request is over, and
\* just the ones it is passing through while it is under way.
EachRouteReported ==
  \A g \in Gateways : open[g] = IF req = Idle THEN 0 ELSE Passed(g)

\* A media node that stops is forgotten by every gateway: again and again
\* no table holds a node that does not run.
StoppedForgotten ==
  []<>(\A n \in Media \ up, g \in Gateways, k \in Kinds : ~Known(store[g][k].local, n))

HasRoom(n) == n \in up /\ Usable(MediaPing(n), "webrtc")

\* Once there is for good a media node with room for webrtc sessions, and the
\* gateways are not overloaded themselves, every gateway of every zone comes
\* to know, for good, where to send a user.
RoomFound ==
  <>[]((\E n \in Media : HasRoom(n)) /\ \A h \in Gateways : load[h].cpu < MaxCpu)
    => <>[](\A g \in Gateways : best_for(store[g]["webrtc"], ZoneOf[g], At[ZoneOf[g]]) # Nil)
=============================================================================
