------------------------------ MODULE Console -------------------------------
(***************************************************************************)
(* The console (bin/src/server/console.rs, console/storage.rs and          *)
(* http/api_console/cluster.rs): it hears of every node of the cluster,    *)
(* keeps the nodes by zone and kind until they are silent for too long, and *)
(* tells a node that starts which nodes it can connect to.                 *)
(*                                                                         *)
(* Time is counted in the periods of the node metrics: once in a period a  *)
(* node that runs tells about itself, and the console ticks its storage.   *)
(***************************************************************************)
EXTENDS Integers, FiniteSets

CONSTANTS
    Nodes,          \* node ids
    Kinds,          \* kinds of the nodes that start here
    Timeout,        \* NODE_TIMEOUT, in periods
    MaxBoots,       \* bound on the starts of nodes
    MaxLost         \* bound on the reports that are lost or late

VARIABLES
    node,       \* node -> what it runs as, and the seeds it was given
    storage,    \* zone -> the nodes of the zone, by kind
    due,        \* nodes that have not yet reported in this period
    late,       \* reports that are still on their way
    heard,      \* node, kind -> periods since the console heard of it (history)
    used        \* how much of the bounds is used

vars == <<node, storage, due, late, heard, used>>

AllKinds == {"console", "gateway", "media", "connector"}
Gone == -1
Down == [kind |-> "none", seeds |-> {}]
Up == {n \in Nodes : node[n].kind # "none"}

\* ZoneId: the upper bits of a node's id.
from_node_id(n) == n \div 256
Zones == {from_node_id(n) : n \in Nodes}

------------------------------------------------------------------------------
(* Storage *)

NewZone == [made |-> TRUE, lat |-> 0, list |-> [k \in AllKinds |-> [n \in Nodes |-> Gone]]]
Missing == [NewZone EXCEPT !.made = FALSE]

ZoneEmpty(z) == \A k \in AllKinds, n \in Nodes : z.list[k][n] = Gone

\* A node that is once listed stays.
Retain_MutantForever(age) == IF age \in {Gone, Timeout - 1} THEN age ELSE age + 1

\* A node stays for as long as last_updated + NODE_TIMEOUT > now.
Retain(age) == IF age = Gone \/ age + 1 >= Timeout THEN Gone ELSE age + 1

\* on_tick after a period: nodes that are too old go, then zones that are empty.
on_tick(s) ==
    [z \in Zones |->
        LET kept == [s[z] EXCEPT !.list = [k \in AllKinds |-> [n \in Nodes |-> Retain(s[z].list[k][n])]]]
        IN IF kept.made /\ ~ZoneEmpty(kept) THEN kept ELSE Missing]

\* A report makes the zone; only the one of a gateway says where the zone is.
on_ping(s, n, kind) ==
    LET z == from_node_id(n)
        old == IF s[z].made THEN s[z] ELSE NewZone
    IN [s EXCEPT ![z] = [old EXCEPT !.list[kind][n] = 0, !.lat = IF kind = "gateway" THEN n ELSE @]]

Listed(z, kind) == {n \in Nodes : storage[z].list[kind][n] # Gone}

consoles == UNION {Listed(z, "console") : z \in Zones}
zones == {[zone_id |-> z, lat |-> storage[z].lat, counts |-> [k \in AllKinds |-> Cardinality(Listed(z, k))]] :
            z \in {y \in Zones : storage[y].made}}
zone(z) == IF storage[z].made THEN {[lat |-> storage[z].lat, nodes |-> [k \in AllKinds |-> Listed(z, k)]]} ELSE {}

\* seeds_for: the set of the one answer, or no answer where the handler unwraps
\* a zone that is not there.
seeds_for(z, kind) ==
    CASE kind = "console" -> {consoles}
      [] kind = "gateway" -> {consoles \cup UNION {d.nodes["gateway"] : d \in zone(z)}}
      [] kind \in {"connector", "media"} -> {d.nodes["gateway"] : d \in zone(z)}

------------------------------------------------------------------------------
(* Nodes *)

\* A node asks for its seeds, drops its own address, and runs (main).
Boot(n, kind) ==
    /\ n \notin Up /\ used.boots < MaxBoots
    /\ \E seeds \in seeds_for(from_node_id(n), kind) :
          node' = [node EXCEPT ![n] = [kind |-> kind, seeds |-> {[id |-> m, as |-> {k \in AllKinds : heard[m][k] < Timeout}] : m \in seeds \ {n}}]]
    /\ used' = [used EXCEPT !.boots = @ + 1]
    /\ UNCHANGED <<storage, due, late, heard>>

Die(n) ==
    /\ n \in Up
    /\ node' = [node EXCEPT ![n] = Down]
    /\ due' = due \ {n}
    /\ UNCHANGED <<storage, late, heard, used>>

Hear(n, kind) ==
    /\ storage' = on_ping(storage, n, kind)
    /\ heard' = [heard EXCEPT ![n][kind] = 0]

\* UpdateInfo of a node reaches the console as NodeChanged, or is held up.
Report(n) ==
    /\ n \in due
    /\ due' = due \ {n}
    /\ \/ Hear(n, node[n].kind) /\ UNCHANGED <<late, used>>
       \/ /\ used.lost < MaxLost /\ used' = [used EXCEPT !.lost = @ + 1]
          /\ late' = late \cup {<<n, node[n].kind>>}
          /\ UNCHANGED <<storage, heard>>
    /\ UNCHANGED node

LateReport ==
    /\ \E r \in late : late' = late \ {r} /\ Hear(r[1], r[2])
    /\ UNCHANGED <<node, due, used>>

Lose ==
    /\ \E r \in late : late' = late \ {r}
    /\ UNCHANGED <<node, storage, due, heard, used>>

\* The metrics of a period are popped: the storage is ticked. NodeRemoved is
\* only logged.
Tick ==
    /\ due = {}
    /\ storage' = on_tick(storage)
    /\ due' = Up
    /\ heard' = [n \in Nodes |-> [k \in AllKinds |-> IF heard[n][k] = Timeout THEN Timeout ELSE heard[n][k] + 1]]
    /\ UNCHANGED <<node, late, used>>

------------------------------------------------------------------------------
Init ==
    /\ node = [n \in Nodes |-> Down]
    /\ storage = [z \in Zones |-> Missing]
    /\ due = {} /\ late = {}
    /\ heard = [n \in Nodes |-> [k \in AllKinds |-> Timeout]]
    /\ used = [boots |-> 0, lost |-> 0]

Next ==
    \/ Tick \/ LateReport \/ Lose
    \/ \E n \in Nodes : Die(n) \/ Report(n) \/ \E kind \in Kinds : Boot(n, kind)

Spec == Init /\ [][Next]_vars

\* The metrics thread measures again and again, nodes that run report, and what
\* is on its way arrives or is lost.
Fairness ==
    /\ WF_vars(Tick) /\ WF_vars((LateReport \/ Lose))
    /\ \A n \in Nodes : WF_vars(Report(n))

------------------------------------------------------------------------------
(* Properties *)

\* Nodes, zones and ages have their types.
TypeOK ==
    /\ \A n \in Nodes : node[n].kind \in Kinds \cup {"none"}
    /\ \A z \in Zones, k \in AllKinds, n \in Nodes : storage[z].list[k][n] \in Gone .. Timeout - 1
    /\ due \subseteq Up

\* The console lists a node, in its zone and under the kind it told, exactly
\* while it heard of it less than NODE_TIMEOUT ago: whatever is lost, late or
\* restarted as another kind (on_tick, on_ping, zones, zone, consoles).
ListedWhileHeard ==
    /\ \A z \in Zones, k \in AllKinds :
          LET fresh == {n \in Nodes : from_node_id(n) = z /\ heard[n][k] < Timeout} IN
          /\ Listed(z, k) = fresh
          /\ \A d \in zone(z) : d.nodes[k] = fresh
          /\ \A y \in zones : y.zone_id = z => y.counts[k] = Cardinality(fresh)
    /\ consoles = {n \in Nodes : heard[n]["console"] < Timeout}

\* A zone is shown exactly while one of its nodes is listed (retain in on_tick).
ZoneWhileListed == \A z \in Zones : storage[z].made <=> \E k \in AllKinds : Listed(z, k) # {}

\* A node connects only to nodes the console heard of lately as consoles or, in
\* its own zone, as gateways; media and connector nodes only to those gateways
\* (the comment on seeds_for).
SeedsLead ==
    \A n \in Up : \A s \in node[n].seeds :
        \/ "gateway" \in s.as /\ from_node_id(s.id) = from_node_id(n) /\ node[n].kind # "console"
        \/ "console" \in s.as /\ node[n].kind \in {"console", "gateway"}

\* When starts and losses are over, the lists show the nodes that run, and no
\* zone of nodes that died (NODE_TIMEOUT).
ListsCatchUp == []<>(\A z \in Zones, k \in AllKinds : Listed(z, k) \subseteq {n \in Up : node[n].kind = k})
==============================================================================
