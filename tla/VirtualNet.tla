----------------------------- MODULE VirtualNet -----------------------------
(***************************************************************************)
(* The virtual UDP network of a node (bin/src/quinn/vnet.rs, vsocket.rs):  *)
(* sockets over the SDN's socket feature, on which the nodes' RPCs run.    *)
(* VirtualNetwork owns the ports and gives each socket a bounded channel;  *)
(* a socket that is dropped says so over another channel; the owner of a   *)
(* socket sleeps until the channel wakes it.  Packets carry nothing that   *)
(* tells one socket of a port from the next one on it.                     *)
(***************************************************************************)
EXTENDS Integers, Sequences, FiniteSets, SequencesExt

CONSTANTS
    Ports,          \* ports 0 .. of the network (60000)
    Reserved,       \* the port of a server, opened by its number
    Capacity,       \* capacity of a socket's channel (100)
    LinkCapacity,   \* capacity of in_rx and of out_tx (1000)
    MaxOpens,       \* bound on the sockets of a behaviour
    MaxPackets      \* bound on the packets of a behaviour, both ways

VARIABLES
    ports,      \* VecDeque of the free ports
    sockets,    \* port -> channel of its socket, or Closed
    held,       \* socket id -> its port, NotYet or Dropped
    mode,       \* socket id -> is its owner awake, waiting for the channel, or lost
    closing,    \* close_socket_rx: ports of dropped sockets
    in_rx,      \* packets from the SDN
    out_tx,     \* controls for the SDN
    bound,      \* ports the SDN has bound
    used        \* how much of the bounds is used

vars == <<ports, sockets, held, mode, closing, in_rx, out_tx, bound, used>>

Closed == [id |-> 0, rx |-> <<>>]
Ids == 1 .. MaxOpens
Dropped == -1
NotYet == -2

\* VecDeque::swap_remove_back: the last element takes the place.
swap_remove_back(s, k) ==
    LET last == Len(s) IN SubSeq([s EXCEPT ![k] = s[last]], 1, last - 1)

\* The port asked for, or the first free one; a port that is not free is a panic.
TakePort(s, port) ==
    IF port > 0
    THEN {[port |-> port, rest |-> swap_remove_back(s, k)] : k \in {i \in DOMAIN s : s[i] = port}}
    ELSE IF s = <<>> THEN {} ELSE {[port |-> Head(s), rest |-> Tail(s)]}

\* udp_socket: the port is bound, then its socket gets its packets.
udp_socket(port) ==
    /\ used.opens < MaxOpens /\ Len(out_tx) < LinkCapacity
    /\ \E t \in TakePort(ports, port) :
          /\ ports' = t.rest
          /\ sockets' = [sockets EXCEPT ![t.port] = [id |-> used.opens + 1, rx |-> <<>>]]
          /\ held' = [held EXCEPT ![used.opens + 1] = t.port]
          /\ out_tx' = Append(out_tx, [op |-> "bind", port |-> t.port])
    /\ used' = [used EXCEPT !.opens = @ + 1]
    /\ mode' = [mode EXCEPT ![used.opens + 1] = "awake"]
    /\ UNCHANGED <<closing, in_rx, bound>>

\* Drop of VirtualUdpSocket
Drop(i) ==
    /\ held[i] >= 0
    /\ held' = [held EXCEPT ![i] = Dropped]
    /\ closing' = Append(closing, held[i])
    /\ UNCHANGED <<ports, sockets, mode, in_rx, out_tx, bound, used>>

\* The close is only looked at together with a packet.
RecvClose_MutantLate ==
    /\ closing # <<>> /\ Len(out_tx) < LinkCapacity /\ in_rx # <<>>
    /\ ports' = Append(ports, Head(closing))
    /\ sockets' = [sockets EXCEPT ![Head(closing)] = Closed]
    /\ out_tx' = Append(out_tx, [op |-> "unbind", port |-> Head(closing)])
    /\ closing' = Tail(closing)
    /\ UNCHANGED <<held, mode, in_rx, bound, used>>

\* The SDN is not told.
RecvClose_MutantBound ==
    /\ closing # <<>> /\ Len(out_tx) < LinkCapacity
    /\ ports' = Append(ports, Head(closing))
    /\ sockets' = [sockets EXCEPT ![Head(closing)] = Closed]
    /\ closing' = Tail(closing)
    /\ UNCHANGED <<held, mode, in_rx, out_tx, bound, used>>

\* recv, close_socket_rx: the port is free again, and last in the queue.
RecvClose ==
    /\ closing # <<>> /\ Len(out_tx) < LinkCapacity
    /\ ports' = Append(ports, Head(closing))
    /\ sockets' = [sockets EXCEPT ![Head(closing)] = Closed]
    /\ out_tx' = Append(out_tx, [op |-> "unbind", port |-> Head(closing)])
    /\ closing' = Tail(closing)
    /\ UNCHANGED <<held, mode, in_rx, bound, used>>

\* try_send of a socket's channel succeeds: it has room and its owner lives.
Room(port) == sockets[port] # Closed /\ held[sockets[port].id] = port /\ Len(sockets[port].rx) < Capacity

\* recv, in_rx: the packet goes into the socket's channel and wakes an owner that
\* waits for it, or is dropped.
RecvFrom ==
    /\ in_rx # <<>>
    /\ in_rx' = Tail(in_rx)
    /\ LET p == Head(in_rx) IN
          IF Room(p.port)
          THEN /\ sockets' = [sockets EXCEPT ![p.port].rx = Append(@, p.size)]
               /\ mode' = [mode EXCEPT ![sockets[p.port].id] = IF @ = "waiting" THEN "awake" ELSE @]
          ELSE UNCHANGED <<sockets, mode>>
    /\ UNCHANGED <<ports, held, closing, out_tx, bound, used>>

\* poll_recv of an owner that is awake: a packet is handed over, an empty channel
\* keeps the waker, and a packet larger than the buffer is dropped and Pending
\* returned although the channel, which was ready, kept no waker.
poll_recv(i) ==
    /\ held[i] >= 0 /\ mode[i] = "awake"
    /\ LET rx == sockets[held[i]].rx IN
          IF rx = <<>> THEN mode' = [mode EXCEPT ![i] = "waiting"] /\ UNCHANGED sockets
          ELSE /\ sockets' = [sockets EXCEPT ![held[i]].rx = Tail(@)]
               /\ mode' = [mode EXCEPT ![i] = IF Head(rx) = "fits" THEN @ ELSE "lost"]
    /\ UNCHANGED <<ports, held, closing, in_rx, out_tx, bound, used>>

\* try_send of a socket: a packet that finds out_tx full is lost, and reported sent.
try_send(i) ==
    /\ held[i] >= 0 /\ used.packets < MaxPackets
    /\ used' = [used EXCEPT !.packets = @ + 1]
    /\ out_tx' = IF Len(out_tx) < LinkCapacity THEN Append(out_tx, [op |-> "send", port |-> held[i]]) ELSE out_tx
    /\ UNCHANGED <<ports, sockets, held, mode, closing, in_rx, bound>>

\* The owner of a socket is polled for another reason, a timer of its own.
Wake(i) ==
    /\ held[i] >= 0 /\ mode[i] # "awake"
    /\ mode' = [mode EXCEPT ![i] = "awake"]
    /\ UNCHANGED <<ports, sockets, held, closing, in_rx, out_tx, bound, used>>

\* The SDN has a packet for a bound port; the server's loop forwards it with try_send.
SdnPacket(port, size) ==
    /\ port \in bound /\ used.packets < MaxPackets
    /\ used' = [used EXCEPT !.packets = @ + 1]
    /\ in_rx' = IF Len(in_rx) < LinkCapacity THEN Append(in_rx, [port |-> port, size |-> size]) ELSE in_rx
    /\ UNCHANGED <<ports, sockets, held, mode, closing, out_tx, bound>>

\* The SDN handles the controls in order.
SdnControl ==
    /\ out_tx # <<>>
    /\ out_tx' = Tail(out_tx)
    /\ bound' = CASE Head(out_tx).op = "bind" -> bound \cup {Head(out_tx).port}
                  [] Head(out_tx).op = "unbind" -> bound \ {Head(out_tx).port}
                  [] OTHER -> bound
    /\ UNCHANGED <<ports, sockets, held, mode, closing, in_rx, used>>

------------------------------------------------------------------------------
Init ==
    /\ ports = SetToSortSeq(Ports, <)
    /\ sockets = [p \in Ports |-> Closed]
    /\ held = [i \in Ids |-> NotYet]
    /\ mode = [i \in Ids |-> "awake"]
    /\ closing = <<>> /\ in_rx = <<>> /\ out_tx = <<>> /\ bound = {}
    /\ used = [opens |-> 0, packets |-> 0]

Next ==
    \/ udp_socket(0) \/ udp_socket(Reserved) \/ RecvClose \/ RecvFrom \/ SdnControl
    \/ \E i \in Ids : Drop(i) \/ poll_recv(i) \/ try_send(i) \/ Wake(i)
    \/ \E p \in Ports, size \in {"fits", "large"} : SdnPacket(p, size)

Spec == Init /\ [][Next]_vars

\* The task of the network polls both of its channels and the SDN handles controls.
Fairness == WF_vars(RecvClose) /\ WF_vars(RecvFrom) /\ WF_vars(SdnControl)

------------------------------------------------------------------------------
(* Properties *)

\* Every channel of the network keeps its capacity.
TypeOK ==
    /\ \A p \in Ports : Len(sockets[p].rx) <= Capacity
    /\ Len(in_rx) <= LinkCapacity /\ Len(out_tx) <= LinkCapacity
    /\ bound \subseteq Ports /\ mode \in [Ids -> {"awake", "waiting", "lost"}]

\* A port is free once, held by one socket, or about to be freed, and never two
\* of these, although ports are opened by number and from the front of the queue
\* (udp_socket, recv, Drop).
PortsPartition ==
    \A p \in Ports :
        1 = Cardinality({k \in DOMAIN ports : ports[k] = p})
              + Cardinality({k \in DOMAIN closing : closing[k] = p})
              + Cardinality({i \in Ids : held[i] = p})

\* Once its controls are handled, the SDN has bound exactly the ports that are
\* not free: an unbind never undoes the bind of the next socket on the port.
BoundAreOpen == out_tx = <<>> => bound = Ports \ Range(ports)

\* An owner that waits for its channel never waits beside a packet: only an
\* oversized packet can leave an owner that nothing wakes (poll_recv).
WaitsForPackets == \A i \in Ids : held[i] >= 0 /\ mode[i] = "waiting" => sockets[held[i]].rx = <<>>

\* A port that was dropped becomes free again.
PortsComeBack == []<>(closing = <<>>)
==============================================================================
