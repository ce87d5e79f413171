----------------------------- MODULE MCLiveness ------------------------------
(* What must happen in the end, in every component whose code promises it,   *)
(* each on a small instance and under the fairness of its own scheduling,    *)
(* and the two tasks of the connector, which could wait for each other.      *)
EXTENDS ConnectorServer

CONSTANTS None

LoadOf(cpu, w, r) == [cpu |-> cpu, memory |-> 10, disk |-> 10,
                      live |-> [webrtc |-> w, rtpengine |-> r]]
NodeModes ==
  {[via |-> "http", protos |-> {p}, calls |-> 2, waiting |-> 1, stops |-> {0}] :
     p \in {"webrtc", "rtpengine"}} \cup
  {[via |-> "gateway", protos |-> {"webrtc"}, calls |-> 2, waiting |-> 2,
    stops |-> {}]}

VARIABLES
  part,   \* which of the components moves; the others rest
  joined, pub, sub, sdnPub, sdnSub,
  tstate, mids, source, int, member, views, pubs,
  codec, channel, need_key, key_age, queued, sel, bitrate, limit, seq, pic,
  owed, frame, last, changes,
  boot, req_id_seed, req_data, queue, inflight, inflight_ts, reqs, ress,
  req_ids, todo, faults, asked, times, forgotten, unanswered,
  db, told, undrained, inside, ordered, fails,
  waiting, load, up, store, heard, calls, req, open, gatewayChanges,
  node, storage, due, late, consoleHeard, used,
  known, syncing, accessStore, tokens, session, gone, accessUsed,
  peer, wire, sessions, recorderAsked, chan, mem, disk, current_size,
  job_queue, busy, s3, lost, unlinked, dropped, recorderFaults,
  cfg, reader, heap, tracks, frames, writer, status, count, now, sorted,
  composeFaults,
  transmuxCfg, phase, hooks, transmuxTask, transmuxChan, summary, local,
  sent, transmuxFaults,
  variant, state, at, webrtcQueue, answers, webrtcMids, subscribed, waits,
  remote_tracks, local_tracks, bwe, str0m, endpoint, room, webrtcRequests,
  rtpengineSession, rtpengineQueue, rtpengineEndpoint, rtpengineRoom,
  rtpengineRequests,
  mode, nodeRequests, rx, nodeReqs, inbox, group, port, out, nodeEvents,
  shutdown,
  ports, sockets, held, vnetMode, closing, in_rx, out_tx, bound, vnetUsed

Messages == INSTANCE MessageChannel WITH
  Endpoints <- {1, 2}, Channels <- {"c1"}, MaxQueue <- 2

Endpoint == INSTANCE Endpoint WITH
  Rooms <- {"r1"}, Locals <- {"l1"}, Remotes <- {"t1"}, Targets <- {"s1"},
  FirstJoin <- "r1", Races <- {}, MaxTasks <- 2, MaxQueue <- 1

Selector == INSTANCE PacketSelector WITH
  Codecs <- {"vp8", "h264", "vp9", "single"}, Channels <- {1},
  Tables <- {<<<<1, 2>>, <<3, 4>>>>}, Rates <- {2, 4}, Limits <- {<<1, 1>>},
  TopTemporal <- 1, Interval <- 1, MaxChanges <- 1

Agent == INSTANCE Connector WITH
  Nodes <- {"n1"}, MaxAsk <- 2, MaxInflight <- 1, LruCap <- 1,
  ResendAfter <- 1, MaxTimes <- 2, MaxFaults <- 1

Storage == INSTANCE ConnectorStorage WITH
  Sessions <- {"s1", "s2"}, Rooms <- {"r1"}, Peers <- {"p1", "p2"},
  PeerOf <- [s1 |-> "p1", s2 |-> "p2"], DestroyAfter <- 1, Rejoin <- FALSE,
  MaxEvents <- 4, MaxWild <- 2, MaxFails <- 1

Gate == INSTANCE Gateway WITH
  Media <- {"m1", "m2"}, Spare <- {"m2"}, Gateways <- {"g1", "g2"},
  ZoneOf <- [m1 |-> 1, m2 |-> 1, g1 |-> 1, g2 |-> 2], At <- <<0, 2>>,
  Places <- {1}, Loads <- {LoadOf(90, 1, 1)},
  Serves <- [m1 |-> {"webrtc", "rtpengine"}, m2 |-> {"webrtc"}],
  Capacity <- 5, MaxCpu <- 60, MaxMemory <- 80, MaxDisk <- 90,
  PingTimeout <- 3, MaxChanges <- 1, MaxHops <- 3, changes <- gatewayChanges

Console == INSTANCE Console WITH
  Nodes <- {256, 512}, Kinds <- {"gateway", "media"}, Timeout <- 2,
  MaxBoots <- 2, MaxLost <- 1, heard <- consoleHeard

Access == INSTANCE Access WITH
  Apps <- {"", "x"}, Secrets <- {"s1"}, Peers <- {"p"}, MaxTtl <- 1,
  Tolerance <- 0, MaxTokens <- 1, MaxChanges <- 1, MaxFailures <- 1,
  store <- accessStore, used <- accessUsed

Recorder == INSTANCE Recorder WITH
  Sessions <- {"s1"}, Children <- {"c1"}, MaxRows <- 2, MaxRooms <- 1,
  MaxLag <- 1, MaxWire <- 1, MaxLen <- 1, ChanCap <- 1, MemMax <- 1,
  Radix <- 10, MaxFaults <- 1, asked <- recorderAsked,
  faults <- recorderFaults

Compose == INSTANCE RecordCompose WITH
  Events <- {[kind |-> "start", track |-> 1, media |-> "audio"], [kind |-> "media", track |-> 1, media |-> "audio"]},
  MaxTs <- 1, ChunkRows <- 2, Sessions <- {"s1", "s2"}, Files <- 1,
  Limit <- 2, Diff <- 1, MaxFaults <- 1, faults <- composeFaults

Transmux == INSTANCE RecordTransmux WITH
  Events <- [kind : {"start", "stop", "media"}, track : {1}], MaxTs <- 1,
  ChunkRows <- 2, Sessions <- {"s1"}, Files <- 1, MaxFaults <- 1,
  cfg <- transmuxCfg, task <- transmuxTask, chan <- transmuxChan,
  faults <- transmuxFaults

Webrtc == INSTANCE WebrtcSession WITH
  Timeout <- 2, WarmUp <- 1, BweTimeout <- 1, Senders <- <<"mic">>,
  Receivers <- <<"view">>, Tracks <- {"a1"}, PeerOf <- [a1 |-> "p1"],
  KindOf <- [a1 |-> "audio"], MaxReqs <- 1, MaxChanges <- 1, MaxQueue <- 1,
  queue <- webrtcQueue, mids <- webrtcMids, requests <- webrtcRequests

Rtp == INSTANCE RtpEngine WITH
  Timeout <- 2, Tracks <- {"me", "a"}, Own <- {"me"}, MaxReqs <- 1,
  MaxChanges <- 1, session <- rtpengineSession, queue <- rtpengineQueue,
  endpoint <- rtpengineEndpoint, room <- rtpengineRoom,
  requests <- rtpengineRequests

Node == INSTANCE MediaNode WITH
  NumWorkers <- 2, NumSlots <- 1, Addrs <- {"a"}, Modes <- NodeModes,
  Node <- 1, Boot <- 1, requests <- nodeRequests, reqs <- nodeReqs,
  events <- nodeEvents

Net == INSTANCE VirtualNet WITH
  Ports <- {0, 1}, Reserved <- 1, Capacity <- 1, LinkCapacity <- 1,
  MaxOpens <- 2, MaxPackets <- 2, mode <- vnetMode, used <- vnetUsed

channelsVars == <<joined, pub, sub, sdnPub, sdnSub>>
endpointVars == <<tstate, mids, source, int, member, views, pubs>>
selectorVars == <<codec, channel, need_key, key_age, queued, sel, bitrate,
                  limit, seq, pic, owed, frame, last, changes>>
agentVars == <<boot, req_id_seed, req_data, queue, inflight, inflight_ts,
               reqs, ress, req_ids, todo, faults, asked, times, forgotten,
               unanswered>>
storageVars == <<db, told, undrained, inside, ordered, fails>>
gatewayVars == <<waiting, load, up, store, heard, calls, req, open,
                 gatewayChanges>>
consoleVars == <<node, storage, due, late, consoleHeard, used>>
accessVars == <<known, syncing, accessStore, tokens, session, gone,
                accessUsed>>
recorderVars == <<peer, wire, sessions, recorderAsked, chan, mem, disk,
                  current_size, job_queue, busy, s3, lost, unlinked, dropped,
                  recorderFaults>>
composeVars == <<cfg, reader, heap, tracks, frames, writer, status, count,
                 now, sorted, composeFaults>>
transmuxVars == <<transmuxCfg, phase, hooks, transmuxTask, transmuxChan,
                  summary, local, sent, transmuxFaults>>
webrtcVars == <<variant, state, at, webrtcQueue, answers, webrtcMids,
                subscribed, waits, remote_tracks, local_tracks, bwe, str0m,
                endpoint, room, webrtcRequests>>
rtpengineVars == <<rtpengineSession, rtpengineQueue, rtpengineEndpoint,
                   rtpengineRoom, rtpengineRequests>>
nodeVars == <<mode, nodeRequests, rx, nodeReqs, inbox, group, port, out,
              nodeEvents, shutdown>>
vnetVars == <<ports, sockets, held, vnetMode, closing, in_rx, out_tx, bound,
              vnetUsed>>
allVars == <<part, vars, channelsVars, endpointVars, selectorVars, agentVars,
             storageVars, gatewayVars, consoleVars, accessVars, recorderVars,
             composeVars, transmuxVars, webrtcVars, rtpengineVars, nodeVars,
             vnetVars>>

AllInit ==
  /\ part \in {"loop", "channels", "endpoint", "selector", "agent",
               "storage", "gateway", "console", "access", "recorder",
               "compose", "transmux", "webrtc", "rtpengine", "node", "vnet"}
  /\ Init
  /\ Messages!Init
  /\ Endpoint!Init /\ (part = "endpoint" \/ source = {})
  /\ Selector!Init /\ (part = "selector" \/ codec = "vp8")
  /\ Agent!Init
  /\ Storage!Init /\ (part = "storage" \/ ordered)
  /\ Gate!Init /\ (part = "gateway" \/ ~calls)
  /\ Console!Init
  /\ Access!Init /\ (part = "access" \/ (~accessUsed.single /\ known = <<>>))
  /\ Recorder!Init
  /\ Compose!Init /\ (part = "compose" \/ cfg)
  /\ Transmux!Init /\ (part = "transmux" \/ (transmuxCfg.transmux /\ transmuxCfg.s3 /\ transmuxCfg.compose))
  /\ Webrtc!Init /\ (part = "webrtc" \/ variant = "whip")
  /\ Rtp!Init /\ (part = "rtpengine" \/ ~rtpengineSession.answered)
  /\ Node!Init /\ (part = "node" \/ mode = CHOOSE m \in NodeModes : TRUE)
  /\ Net!Init

AllNext ==
  \/ /\ part = "loop" /\ Next
     /\ UNCHANGED <<part, channelsVars, endpointVars, selectorVars,
                    agentVars, storageVars, gatewayVars, consoleVars,
                    accessVars, recorderVars, composeVars, transmuxVars,
                    webrtcVars, rtpengineVars, nodeVars, vnetVars>>
  \/ /\ part = "channels" /\ Messages!Next
     /\ UNCHANGED <<part, vars, endpointVars, selectorVars, agentVars,
                    storageVars, gatewayVars, consoleVars, accessVars,
                    recorderVars, composeVars, transmuxVars, webrtcVars,
                    rtpengineVars, nodeVars, vnetVars>>
  \/ /\ part = "endpoint" /\ Endpoint!Next
     /\ UNCHANGED <<part, vars, channelsVars, selectorVars, agentVars,
                    storageVars, gatewayVars, consoleVars, accessVars,
                    recorderVars, composeVars, transmuxVars, webrtcVars,
                    rtpengineVars, nodeVars, vnetVars>>
  \/ /\ part = "selector" /\ Selector!Next
     /\ UNCHANGED <<part, vars, channelsVars, endpointVars, agentVars,
                    storageVars, gatewayVars, consoleVars, accessVars,
                    recorderVars, composeVars, transmuxVars, webrtcVars,
                    rtpengineVars, nodeVars, vnetVars>>
  \/ /\ part = "agent" /\ Agent!Next
     /\ UNCHANGED <<part, vars, channelsVars, endpointVars, selectorVars,
                    storageVars, gatewayVars, consoleVars, accessVars,
                    recorderVars, composeVars, transmuxVars, webrtcVars,
                    rtpengineVars, nodeVars, vnetVars>>
  \/ /\ part = "storage" /\ Storage!Next
     /\ UNCHANGED <<part, vars, channelsVars, endpointVars, selectorVars,
                    agentVars, gatewayVars, consoleVars, accessVars,
                    recorderVars, composeVars, transmuxVars, webrtcVars,
                    rtpengineVars, nodeVars, vnetVars>>
  \/ /\ part = "gateway" /\ Gate!Next
     /\ UNCHANGED <<part, vars, channelsVars, endpointVars, selectorVars,
                    agentVars, storageVars, consoleVars, accessVars,
                    recorderVars, composeVars, transmuxVars, webrtcVars,
                    rtpengineVars, nodeVars, vnetVars>>
  \/ /\ part = "console" /\ Console!Next
     /\ UNCHANGED <<part, vars, channelsVars, endpointVars, selectorVars,
                    agentVars, storageVars, gatewayVars, accessVars,
                    recorderVars, composeVars, transmuxVars, webrtcVars,
                    rtpengineVars, nodeVars, vnetVars>>
  \/ /\ part = "access" /\ Access!Next
     /\ UNCHANGED <<part, vars, channelsVars, endpointVars, selectorVars,
                    agentVars, storageVars, gatewayVars, consoleVars,
                    recorderVars, composeVars, transmuxVars, webrtcVars,
                    rtpengineVars, nodeVars, vnetVars>>
  \/ /\ part = "recorder" /\ Recorder!Next
     /\ UNCHANGED <<part, vars, channelsVars, endpointVars, selectorVars,
                    agentVars, storageVars, gatewayVars, consoleVars,
                    accessVars, composeVars, transmuxVars, webrtcVars,
                    rtpengineVars, nodeVars, vnetVars>>
  \/ /\ part = "compose" /\ Compose!Next
     /\ UNCHANGED <<part, vars, channelsVars, endpointVars, selectorVars,
                    agentVars, storageVars, gatewayVars, consoleVars,
                    accessVars, recorderVars, transmuxVars, webrtcVars,
                    rtpengineVars, nodeVars, vnetVars>>
  \/ /\ part = "transmux" /\ Transmux!Next
     /\ UNCHANGED <<part, vars, channelsVars, endpointVars, selectorVars,
                    agentVars, storageVars, gatewayVars, consoleVars,
                    accessVars, recorderVars, composeVars, webrtcVars,
                    rtpengineVars, nodeVars, vnetVars>>
  \/ /\ part = "webrtc" /\ Webrtc!Next
     /\ UNCHANGED <<part, vars, channelsVars, endpointVars, selectorVars,
                    agentVars, storageVars, gatewayVars, consoleVars,
                    accessVars, recorderVars, composeVars, transmuxVars,
                    rtpengineVars, nodeVars, vnetVars>>
  \/ /\ part = "rtpengine" /\ Rtp!Next
     /\ UNCHANGED <<part, vars, channelsVars, endpointVars, selectorVars,
                    agentVars, storageVars, gatewayVars, consoleVars,
                    accessVars, recorderVars, composeVars, transmuxVars,
                    webrtcVars, nodeVars, vnetVars>>
  \/ /\ part = "node" /\ Node!Next
     /\ UNCHANGED <<part, vars, channelsVars, endpointVars, selectorVars,
                    agentVars, storageVars, gatewayVars, consoleVars,
                    accessVars, recorderVars, composeVars, transmuxVars,
                    webrtcVars, rtpengineVars, vnetVars>>
  \/ /\ part = "vnet" /\ Net!Next
     /\ UNCHANGED <<part, vars, channelsVars, endpointVars, selectorVars,
                    agentVars, storageVars, gatewayVars, consoleVars,
                    accessVars, recorderVars, composeVars, transmuxVars,
                    webrtcVars, rtpengineVars, nodeVars>>
  \* These may come to an end.
  \/ part \in {"endpoint", "agent", "storage", "compose", "transmux", "node",
               "vnet"} /\ UNCHANGED allVars

AllSpec == AllInit /\ [][AllNext]_allVars

------------------------------------------------------------------------------
\* What is not used any more is let go: a message channel everybody has
\* left becomes empty, so that the cluster can remove the room, unless
\* somebody joins again first, and a port whose socket was dropped becomes
\* free again.
Released ==
  /\ part = "channels" /\ Messages!Fairness => Messages!EventuallyReleased
  /\ part = "vnet" /\ Net!Fairness => Net!PortsComeBack

\* No session stays half open. An endpoint that is not connected gets its
\* connection (back) or is removed; a WebRTC session is connected again and
\* again or ends by its timeouts; a call that was never answered, never had
\* RTP both ways or went silent is gone after the timeout.
SessionsEnd ==
  /\ part = "endpoint" /\ Endpoint!Fairness => Endpoint!EventuallySettled
  /\ part = "webrtc" /\ Webrtc!Fairness => Webrtc!Ends
  /\ part = "rtpengine" /\ Rtp!Fairness => Rtp!SilentEnds

\* Every request is answered: by the connector, also one the storage fails
\* at, and every router dump; by a WebRTC session as long as it is there,
\* except a features request without a mixer request; by an RTPEngine
\* session; and by the node, except one for a worker it does not have and
\* one for an RTPEngine session that is gone.
RequestsAnswered ==
  /\ part = "loop" /\ Fairness => AllAnswered
  /\ part = "webrtc" /\ Webrtc!Fairness => Webrtc!AllAnswered
  /\ part = "rtpengine" /\ Rtp!Fairness => Rtp!AllAnswered
  /\ part = "node" /\ Node!Fairness => Node!AllAnswered

\* What happens in the rooms is told: a request of an agent reaches the
\* storage unless its node restarts first or the window is held by requests
\* whose answers were lost; hooks that an error left in the queue go out
\* with the next answer or tick; and, with reports in order and no error, a
\* room that no one is in is closed unless someone comes back.
ReportsGoOut ==
  /\ part = "agent" /\ Agent!Fairness => Agent!Reported
  /\ part = "storage" /\ Storage!Fairness => Storage!HooksGoOut
  /\ part = "storage" /\ Storage!Fairness => Storage!AbandonedCloses

\* The tables follow the world. A media node that stops is forgotten by
\* every gateway, and once there is for good a node with room every gateway
\* comes to know where to send a user; when starts and losses are over the
\* console shows the nodes that run; the store of secrets follows its
\* endpoint through failed syncs and stale answers.
TablesCatchUp ==
  /\ part = "gateway" /\ Gate!Fairness => Gate!StoppedForgotten
  /\ part = "gateway" /\ Gate!Fairness => Gate!RoomFound
  /\ part = "console" /\ Console!Fairness => Console!ListsCatchUp
  /\ part = "access" /\ Access!Fairness => Access!CatchesUp

\* Everything recorded leaves the server: in the end no row waits in a
\* session, no job is left, and the storage only holds files whose link
\* never came; composing and transmuxing come to an end whatever their
\* tasks meet.
RecordingsEnd ==
  /\ part = "recorder" /\ Recorder!Fairness => Recorder!Drains
  /\ part = "compose" /\ Compose!Fairness => Compose!Ends
  /\ part = "transmux" /\ Transmux!Fairness => Transmux!Ends

\* Once nothing changes any more, a track forwards the spatial layer that
\* the bitrate and the limits of the viewer choose: a key frame that a
\* switch is waiting for is asked for again until it comes.
Settles == part = "selector" /\ Selector!Fairness => Selector!Settles
==============================================================================
