------------------------------- MODULE MCNode --------------------------------
(* What runs on a media node, each part on a small instance of its own: the    *)
(* workers and their sessions, the choice of the packets and bitrates of an    *)
(* endpoint, the recorder, and the virtual network.                            *)
EXTENDS Integers

\* One protocol and one way in at a time.
NodeModes ==
  {[via |-> "http", protos |-> {p}, calls |-> 3, waiting |-> 1, stops |-> {0}] :
     p \in {"webrtc", "rtpengine"}} \cup
  {[via |-> v, protos |-> {p}, calls |-> 2, waiting |-> 2, stops |-> {}] :
     v \in {"http", "gateway"}, p \in {"whip", "whep"}} \cup
  {[via |-> "gateway", protos |-> {p}, calls |-> 2, waiting |-> 2, stops |-> {}] :
     p \in {"webrtc", "rtpengine"}}

VARIABLES
  part,   \* which of the components moves; the others rest
  mode, requests, rx, reqs, inbox, group, port, out, events, shutdown,
  variant, state, at, queue, answers, mids, subscribed, waits, remote_tracks,
  local_tracks, bwe, str0m, endpoint, room, webrtcRequests,
  session, rtpengineQueue, rtpengineEndpoint, rtpengineRoom,
  rtpengineRequests,
  codec, channel, need_key, key_age, queued, sel, bitrate, limit, seq, pic,
  owed, frame, last, changes,
  views, bound, tracks, changed, estimate, bitrateBwe, share, control,
  cluster, bitrateLimit,
  offer, remote, local, ssrcs_rid, ssrcs_mid, told, pkt, sent,
  peer, wire, sessions, asked, chan, mem, disk, current_size, job_queue,
  busy, s3, lost, unlinked, dropped, faults,
  ports, sockets, held, vnetMode, closing, in_rx, out_tx, vnetBound, used

Node == INSTANCE MediaNode WITH
  NumWorkers <- 2, NumSlots <- 2, Addrs <- {"a"}, Modes <- NodeModes,
  Node <- 1, Boot <- 1

Webrtc == INSTANCE WebrtcSession WITH
  Timeout <- 2, WarmUp <- 2, BweTimeout <- 2, Senders <- <<"mic", "cam">>,
  Receivers <- <<"view">>, Tracks <- {"a1", "v1", "a2"},
  PeerOf <- [a1 |-> "p1", v1 |-> "p1", a2 |-> "p2"],
  KindOf <- [a1 |-> "audio", v1 |-> "video", a2 |-> "audio"], MaxReqs <- 2,
  MaxChanges <- 2, MaxQueue <- 1, requests <- webrtcRequests

Rtp == INSTANCE RtpEngine WITH
  Timeout <- 2, Tracks <- {"me", "a", "b"}, Own <- {"me"}, MaxReqs <- 2,
  MaxChanges <- 2, queue <- rtpengineQueue, endpoint <- rtpengineEndpoint,
  room <- rtpengineRoom, requests <- rtpengineRequests

Selector == INSTANCE PacketSelector WITH
  Codecs <- {"vp8", "h264", "vp9", "single"}, Channels <- {1, 2},
  Tables <- {<<<<1, 2>>, <<3, 4>>>>, <<<<2, 3>>>>}, Rates <- {2, 4},
  Limits <- {<<1, 1>>, <<0, 1>>}, TopTemporal <- 1, Interval <- 1,
  MaxChanges <- 1

Bitrate == INSTANCE BitrateAllocator WITH
  Tracks <- {1, 2}, Priorities <- {0, 1, 3}, Width <- 5, Estimates <- {9},
  MaxEgress <- 7, Ingress <- 6, Default <- 5,
  Limits <- {[min |-> 1, max |-> 3], [min |-> 2, max |-> 9]},
  bwe <- bitrateBwe, limit <- bitrateLimit

Convert == INSTANCE MediaConvert WITH
  Ssrcs <- {1, 2}, Mid <- <<"a", "a">>, Rid <- <<"0", "1">>,
  Specs <- {[codec |-> "vp8", profile |-> 0]} \cup [codec : {"vp9"}, profile : {0, 2}],
  Pts <- {96, 98},
  Vlas <- {<<>>, <<<<<<1, 2>>, <<1, 3>>>>>>, <<<<<<1, 2>>>>, <<<<2, 4>>>>>>}

Recorder == INSTANCE Recorder WITH
  Sessions <- {"s1"}, Children <- {"c1", "c2"}, MaxRows <- 3, MaxRooms <- 2,
  MaxLag <- 1, MaxWire <- 1, MaxLen <- 1, ChanCap <- 1, MemMax <- 1,
  Radix <- 10, MaxFaults <- 1

Net == INSTANCE VirtualNet WITH
  Ports <- {0, 1}, Reserved <- 1, Capacity <- 2, LinkCapacity <- 2,
  MaxOpens <- 2, MaxPackets <- 3, mode <- vnetMode, bound <- vnetBound

nodeVars == <<mode, requests, rx, reqs, inbox, group, port, out, events,
              shutdown>>
webrtcVars == <<variant, state, at, queue, answers, mids, subscribed, waits,
                remote_tracks, local_tracks, bwe, str0m, endpoint, room,
                webrtcRequests>>
rtpengineVars == <<session, rtpengineQueue, rtpengineEndpoint, rtpengineRoom,
                   rtpengineRequests>>
selectorVars == <<codec, channel, need_key, key_age, queued, sel, bitrate,
                  limit, seq, pic, owed, frame, last, changes>>
bitrateVars == <<views, bound, tracks, changed, estimate, bitrateBwe, share,
                 control, cluster, bitrateLimit>>
convertVars == <<offer, remote, local, ssrcs_rid, ssrcs_mid, told, pkt, sent>>
recorderVars == <<peer, wire, sessions, asked, chan, mem, disk, current_size,
                  job_queue, busy, s3, lost, unlinked, dropped, faults>>
vnetVars == <<ports, sockets, held, vnetMode, closing, in_rx, out_tx,
              vnetBound, used>>
allVars == <<part, nodeVars, webrtcVars, rtpengineVars, selectorVars,
             bitrateVars, convertVars, recorderVars, vnetVars>>

AllInit ==
  /\ part \in {"node", "webrtc", "rtpengine", "selector", "bitrate",
               "convert", "recorder", "vnet"}
  /\ IF part = "node" THEN Node!Init
     ELSE mode = 0 /\ requests = 0 /\ rx = 0 /\ reqs = 0 /\ inbox = 0 /\
          group = 0 /\ port = 0 /\ out = 0 /\ events = 0 /\ shutdown = 0
  /\ IF part = "webrtc" THEN Webrtc!Init
     ELSE variant = 0 /\ state = 0 /\ at = 0 /\ queue = 0 /\ answers = 0 /\
          mids = 0 /\ subscribed = 0 /\ waits = 0 /\ remote_tracks = 0 /\
          local_tracks = 0 /\ bwe = 0 /\ str0m = 0 /\ endpoint = 0 /\
          room = 0 /\ webrtcRequests = 0
  /\ IF part = "rtpengine" THEN Rtp!Init
     ELSE session = 0 /\ rtpengineQueue = 0 /\ rtpengineEndpoint = 0 /\
          rtpengineRoom = 0 /\ rtpengineRequests = 0
  /\ IF part = "selector" THEN Selector!Init
     ELSE codec = 0 /\ channel = 0 /\ need_key = 0 /\ key_age = 0 /\
          queued = 0 /\ sel = 0 /\ bitrate = 0 /\ limit = 0 /\ seq = 0 /\
          pic = 0 /\ owed = 0 /\ frame = 0 /\ last = 0 /\ changes = 0
  /\ IF part = "bitrate" THEN Bitrate!Init
     ELSE views = 0 /\ bound = 0 /\ tracks = 0 /\ changed = 0 /\
          estimate = 0 /\ bitrateBwe = 0 /\ share = 0 /\ control = 0 /\
          cluster = 0 /\ bitrateLimit = 0
  /\ IF part = "convert" THEN Convert!Init
     ELSE offer = 0 /\ remote = 0 /\ local = 0 /\ ssrcs_rid = 0 /\
          ssrcs_mid = 0 /\ told = 0 /\ pkt = 0 /\ sent = 0
  /\ IF part = "recorder" THEN Recorder!Init
     ELSE peer = 0 /\ wire = 0 /\ sessions = 0 /\ asked = 0 /\ chan = 0 /\
          mem = 0 /\ disk = 0 /\ current_size = 0 /\ job_queue = 0 /\
          busy = 0 /\ s3 = 0 /\ lost = 0 /\ unlinked = 0 /\ dropped = 0 /\
          faults = 0
  /\ IF part = "vnet" THEN Net!Init
     ELSE ports = 0 /\ sockets = 0 /\ held = 0 /\ vnetMode = 0 /\
          closing = 0 /\ in_rx = 0 /\ out_tx = 0 /\ vnetBound = 0 /\ used = 0

AllNext ==
  \/ /\ part = "node" /\ Node!Next
     /\ UNCHANGED <<part, webrtcVars, rtpengineVars, selectorVars,
                    bitrateVars, convertVars, recorderVars, vnetVars>>
  \/ /\ part = "webrtc" /\ Webrtc!Next
     /\ UNCHANGED <<part, nodeVars, rtpengineVars, selectorVars, bitrateVars,
                    convertVars, recorderVars, vnetVars>>
  \/ /\ part = "rtpengine" /\ Rtp!Next
     /\ UNCHANGED <<part, nodeVars, webrtcVars, selectorVars, bitrateVars,
                    convertVars, recorderVars, vnetVars>>
  \/ /\ part = "selector" /\ Selector!Next
     /\ UNCHANGED <<part, nodeVars, webrtcVars, rtpengineVars, bitrateVars,
                    convertVars, recorderVars, vnetVars>>
  \/ /\ part = "bitrate" /\ Bitrate!Next
     /\ UNCHANGED <<part, nodeVars, webrtcVars, rtpengineVars, selectorVars,
                    convertVars, recorderVars, vnetVars>>
  \/ /\ part = "convert" /\ Convert!Next
     /\ UNCHANGED <<part, nodeVars, webrtcVars, rtpengineVars, selectorVars,
                    bitrateVars, recorderVars, vnetVars>>
  \/ /\ part = "recorder" /\ Recorder!Next
     /\ UNCHANGED <<part, nodeVars, webrtcVars, rtpengineVars, selectorVars,
                    bitrateVars, convertVars, vnetVars>>
  \/ /\ part = "vnet" /\ Net!Next
     /\ UNCHANGED <<part, nodeVars, webrtcVars, rtpengineVars, selectorVars,
                    bitrateVars, convertVars, recorderVars>>
  \* These may come to an end.
  \/ part \in {"node", "vnet"} /\ UNCHANGED allVars

AllSpec == AllInit /\ [][AllNext]_allVars

------------------------------------------------------------------------------
\* Calls to a media node (media.rs, rpc_handler.rs, worker.rs,
\* shared_port.rs). A call gets one answer, of its protocol and operation.
\* As long as a session lives, the id its client holds names its worker and
\* place through the layers and the text, a call about it reaches that
\* session and no other, and the addresses of the shared port lead to the
\* live session they were learnt with, whatever places were freed and taken
\* again. A stopped worker keeps only sessions made after it was told.
CallsReach ==
  /\ part = "node" => /\ Node!TypeOK
                      /\ Node!AnsweredRight
                      /\ Node!ConnNamesSession
                      /\ Node!ReachesOwn
                      /\ Node!RemotesAlive
                      /\ Node!ShutdownEndsAll

\* A WebRTC session (transport.rs, webrtc.rs, whip.rs, whep.rs,
\* bwe_state.rs). No request is answered twice, whoever answers it. The
\* endpoint gets media only of a track it was told has started, and every
\* track gets the media line that was negotiated for it, also when offers
\* are refused. A WHEP viewer is attached to live tracks of one peer at any
\* moment. The estimate is not held at zero while video is sent.
SessionServed ==
  /\ part = "webrtc" => /\ Webrtc!TypeOK
                        /\ Webrtc!AnsweredOnce
                        /\ Webrtc!MediaAfterStart
                        /\ Webrtc!OnePeer
                        /\ Webrtc!FollowsRoom
                        /\ Webrtc!LinesMatch
                        /\ Webrtc!Awake

\* An RTPEngine call (transport_rtpengine). It joins its room once and only
\* after its answer is known, however its packets and the answer
\* interleave; it hears no track that stopped, nor its own; and when it is
\* gone it has left its room, whichever of timeout, Disconnect and shutdown
\* ended it, unless its first packet came after a Disconnect.
CallServed ==
  /\ part = "rtpengine" => /\ Rtp!TypeOK
                           /\ Rtp!JoinsOnce
                           /\ Rtp!HearsLive
                           /\ Rtp!LeftAtEnd

\* The packet selectors. What is forwarded is a stream without a seam:
\* between two reinits of the rewriters every packet of one numbering is
\* forwarded or dropped with its numbers, so that a viewer never takes a
\* layer change for a loss; and a selector never aims above what the viewer
\* allows or the allocator pays for, in whatever order they changed.
Seamless ==
  /\ part = "selector" => /\ Selector!TypeOK
                          /\ Selector!Seamless
                          /\ Selector!TargetFits

\* The bitrate allocators (egress.rs, ingress.rs). After the tick that
\* follows a change, what the tracks were given adds up to the bitrate
\* there is, but for what the division loses on each track, and the pacer
\* lets that through; and the sender of every started track was told the
\* limit that its mode, its share and its consumers call for now.
SharesFit ==
  /\ part = "bitrate" => /\ Bitrate!SharesFit
                         /\ Bitrate!LimitCurrent

\* The conversion of packets (media/mod.rs). Once a stream has sent its
\* media line every packet of a known codec reaches its track, with its
\* layer once it has sent that; a packet leaves with a payload type that
\* means to the subscriber what it meant to the publisher; and a higher
\* layer of the list the selector climbs never costs less than a lower one.
MediaKept ==
  /\ part = "convert" => /\ Convert!Attributed
                         /\ Convert!CodecKept
                         /\ Convert!LayersGrow

\* The recorder (session.rs, worker.rs, storage). A row is always in one
\* place, on its way, in its session's queue, in a file that waits, is
\* uploaded, is stored or is given up, or refused, whatever the order of
\* ticks, events, answers and workers; memory never holds more than it may
\* and its counter is right; and what is stored of a session reads back in
\* the order it was sent while the index has one digit.
RowsKept ==
  /\ part = "recorder" => /\ Recorder!TypeOK
                          /\ Recorder!RowInOnePlace
                          /\ Recorder!MemoryBounded
                          /\ Recorder!ReadBack

\* The virtual network (vnet.rs, vsocket.rs). A port is free once, held by
\* one socket, or about to be freed, and never two of these; once its
\* controls are handled the SDN has bound exactly the ports that are not
\* free; and an owner that waits for its channel never waits beside a
\* packet.
PortsSound ==
  /\ part = "vnet" => /\ Net!TypeOK
                      /\ Net!PortsPartition
                      /\ Net!BoundAreOpen
                      /\ Net!WaitsForPackets
==============================================================================
