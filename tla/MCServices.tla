----------------------------- MODULE MCServices ------------------------------
(* The servers beside the media nodes, each on a small instance of its own:  *)
(* the connector (agents, handler, storage), the gateways, the console, the  *)
(* check of tokens and the conversion of records.                            *)
EXTENDS Connector

\* Crowded: more sessions than the node is for, so its usage does not fit a byte.
LoadOf(cpu, w, r) == [cpu |-> cpu, memory |-> 10, disk |-> 10,
                      live |-> [webrtc |-> w, rtpengine |-> r]]

ComposeEvents ==
  [kind : {"start", "stop", "media"}, track : {1}, media : {"audio"}] \cup
  {[kind |-> "media", track |-> 2, media |-> "video"]}

VARIABLES
  part,   \* which of the components moves; the others rest
  db, told, undrained, inside, ordered, fails,
  waiting, load, up, store, heard, calls, req, open, changes,
  node, storage, due, late, listed, boots,
  known, syncing, secrets, tokens, session, gone, used,
  cfg, reader, heap, tracks, frames, writer, status, count, now, sorted,
  composeFaults,
  transmuxCfg, phase, hooks, task, chan, summary, local, sent, transmuxFaults

Storage == INSTANCE ConnectorStorage WITH
  Sessions <- {"s1", "s2"}, Rooms <- {"r1"}, Peers <- {"p1", "p2"},
  PeerOf <- [s1 |-> "p1", s2 |-> "p2"], DestroyAfter <- 1, Rejoin <- FALSE,
  MaxEvents <- 4, MaxWild <- 2, MaxFails <- 1

\* Two zones, a gateway in each; users stand at either or half way.
Gateway == INSTANCE Gateway WITH
  Media <- {"m1", "m2", "m3"}, Spare <- {"m2"}, Gateways <- {"g1", "g2"},
  ZoneOf <- [m1 |-> 1, m2 |-> 1, m3 |-> 2, g1 |-> 1, g2 |-> 2],
  At <- <<0, 2>>, Places <- {1, 2},
  Loads <- {LoadOf(10, 13, 1), LoadOf(90, 1, 1)},
  Serves <- [m1 |-> {"webrtc", "rtpengine"}, m2 |-> {"webrtc"}, m3 |-> {"webrtc"}],
  Capacity <- 5, MaxCpu <- 60, MaxMemory <- 80, MaxDisk <- 90,
  PingTimeout <- 3, MaxChanges <- 1, MaxHops <- 3

Console == INSTANCE Console WITH
  Nodes <- {256, 512}, Kinds <- {"console", "gateway", "media", "connector"},
  Timeout <- 2, MaxBoots <- 3, MaxLost <- 1, heard <- listed, used <- boots

Access == INSTANCE Access WITH
  Apps <- {"", "x"}, Secrets <- {"s1", "s2"}, Peers <- {"p", "q"},
  MaxTtl <- 1, Tolerance <- 1, MaxTokens <- 1, MaxChanges <- 1,
  MaxFailures <- 1, store <- secrets

Compose == INSTANCE RecordCompose WITH
  Events <- ComposeEvents, MaxTs <- 2, ChunkRows <- 2,
  Sessions <- {"s1", "s2"}, Files <- 2, Limit <- 2, Diff <- 1,
  MaxFaults <- 1, faults <- composeFaults

Transmux == INSTANCE RecordTransmux WITH
  Events <- [kind : {"start", "stop", "media", "h264"}, track : {1}],
  MaxTs <- 1, ChunkRows <- 4, Sessions <- {"s1", "s2"}, Files <- 1,
  MaxFaults <- 1, cfg <- transmuxCfg, faults <- transmuxFaults

storageVars == <<db, told, undrained, inside, ordered, fails>>
gatewayVars == <<waiting, load, up, store, heard, calls, req, open, changes>>
consoleVars == <<node, storage, due, late, listed, boots>>
accessVars == <<known, syncing, secrets, tokens, session, gone, used>>
composeVars == <<cfg, reader, heap, tracks, frames, writer, status, count,
                 now, sorted, composeFaults>>
transmuxVars == <<transmuxCfg, phase, hooks, task, chan, summary, local,
                  sent, transmuxFaults>>
allVars == <<part, vars, storageVars, gatewayVars, consoleVars, accessVars,
             composeVars, transmuxVars>>

AllInit ==
  /\ part \in {"connector", "storage", "gateway", "console", "access",
               "compose", "transmux"}
  /\ Init
  /\ Storage!Init /\ (part = "storage" \/ ordered)
  /\ Gateway!Init /\ (part = "gateway" \/ ~calls)
  /\ Console!Init
  /\ Access!Init /\ (part = "access" \/ (~used.single /\ known = <<>>))
  /\ Compose!Init /\ (part = "compose" \/ cfg)
  /\ IF part = "transmux" THEN Transmux!Init
     ELSE transmuxCfg = 0 /\ phase = 0 /\ hooks = 0 /\ task = 0 /\
          chan = 0 /\ summary = 0 /\ local = 0 /\ sent = 0 /\
          transmuxFaults = 0

AllNext ==
  \/ /\ part = "connector" /\ Next
     /\ UNCHANGED <<part, storageVars, gatewayVars, consoleVars, accessVars,
                    composeVars, transmuxVars>>
  \/ /\ part = "storage" /\ Storage!Next
     /\ UNCHANGED <<part, vars, gatewayVars, consoleVars, accessVars,
                    composeVars, transmuxVars>>
  \/ /\ part = "gateway" /\ Gateway!Next
     /\ UNCHANGED <<part, vars, storageVars, consoleVars, accessVars,
                    composeVars, transmuxVars>>
  \/ /\ part = "console" /\ Console!Next
     /\ UNCHANGED <<part, vars, storageVars, gatewayVars, accessVars,
                    composeVars, transmuxVars>>
  \/ /\ part = "access" /\ Access!Next
     /\ UNCHANGED <<part, vars, storageVars, gatewayVars, consoleVars,
                    composeVars, transmuxVars>>
  \/ /\ part = "compose" /\ Compose!Next
     /\ UNCHANGED <<part, vars, storageVars, gatewayVars, consoleVars,
                    accessVars, transmuxVars>>
  \/ /\ part = "transmux" /\ Transmux!Next
     /\ UNCHANGED <<part, vars, storageVars, gatewayVars, consoleVars,
                    accessVars, composeVars>>
  \* These may come to an end.
  \/ part \in {"connector", "storage", "compose", "transmux"} /\ UNCHANGED allVars

AllSpec == AllInit /\ [][AllNext]_allVars

------------------------------------------------------------------------------
\* The connector's database (sql_storage.rs). Whatever the order of the
\* reports and the errors of the database, a name has one live room at
\* most, no peer is stored twice in it, and it is closed only when no row
\* of it is online. With reports in order and no error, a room waits to be
\* closed exactly when no session is in it, and its hooks tell a story: it
\* starts first, all have left when it stops, nobody leaves that has not
\* joined. The pages the console shows, put together, hold every row once.
RowsTrue ==
  /\ part = "storage" => /\ Storage!StorageTypeOK
                         /\ Storage!RowsAgree
                         /\ Storage!NoOneOnline
                         /\ Storage!HooksTellStory
                         /\ Storage!PagesPartition

\* The gateways (store.rs, dest_selector.rs). Whatever pings came, were
\* lost or stopped, a gateway's tables hold just the media nodes and the
\* zones whose last ping is younger than the timeout and said they can take
\* more, with what it said. best_for finds the nearest zone. A request
\* comes back to a gateway it passed only if one in between had no node
\* left when it chose, and every routing whose begin was reported gets one
\* end.
RoutesTrue ==
  /\ part = "gateway" => /\ Gateway!TypeOK
                         /\ Gateway!LocalTableTrue
                         /\ Gateway!ZoneTableTrue
                         /\ Gateway!BestIsNearest
                         /\ Gateway!RoundNeedsEmpty
                         /\ Gateway!EachRouteReported

\* The console (console/storage.rs). It lists a node, in its zone and under
\* the kind it told, exactly while it heard of it less than NODE_TIMEOUT
\* ago, whatever is lost, late or restarted as another kind; it shows a
\* zone exactly while one of its nodes is listed; and it leads a starting
\* node only to nodes it heard of lately as consoles or, in its zone, as
\* gateways.
ListsTrue ==
  /\ part = "console" => /\ Console!TypeOK
                         /\ Console!ListedWhileHeard
                         /\ Console!ZoneWhileListed
                         /\ Console!SeedsLead

\* Tenants and tokens (multi_tenancy/store.rs, jwt.rs, the media APIs).
\* After any sequence of syncs the two maps of the store agree and a
\* changed secret opens nothing; a session that is let in has the app, the
\* room and the peer of a token of its own protocol that has not expired;
\* and an app that was removed is let in for no longer than the largest
\* ttl.
LetInByToken ==
  /\ part = "access" => /\ Access!TypeOK
                        /\ Access!TablesAgree
                        /\ Access!LetInByToken
                        /\ Access!AccessEnds

\* The conversion of recordings (composer.rs, transmuxer.rs). When no read
\* failed, the rows of all sessions are handled and the frames written in
\* the order of their times, and every row is in one frame. A complete
\* summary lists every file a task made, the times of a track's files do
\* not overlap, a file stays in the local folder until it was uploaded, and
\* a job reported completed has uploaded each of them.
RecordedWhole ==
  /\ [](part = "compose" => Compose!TypeOK /\ Compose!FramesInOrder /\ Compose!EachRowOnce)
  /\ Compose!RowsInOrder
  /\ [](part = "transmux" => Transmux!TypeOK /\ Transmux!FilesListed /\ Transmux!TimelineInOrder /\ Transmux!KeptUntilUploaded /\ Transmux!CompletedIsWhole)
==============================================================================
