------------------------------- MODULE MCRooms -------------------------------
(* The rooms of a node: which endpoints they hold (ClusterRooms), their        *)
(* metadata and their message channels, and an endpoint that joins and leaves  *)
(* them, each on a small instance of its own.                                  *)
EXTENDS MCRoomMetadata, TLC

CONSTANTS Followed, None

VARIABLES
  part,   \* which of the components moves; the others rest
  metadataAlive, metadataPeers, metadataPeersSubs, metadataTracksSubs,
  metadataPrivSubs, metadataClusterPeers, metadataClusterTracks, metadataOut,
  metadataTold, metadataKv, metadataOn, metadataInbox,
  joined, pub, sub, sdnPub, sdnSub,
  session, rooms, eout, cout, astray, used,
  tstate, mids, source, int, member, views, pubs

\* Endpoints that publish to the room and listen to it, and subscribe to no peer by hand.
Listening == INSTANCE RoomMetadata WITH
  RemotePeers <- {}, Modes <- RoomModes, Targets <- {}, MaxOut <- 1,
  MaxIn <- 1, alive <- metadataAlive, peers <- metadataPeers,
  peersSubs <- metadataPeersSubs, tracksSubs <- metadataTracksSubs,
  privSubs <- metadataPrivSubs, clusterPeers <- metadataClusterPeers,
  clusterTracks <- metadataClusterTracks, out <- metadataOut,
  told <- metadataTold, kv <- metadataKv, on <- metadataOn,
  inbox <- metadataInbox

\* The same for peers alone, with more under way.
Peering == INSTANCE RoomMetadata WITH
  RemotePeers <- OneRemote, Modes <- PeerModes, Targets <- {}, MaxOut <- 1,
  MaxIn <- 2, alive <- metadataAlive, peers <- metadataPeers,
  peersSubs <- metadataPeersSubs, tracksSubs <- metadataTracksSubs,
  privSubs <- metadataPrivSubs, clusterPeers <- metadataClusterPeers,
  clusterTracks <- metadataClusterTracks, out <- metadataOut,
  told <- metadataTold, kv <- metadataKv, on <- metadataOn,
  inbox <- metadataInbox

Messages == INSTANCE MessageChannel WITH
  Endpoints <- {e1, e2}, Channels <- {"c1", "c2"}, MaxQueue <- 1

Cluster == INSTANCE ClusterRooms WITH
  Places <- {1, 2}, Rooms <- {"a", "b"}, MaxSessions <- 3, MaxChanges <- 4,
  MaxSdn <- 1

Session == INSTANCE Endpoint WITH
  Rooms <- {"r1", "r2"}, Locals <- {"l1"}, Remotes <- {"t1"},
  Targets <- Followed, FirstJoin <- "r1", Races <- {}, MaxTasks <- 3,
  MaxQueue <- 2

metadataVars == <<metadataAlive, metadataPeers, metadataPeersSubs,
                  metadataTracksSubs, metadataPrivSubs, metadataClusterPeers,
                  metadataClusterTracks, metadataOut, metadataTold,
                  metadataKv, metadataOn, metadataInbox>>
channelsVars == <<joined, pub, sub, sdnPub, sdnSub>>
roomsVars == <<session, rooms, eout, cout, astray, used>>
endpointVars == <<tstate, mids, source, int, member, views, pubs>>
allVars == <<part, vars, metadataVars, channelsVars, roomsVars, endpointVars>>

AllInit ==
  /\ part \in {"manual", "metadata", "peers", "channels", "rooms", "endpoint"}
  /\ Init
  /\ IF part = "metadata" THEN Listening!Init
     ELSE IF part = "peers" THEN Peering!Init
     ELSE metadataAlive = 0 /\ metadataPeers = 0 /\ metadataPeersSubs = 0 /\
          metadataTracksSubs = 0 /\ metadataPrivSubs = 0 /\
          metadataClusterPeers = 0 /\ metadataClusterTracks = 0 /\
          metadataOut = 0 /\ metadataTold = 0 /\ metadataKv = 0 /\
          metadataOn = 0 /\ metadataInbox = 0
  /\ IF part = "channels" THEN Messages!Init
     ELSE joined = 0 /\ pub = 0 /\ sub = 0 /\ sdnPub = 0 /\ sdnSub = 0
  /\ IF part = "rooms" THEN Cluster!Init
     ELSE session = 0 /\ rooms = 0 /\ eout = 0 /\ cout = 0 /\ astray = 0 /\
          used = 0
  /\ IF part = "endpoint" THEN Session!Init
     ELSE tstate = 0 /\ mids = 0 /\ source = 0 /\ int = 0 /\ member = 0 /\
          views = 0 /\ pubs = 0

AllNext ==
  \/ /\ part = "manual" /\ Next
     /\ UNCHANGED <<part, metadataVars, channelsVars, roomsVars, endpointVars>>
  \/ /\ part = "metadata" /\ Listening!Next
     /\ UNCHANGED <<part, vars, channelsVars, roomsVars, endpointVars>>
  \/ /\ part = "peers" /\ Peering!Next
     /\ UNCHANGED <<part, vars, channelsVars, roomsVars, endpointVars>>
  \/ /\ part = "channels" /\ Messages!Next
     /\ UNCHANGED <<part, vars, metadataVars, roomsVars, endpointVars>>
  \/ /\ part = "rooms" /\ Cluster!Next
     /\ UNCHANGED <<part, vars, metadataVars, channelsVars, endpointVars>>
  \/ /\ part = "endpoint" /\ Session!Next
     /\ UNCHANGED <<part, vars, metadataVars, channelsVars, roomsVars>>
  \* These may come to an end.
  \/ part \in {"rooms", "endpoint"} /\ UNCHANGED allVars

AllSpec == AllInit /\ [][AllNext]_allVars

------------------------------------------------------------------------------
\* What the metadata of a room promises its listeners (metadata.rs). The
\* Set and Del controls leave in the cluster exactly the peers and tracks
\* that the endpoints of this node publish now: nothing outlives its
\* endpoint and nothing is deleted by another one. When nothing is under
\* way, an endpoint subscribed to the peers or the tracks of the room has
\* been told of each one in the cluster, whether it came first and was
\* answered by the store or later and had them restored.
RoomTold ==
  /\ part = "metadata" => /\ Listening!KeysSettle
                          /\ Listening!NoPeerMissed
                          /\ Listening!NoTrackMissed
  /\ part = "peers" => /\ Peering!KeysSettle
                       /\ Peering!NoPeerMissed
                       /\ Peering!NoTrackMissed

\* The message channels of a room (RoomMessageChannel). Both halves answer
\* the same from both sides of their index after any interleaving of start,
\* stop and leave; the network never sees a second start, a stop without a
\* start or data outside them; and when the last endpoint has left and the
\* outputs are drained nothing is registered any more, on which the Drop
\* assertions rely.
ChannelsSound ==
  /\ part = "channels" => /\ Messages!TypeOK
                          /\ Messages!IndexConsistent
                          /\ Messages!StreamsLegal
                          /\ Messages!Released

\* The rooms of a worker (MediaCluster, ClusterRoom). When nothing is on
\* its way a room holds exactly the live sessions that joined it, in each
\* of its parts the ones that use that part; it is there exactly as long as
\* a session is in it; and no session is handed an event of a room other
\* than its own, although rooms know sessions only by their place and
\* places are taken again.
RoomsHoldMembers ==
  /\ part = "rooms" => /\ Cluster!TypeOK
                       /\ Cluster!HoldsMembers
                       /\ Cluster!RoomWhileUsed
                       /\ Cluster!NoForeignEvent

\* An endpoint and its tracks (EndpointInternal). Every task an event can
\* reach agrees with the endpoint on the room it is in, which the
\* assertions of on_join_room and on_leave_room demand. The room gets the
\* controls of a track only between Join and Leave, and Leave only after
\* every subscription and publication is undone. One that was removed has
\* left every room. Once the outputs are popped the cluster knows exactly
\* the session: its room, its subscriptions and its publications.
RoomMirrors ==
  /\ part = "endpoint" => /\ Session!TypeOK
                          /\ Session!RoomsAgree
                          /\ Session!ControlsFit
                          /\ Session!AllLeft
                          /\ Session!RoomMirrors

Symmetry == Permutations(Followed)
==============================================================================
