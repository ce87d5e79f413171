CONSTANTS
  e1 = e1  e2 = e2  p1 = p1  p2 = p2  r1 = r1
  PeersMap = PeersMap  TracksMap = TracksMap
  Endpoints <- MCEndpoints
  PeerOf <- MCPeerOf
  RemotePeers <- OneRemote
  Tracks = {t1}
  Modes <- TrackModes
  Targets = {r1}
  MaxOut = 1
  MaxIn = 2
SPECIFICATION Spec
INVARIANTS ManualStopsTold
CONSTRAINT NoLateEvents
