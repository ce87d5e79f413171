--------------------------- MODULE MCRoomMetadata ---------------------------
(* Small instances of RoomMetadata.                                        *)
EXTENDS RoomMetadata, TLC

CONSTANTS e1, e2, p1, p2, r1

MCEndpoints == {e1, e2}
MCPeerOf == (e1 :> p1) @@ (e2 :> p2)
OneRemote == {r1}

Mode(pp, pt, sp, st) == [pubPeer |-> pp, pubTracks |-> pt, subPeers |-> sp, subTracks |-> st]

\* Endpoints that publish themselves and their tracks, or not, and listen to the
\* room's peers and tracks, or not.
RoomModes == {Mode(p, p, s, s) : p, s \in BOOLEAN}
\* The same for peers alone.
PeerModes == {Mode(p, FALSE, s, FALSE) : p, s \in BOOLEAN}
\* Endpoints that listen to the room's tracks, or not.
TrackModes == {Mode(FALSE, FALSE, FALSE, s) : s \in BOOLEAN}

\* Only the behaviours in which no event is under way for a map the node is not
\* subscribed to.
NoLateEvents == \A m \in Maps \ on : inbox[m] = <<>>
=============================================================================
