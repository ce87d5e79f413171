---------------------------- MODULE MCMediaTrack ----------------------------
(* Small instances of MediaTrack for TLC. *)
EXTENDS MediaTrack, TLC

CONSTANTS v1, v2, v3, e1, e2

MCViewers == {v1, v2, v3}

\* e1 has two local tracks.
MCEndpointOf == v1 :> e1 @@ v2 :> e1 @@ v3 :> e2
=============================================================================
