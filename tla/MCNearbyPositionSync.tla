------------------------ MODULE MCNearbyPositionSync ------------------------
(* Instances of NearbyPositionSync for TLC.                                *)
EXTENDS NearbyPositionSync
=============================================================================
