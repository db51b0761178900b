------------------------- MODULE MCNearbyStatsSync -------------------------
(* Instances of NearbyStatsSync for TLC.                                   *)
EXTENDS NearbyStatsSync
=============================================================================
