-------------------------- MODULE MCGlobalStatsFile --------------------------
(* Instances of GlobalStatsFile for TLC.                                   *)
EXTENDS GlobalStatsFile
=============================================================================
