-------------------------- MODULE MCActivityManager --------------------------
(* Instances of ActivityManager for TLC.                                   *)
EXTENDS ActivityManager
=============================================================================
