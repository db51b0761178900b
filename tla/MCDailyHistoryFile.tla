------------------------- MODULE MCDailyHistoryFile -------------------------
(* Instances of DailyHistoryFile for TLC.                                  *)
EXTENDS DailyHistoryFile
=============================================================================
