--------------------------- MODULE GlobalStatsFile ---------------------------
(***************************************************************************)
(* GlobalReadingStats: load(), save() and resetLocal() of                  *)
(* /.crosspoint/global_stats.bin, and the copy an activity holds.          *)
(***************************************************************************)
EXTENDS RotatedFile

CONSTANT MaxRecord    \* bound: version numbers of the record

ASSUME MaxRecordAssumption == MaxRecord \in Nat

VARIABLES
  stats,                   \* the copy of the activity that runs, or NoRecord
  s_blockDestructiveSave

vars == <<fileVars, stats, s_blockDestructiveSave>>

Init == FileInit({Newer}) /\ stats = NoRecord /\ s_blockDestructiveSave = FALSE

\* Mutant: a newer primary is treated like a damaged one.
LoadIgnoresNewer ==
  /\ pc = "idle"
  /\ stats' = Loadable(file)
  /\ UNCHANGED <<fileVars, s_blockDestructiveSave>>

Load ==
  /\ pc = "idle"
  /\ stats' = Loadable(file)
  /\ s_blockDestructiveSave' = (s_blockDestructiveSave \/ FoundNewer(file))
  /\ UNCHANGED fileVars

\* a session is added to the copy
Record ==
  /\ pc = "idle"
  /\ stats \in 0..(MaxRecord - 1)
  /\ stats' = stats + 1
  /\ UNCHANGED <<fileVars, s_blockDestructiveSave>>

Save ==
  /\ stats # NoRecord
  /\ ~s_blockDestructiveSave
  /\ Begin(stats, TRUE)
  /\ UNCHANGED <<stats, s_blockDestructiveSave>>

\* from the settings, where no reader holds a copy
ResetLocal ==
  /\ Begin(0, FALSE)
  /\ stats' = NoRecord
  /\ UNCHANGED s_blockDestructiveSave

InSaveToFile == SaveToFile /\ UNCHANGED <<stats, s_blockDestructiveSave>>

SaveReturns == Fails("saved", "idle") /\ UNCHANGED <<stats, s_blockDestructiveSave>>

\* RAM does not survive
LosePower == PowerLoss /\ stats' = NoRecord /\ s_blockDestructiveSave' = FALSE

Outside == (PowerOn \/ Corrupt) /\ UNCHANGED <<stats, s_blockDestructiveSave>>

Next == Load \/ Record \/ Save \/ ResetLocal \/ InSaveToFile \/ SaveReturns \/ LosePower \/ Outside

Spec == Init /\ [][Next]_vars

-----------------------------------------------------------------------------

\* The type of every variable of the model.
TypeOK ==
  /\ FileTypeOK
  /\ stats \in Nat \cup {NoRecord}
  /\ s_blockDestructiveSave \in BOOLEAN

\* The log of load() says "On-disk stats are from a newer build; refusing to
\* overwrite": then a newer file is there as long as save() refuses.
RefusedMeansNewer ==
  s_blockDestructiveSave /\ pc = "idle" => Newer \in {file.path, file.bak}

\* A copy that was loaded may only be saved over a file that is not newer.
IInv ==
  /\ TypeOK
  /\ RotationInv
  /\ stats # NoRecord /\ ~s_blockDestructiveSave => ~FoundNewer(file)
  /\ pc = "off" \/ (InSave /\ ~rotating) => stats = NoRecord

=============================================================================
