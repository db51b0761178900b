--------------------------- MODULE DailyHistoryFile ---------------------------
(***************************************************************************)
(* DailyReadingHistory: load(), save() and reset() of                      *)
(* /.crosspoint/daily_reading.bin.  Its saveToFile() is the one of         *)
(* RotatedFile; unlike the global statistics it writes only when dirty and *)
(* decides anew with every load whether it may write.  Its loadFromFile()  *)
(* takes a file of any other size or magic for damage before it looks at   *)
(* the version, so a newer format is recognised only in a file of the size *)
(* this firmware writes: Newer is such a file, Resized is any other.       *)
(***************************************************************************)
EXTENDS RotatedFile

CONSTANT MaxRecord    \* bound: version numbers of the record

ASSUME MaxRecordAssumption == MaxRecord \in Nat

VARIABLES
  history,       \* the reader's history, or NoRecord
  dirty_,
  saveBlocked_

dataVars == <<history, dirty_, saveBlocked_>>
vars     == <<fileVars, dataVars>>

Init == FileInit({Newer, Resized}) /\ history = NoRecord /\ dirty_ = FALSE /\ saveBlocked_ = FALSE

\* Mutant: a newer primary does not block.
LoadUnblocked(legacy) ==
  LET found == Valid(file.path) \/ (file.path # Newer /\ Valid(file.bak)) IN
  /\ pc = "idle"
  /\ history' = IF found \/ FoundNewer(file) THEN Loadable(file) ELSE legacy
  /\ dirty_' = (~Valid(file.path) /\ ~FoundNewer(file) /\ (found \/ legacy # 0))
  /\ saveBlocked_' = FALSE
  /\ UNCHANGED fileVars

\* A primary that is not valid and not recognised, a Resized one among them,
\* leads to the backup.  seedFromLegacy() takes the days of the global statistics when there is
\* neither a history nor a backup
Load(legacy) ==
  LET found == Valid(file.path) \/ (file.path # Newer /\ Valid(file.bak)) IN
  /\ pc = "idle"
  /\ history' = IF found \/ FoundNewer(file) THEN Loadable(file) ELSE legacy
  /\ dirty_' = (~Valid(file.path) /\ ~FoundNewer(file) /\ (found \/ legacy # 0))
  /\ saveBlocked_' = FoundNewer(file)
  /\ UNCHANGED fileVars

\* recordReadingSpan()
AddMinutes ==
  /\ pc = "idle"
  /\ history \in 0..(MaxRecord - 1)
  /\ history' = history + 1
  /\ dirty_' = TRUE
  /\ UNCHANGED <<fileVars, saveBlocked_>>

\* Mutant: the flag is cleared before the result is known.
SaveClearsFirst ==
  /\ history # NoRecord
  /\ dirty_
  /\ ~saveBlocked_
  /\ Begin(history, TRUE)
  /\ dirty_' = FALSE
  /\ UNCHANGED <<history, saveBlocked_>>

Save ==
  /\ history # NoRecord
  /\ dirty_
  /\ ~saveBlocked_
  /\ Begin(history, TRUE)
  /\ UNCHANGED dataVars

\* static; no reader holds a history in the settings
ResetHistory ==
  /\ Begin(0, FALSE)
  /\ history' = NoRecord
  /\ dirty_' = FALSE
  /\ saveBlocked_' = FALSE

InSaveToFile == SaveToFile /\ UNCHANGED dataVars

SaveReturns ==
  /\ Fails("saved", "idle")
  /\ dirty_' = FALSE
  /\ UNCHANGED <<history, saveBlocked_>>

LosePower == PowerLoss /\ history' = NoRecord /\ dirty_' = FALSE /\ saveBlocked_' = FALSE

Outside == (PowerOn \/ Corrupt) /\ UNCHANGED dataVars

Next ==
  \/ \E legacy \in 0..1 : Load(legacy)
  \/ AddMinutes \/ Save \/ ResetHistory \/ InSaveToFile \/ SaveReturns \/ LosePower \/ Outside

Spec == Init /\ [][Next]_vars

-----------------------------------------------------------------------------

\* The type of every variable of the model.
TypeOK ==
  /\ FileTypeOK
  /\ history \in Nat \cup {NoRecord}
  /\ dirty_ \in BOOLEAN
  /\ saveBlocked_ \in BOOLEAN

\* "Writes only after a change": when save() has nothing to write, the next
\* load() would find exactly what the reader holds, so skipping loses nothing.
CleanMeansStored ==
  pc = "idle" /\ history # NoRecord /\ ~dirty_ => history = Loadable(file)

\* load() meets a file of a newer format, recognised or not.
MeetsNewer(f) ==
  f.path \in {Newer, Resized} \/ (~Valid(f.path) /\ f.bak \in {Newer, Resized})

\* "Refusing to overwrite newer-format daily history" (save()), of whatever
\* size that format is.  It does not hold: load() takes a Resized file for damage.
NewerOfAnySizeKept ==
  [][MeetsNewer(file) => MeetsNewer(file') \/ (InSave /\ ~rotating)]_fileVars

\* The inductive invariant.
IInv ==
  /\ TypeOK
  /\ RotationInv
  /\ history # NoRecord /\ ~saveBlocked_ => ~FoundNewer(file)
  /\ history # NoRecord /\ ~dirty_ /\ pc # "off" => history = Loadable(file)
  /\ history # NoRecord /\ InSave => history = saving /\ rotating
  /\ InSave /\ rotating => history # NoRecord /\ dirty_
  /\ pc = "saved" => file.path = saving
  /\ pc = "off" => history = NoRecord

=============================================================================
