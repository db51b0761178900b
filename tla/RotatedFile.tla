----------------------------- MODULE RotatedFile -----------------------------
(***************************************************************************)
(* saveToFile() of the reading-statistics files: the record is written to  *)
(* a temporary file, the old file is rotated to a backup, the temporary    *)
(* file is renamed into place.  Each step is one call to the SD card; it   *)
(* may fail, and the power may go between any two.  A remove or a rename   *)
(* that succeeds is durable, and a record is its version number.           *)
(***************************************************************************)
EXTENDS Naturals

CONSTANTS
  Missing,    \* there is no file
  Torn,       \* a file that is too short or fails validation
  Newer,      \* a file that load() recognises as one of a newer format version
  Resized,    \* a file of a newer format whose size load() takes for damage
  NoRecord    \* the program holds no record

ASSUME ContentsAssumption ==
  /\ Missing # Torn /\ Missing # Newer /\ Torn # Newer
  /\ Resized \notin {Missing, Torn, Newer}
  /\ {Missing, Torn, Newer, Resized, NoRecord} \cap Nat = {}

VARIABLES
  file,       \* content of the primary file, its backup and its temporary
  pc,         \* next call of saveToFile(), "idle" outside, "off" without power
  saving,     \* record being saved
  rotating,   \* backupPath is given
  intact      \* the primary was valid when this save began

fileVars == <<file, pc, saving, rotating, intact>>

Contents == Nat \cup {Missing, Torn, Newer, Resized}
Valid(content) == content \in Nat

\* What load() gives for the files f: the primary, else the backup, else an
\* empty record; a recognised newer format is not looked into.
Loadable(f) ==
  IF Valid(f.path) THEN f.path
  ELSE IF f.path # Newer /\ Valid(f.bak) THEN f.bak ELSE 0

\* load() recognised a newer format where it looked.
FoundNewer(f) == f.path = Newer \/ (~Valid(f.path) /\ f.bak = Newer)

-----------------------------------------------------------------------------
(* saveToFile().                                                           *)

Begin(record, rotate) ==
  /\ pc = "idle"
  /\ pc' = "clean"
  /\ saving' = record
  /\ rotating' = rotate
  /\ intact' = Valid(file.path)
  /\ UNCHANGED file

SaveStep(from, to) == pc = from /\ pc' = to /\ UNCHANGED <<saving, rotating, intact>>

\* A call fails: nothing on the card has changed.
Fails(from, to) == SaveStep(from, to) /\ UNCHANGED file

RemoveStaleTmp ==
  \/ SaveStep("clean", "open") /\ file' = [file EXCEPT !.tmp = Missing]
  \/ file.tmp # Missing /\ Fails("clean", "idle")

\* openFileForWrite() creates an empty file
OpenTmp ==
  \/ SaveStep("open", "fill") /\ file' = [file EXCEPT !.tmp = Torn]
  \/ Fails("open", "idle")

\* write, flush, sync, close and the check of the size
FillTmp ==
  \/ SaveStep("fill", "dropOld") /\ file' = [file EXCEPT !.tmp = saving]
  \/ Fails("fill", "discard")

\* the old backup goes, or without rotation the old file
DropOld ==
  \/ /\ rotating
     /\ SaveStep("dropOld", "rotate")
     /\ file' = [file EXCEPT !.bak = Missing]
  \/ /\ ~rotating
     /\ SaveStep("dropOld", "publish")
     /\ file' = [file EXCEPT !.path = Missing]
  \/ /\ (IF rotating THEN file.bak ELSE file.path) # Missing
     /\ Fails("dropOld", "discard")

\* Mutant: the primary is removed, not renamed to the backup.
RotateByRemoving ==
  \/ SaveStep("rotate", "publish") /\ file' = [file EXCEPT !.path = Missing]
  \/ file.path # Missing /\ Fails("rotate", "discard")

RotateBackup ==
  \/ /\ file.path # Missing
     /\ SaveStep("rotate", "publish")
     /\ file' = [file EXCEPT !.bak = file.path, !.path = Missing]
  \/ file.path = Missing /\ SaveStep("rotate", "publish") /\ UNCHANGED file
  \/ file.path # Missing /\ Fails("rotate", "discard")

Publish ==
  \/ /\ SaveStep("publish", "saved")
     /\ file' = [file EXCEPT !.path = file.tmp, !.tmp = Missing]
  \/ Fails("publish", "restore")

\* the backup is put back, as far as the card lets it
RestoreBackup ==
  /\ SaveStep("restore", "discard")
  /\ \/ /\ rotating /\ file.bak # Missing /\ file.path = Missing
        /\ file' = [file EXCEPT !.path = file.bak, !.bak = Missing]
     \/ UNCHANGED file

\* Storage.remove(tmp), whose result nobody looks at
DiscardTmp ==
  /\ SaveStep("discard", "idle")
  /\ \/ file' = [file EXCEPT !.tmp = Missing]
     \/ UNCHANGED file

SaveToFile ==
  RemoveStaleTmp \/ OpenTmp \/ FillTmp \/ DropOld \/ RotateBackup \/ Publish \/ RestoreBackup
    \/ DiscardTmp

-----------------------------------------------------------------------------
(* The world around it.                                                    *)

PowerLoss == pc # "off" /\ pc' = "off" /\ UNCHANGED <<file, saving, rotating, intact>>

PowerOn == pc = "off" /\ pc' = "idle" /\ UNCHANGED <<file, saving, rotating, intact>>

\* the primary is damaged while the card is out of the device
Corrupt ==
  /\ pc = "off"
  /\ Valid(file.path)
  /\ file' = [file EXCEPT !.path = Torn]
  /\ UNCHANGED <<pc, saving, rotating, intact>>

\* What an earlier boot, of this firmware or of a newer one, may have left:
\* newer is what this firmware's load() may take files of a newer format for.
FileInit(newer) ==
  /\ file \in [path : {Missing, 1} \cup newer, bak : {Missing, 0} \cup newer, tmp : {Missing, Torn}]
  /\ Valid(file.path) => file.bak \notin newer
  /\ pc = "off"
  /\ saving = 0
  /\ rotating = TRUE
  /\ intact = FALSE

-----------------------------------------------------------------------------
(* Properties of the file alone.                                           *)

FileTypeOK ==
  /\ file \in [path : Contents, bak : Contents, tmp : Contents]
  /\ pc \in {"off", "idle", "clean", "open", "fill", "dropOld", "rotate", "publish", "restore",
             "discard", "saved"}
  /\ saving \in Nat
  /\ rotating \in BOOLEAN
  /\ intact \in BOOLEAN

InSave == pc \notin {"off", "idle"}

\* A save that began with a valid primary is atomic: whatever call fails and
\* wherever the power goes, the next load() finds the old record or the new
\* one, and the new one only from the final rename on (saveToFile()).
AtomicSave ==
  [][InSave /\ rotating /\ intact =>
       \/ Loadable(file') = Loadable(file)
       \/ pc = "publish" /\ Loadable(file') = saving]_fileVars

\* A file that load() recognises as one of a newer firmware is only ever
\* removed by an explicit reset ("refusing to overwrite", load()).
NewerKept ==
  [][FoundNewer(file) => FoundNewer(file') \/ (InSave /\ ~rotating)]_fileVars

\* What is known of the files at each step of a rotating save.
RotationInv ==
  /\ pc \in {"dropOld", "rotate", "publish"} => file.tmp = saving
  /\ pc = "rotate" => rotating
  /\ InSave /\ rotating =>
       /\ ~FoundNewer(file)
       /\ pc = "rotate" => file.bak = Missing
       /\ pc \in {"publish", "restore"} => file.path = Missing
       /\ intact /\ pc \notin {"publish", "restore", "discard", "saved"} => Valid(file.path)
       /\ intact /\ pc \in {"publish", "restore"} => Valid(file.bak)
       /\ intact /\ pc = "discard" => Valid(file.path) \/ (file.path = Missing /\ Valid(file.bak))

=============================================================================
