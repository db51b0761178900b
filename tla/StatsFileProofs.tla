----------------------------- MODULE StatsFileProofs -----------------------------
(***************************************************************************)
(* Theorems about the two files of reading statistics, for every sequence  *)
(* of failing calls, power losses and damaged files: first what the calls  *)
(* of saveToFile() keep, which is the same for both files, then the steps  *)
(* around them: load(), save() and reset() of DailyHistoryFile, which this *)
(* module extends, and of GlobalStatsFile, its instance Stats.             *)
(***************************************************************************)
EXTENDS DailyHistoryFile, TLAPS

VARIABLES stats, s_blockDestructiveSave

Stats == INSTANCE GlobalStatsFile

-----------------------------------------------------------------------------
(* saveToFile() of either file.                                            *)

\* Every call of saveToFile() keeps the types.
LEMMA SaveKeepsTypes ==
  ASSUME FileTypeOK, SaveToFile
  PROVE  FileTypeOK'
BY DEF FileTypeOK, Contents, SaveToFile, RemoveStaleTmp, OpenTmp, FillTmp, DropOld, RotateBackup, Publish,
   RestoreBackup, DiscardTmp, SaveStep, Fails

\* Every call of saveToFile() keeps what is known of the files.
LEMMA SaveKeepsRotation ==
  ASSUME FileTypeOK, RotationInv, SaveToFile
  PROVE  RotationInv'
<1> USE ContentsAssumption DEF FileTypeOK, Contents, RotationInv, InSave, Valid, FoundNewer, SaveStep
<1>1. CASE RemoveStaleTmp
  BY <1>1 DEF RemoveStaleTmp, Fails
<1>2. CASE OpenTmp
  BY <1>2 DEF OpenTmp, Fails
<1>3. CASE FillTmp
  BY <1>3 DEF FillTmp, Fails
<1>4. CASE DropOld
  BY <1>4 DEF DropOld, Fails
<1>5. CASE RotateBackup
  <2>1. CASE /\ file.path # Missing
             /\ SaveStep("rotate", "publish")
             /\ file' = [file EXCEPT !.bak = file.path, !.path = Missing]
    <3> QED
      BY <2>1
  <2>2. CASE file.path = Missing /\ SaveStep("rotate", "publish") /\ UNCHANGED file
    BY <2>2
  <2>3. CASE file.path # Missing /\ Fails("rotate", "discard")
    BY <2>3 DEF Fails
  <2> QED
    BY <1>5, <2>1, <2>3 DEF RotateBackup
<1>6. CASE Publish
  <2>1. CASE /\ SaveStep("publish", "saved")
             /\ file' = [file EXCEPT !.path = file.tmp, !.tmp = Missing]
    <3> QED
      BY <2>1
  <2>2. CASE Fails("publish", "restore")
    BY <2>2 DEF Fails
  <2> QED
    BY <1>6, <2>2 DEF Publish
<1>7. CASE RestoreBackup
  BY <1>7 DEF RestoreBackup
<1>8. CASE DiscardTmp
  BY <1>8 DEF DiscardTmp
<1> QED
  BY <1>1, <1>2, <1>3, <1>4, <1>5, <1>6, <1>7, <1>8 DEF SaveToFile

\* A rotating save stays one, and never makes load() meet a newer format.
LEMMA SaveKeepsOld ==
  ASSUME FileTypeOK, RotationInv, SaveToFile
  PROVE  /\ InSave /\ pc' # "off"
         /\ rotating' = rotating
         /\ rotating => ~FoundNewer(file')
<1>1. InSave /\ pc' # "off" /\ rotating' = rotating
  BY DEF SaveToFile, RemoveStaleTmp, OpenTmp, FillTmp, DropOld, RotateBackup, Publish, RestoreBackup,
     DiscardTmp, SaveStep, Fails, InSave
<1>2. CASE pc' = "idle"
  BY <1>1, <1>2 DEF SaveToFile, RemoveStaleTmp, OpenTmp, FillTmp, DropOld, RotateBackup, Publish,
     RestoreBackup, DiscardTmp, SaveStep, Fails, FileTypeOK, RotationInv, FoundNewer
<1>3. CASE pc' # "idle"
  BY <1>1, <1>3, SaveKeepsRotation DEF RotationInv, InSave
<1> QED
  BY <1>2, <1>3

\* A save begins with nothing known but what the caller has checked.
LEMMA BeginStartsRotation ==
  ASSUME FileTypeOK, NEW record, NEW rotate \in BOOLEAN, Begin(record, rotate),
         rotate => ~FoundNewer(file)
  PROVE  RotationInv'
BY DEF RotationInv, Begin

\* It changes no file.
LEMMA BeginKeepsTypes ==
  ASSUME FileTypeOK, NEW record \in Nat, NEW rotate \in BOOLEAN, Begin(record, rotate)
  PROVE  FileTypeOK'
<1>1. intact' \in BOOLEAN
  BY DEF Begin, Valid
<1> QED
  BY <1>1 DEF Begin, FileTypeOK

\* From a valid primary, load() finds the old record or, from the final
\* rename on, the new one.
LEMMA SaveIsAtomic ==
  ASSUME FileTypeOK, RotationInv, SaveToFile, rotating, intact
  PROVE  \/ Loadable(file') = Loadable(file)
         \/ pc = "publish" /\ Loadable(file') = saving
<1> USE ContentsAssumption DEF FileTypeOK, Contents, RotationInv, InSave, Valid, FoundNewer, Loadable,
        SaveStep
<1>1. CASE RemoveStaleTmp
  BY <1>1 DEF RemoveStaleTmp, Fails
<1>2. CASE OpenTmp
  BY <1>2 DEF OpenTmp, Fails
<1>3. CASE FillTmp
  BY <1>3 DEF FillTmp, Fails
<1>4. CASE DropOld
  BY <1>4 DEF DropOld, Fails
<1>5. CASE RotateBackup
  BY <1>5 DEF RotateBackup, Fails
<1>6. CASE Publish
  BY <1>6 DEF Publish, Fails
<1>7. CASE RestoreBackup
  BY <1>7 DEF RestoreBackup
<1>8. CASE DiscardTmp
  BY <1>8 DEF DiscardTmp
<1> QED
  BY <1>1, <1>2, <1>3, <1>4, <1>5, <1>6, <1>7, <1>8 DEF SaveToFile

-----------------------------------------------------------------------------
(* The daily history.                                                      *)

\* Whatever an earlier boot left on the card, the invariant holds at power-on.
LEMMA InitIInv == Init => IInv
<1> SUFFICES ASSUME Init
             PROVE  IInv
  OBVIOUS
<1>1. pc = "off" /\ ~InSave /\ history = NoRecord
  BY DEF Init, FileInit, InSave
<1>2. file \in [path : Contents, bak : Contents, tmp : Contents]
  BY DEF Init, FileInit, Contents
<1>3. TypeOK
  BY <1>2 DEF Init, FileInit, TypeOK, FileTypeOK
<1>4. RotationInv
  BY <1>1 DEF RotationInv
<1> QED
  BY <1>1, <1>3, <1>4 DEF IInv

\* The steps between two saves keep the types: they change neither the files
\* nor anything about the save.
LEMMA QuietTypes ==
  ASSUME TypeOK, UNCHANGED fileVars, history' \in Nat, dirty_' \in BOOLEAN,
         saveBlocked_' \in BOOLEAN
  PROVE  TypeOK'
BY DEF TypeOK, FileTypeOK, fileVars

\* The same for what is known of the files.
LEMMA QuietRotation ==
  ASSUME RotationInv, UNCHANGED fileVars
  PROVE  RotationInv'
BY DEF RotationInv, fileVars, InSave

\* load() of the files.
LEMMA LoadIInv ==
  ASSUME IInv, NEW legacy \in 0..1, Load(legacy)
  PROVE  IInv'
<1>1. TypeOK /\ RotationInv /\ pc = "idle" /\ UNCHANGED fileVars
  BY DEF IInv, Load
<1>2. Loadable(file) \in Nat /\ FoundNewer(file) \in BOOLEAN
  BY DEF Loadable, FoundNewer, Valid
<1>3. history' \in Nat /\ history' # NoRecord
  BY <1>2, ContentsAssumption DEF Load
<1>4. dirty_' \in BOOLEAN /\ saveBlocked_' \in BOOLEAN
  BY <1>2 DEF Load
<1>5. TypeOK'
  BY <1>1, <1>3, <1>4, QuietTypes
<1>6. ~dirty_' => history' = Loadable(file)
  <2>1. CASE Valid(file.path) \/ (file.path # Newer /\ Valid(file.bak)) \/ FoundNewer(file)
    BY <2>1 DEF Load
  <2>2. CASE ~(Valid(file.path) \/ (file.path # Newer /\ Valid(file.bak)) \/ FoundNewer(file))
    <3>1. Loadable(file) = 0 /\ history' = legacy
      BY <2>2 DEF Load, Loadable
    <3>2. ~dirty_' => legacy = 0
      BY <2>2 DEF Load
    <3> QED
      BY <3>1, <3>2
  <2> QED
    BY <2>1, <2>2
<1>7. ~saveBlocked_' => ~FoundNewer(file)
  BY DEF Load
<1> QED
  BY <1>1, <1>5, <1>6, <1>7, QuietRotation DEF IInv, fileVars, InSave

\* Every call of saveToFile().
LEMMA SaveToFileIInv ==
  ASSUME IInv, InSaveToFile
  PROVE  IInv'
<1>1. FileTypeOK /\ RotationInv /\ SaveToFile /\ UNCHANGED dataVars
  BY DEF IInv, TypeOK, InSaveToFile
<1>2. FileTypeOK' /\ RotationInv'
  BY <1>1, SaveKeepsTypes, SaveKeepsRotation
<1>3. /\ InSave /\ pc' # "off" /\ rotating' = rotating
      /\ rotating => ~FoundNewer(file')
  BY <1>1, SaveKeepsOld
<1>4. saving' = saving
  BY <1>1 DEF SaveToFile, RemoveStaleTmp, OpenTmp, FillTmp, DropOld, RotateBackup, Publish, RestoreBackup,
     DiscardTmp, SaveStep, Fails
<1>5. pc' = "saved" => file'.path = saving
  <2> SUFFICES ASSUME pc' = "saved"
               PROVE  file'.path = saving
    OBVIOUS
  <2>1. pc = "publish" /\ file' = [file EXCEPT !.path = file.tmp, !.tmp = Missing]
    BY <1>1 DEF SaveToFile, RemoveStaleTmp, OpenTmp, FillTmp, DropOld, RotateBackup, Publish, RestoreBackup,
       DiscardTmp, SaveStep, Fails
  <2>2. file.tmp = saving
    BY <1>1, <2>1 DEF RotationInv
  <2> QED
    BY <2>1, <2>2
<1> QED
  BY <1>1, <1>2, <1>3, <1>4, <1>5 DEF IInv, TypeOK, dataVars

\* Every step of load, change, save, reset and power loss keeps the invariant.
LEMMA NextIInv == IInv /\ [Next]_vars => IInv'
<1> SUFFICES ASSUME IInv, [Next]_vars
             PROVE  IInv'
  OBVIOUS
<1>1. TypeOK /\ FileTypeOK /\ RotationInv
  BY DEF IInv, TypeOK
<1>2. CASE \E legacy \in 0..1 : Load(legacy)
  BY <1>2, LoadIInv
<1>3. CASE AddMinutes
  <2>1. history \in Nat /\ history # NoRecord /\ history' \in Nat /\ dirty_' = TRUE
    BY <1>3, MaxRecordAssumption, ContentsAssumption DEF AddMinutes
  <2>2. pc = "idle" /\ UNCHANGED <<fileVars, saveBlocked_>>
    BY <1>3 DEF AddMinutes
  <2>3. TypeOK'
    BY <1>1, <2>1, <2>2, QuietTypes DEF TypeOK
  <2> QED
    BY <2>1, <2>2, <2>3, QuietRotation DEF IInv, fileVars, InSave
<1>4. CASE Save
  <2>1. ~FoundNewer(file) /\ history \in Nat /\ history # NoRecord /\ dirty_ = TRUE
    BY <1>4 DEF Save, IInv, TypeOK
  <2>2. RotationInv'
    BY <1>1, <1>4, <2>1, BeginStartsRotation DEF Save
  <2>3. intact' \in BOOLEAN
    BY <1>4 DEF Save, Begin, Valid
  <2>4. FileTypeOK'
    BY <1>1, <1>4, <2>1, <2>3 DEF Save, Begin, FileTypeOK
  <2>5. pc' = "clean" /\ saving' = history /\ rotating' = TRUE /\ UNCHANGED <<file, dataVars>>
    BY <1>4 DEF Save, Begin
  <2> QED
    BY <2>1, <2>2, <2>4, <2>5 DEF IInv, TypeOK, dataVars
<1>5. CASE ResetHistory
  <2>1. RotationInv'
    BY <1>1, <1>5, BeginStartsRotation DEF ResetHistory
  <2>2. intact' \in BOOLEAN
    BY <1>5 DEF ResetHistory, Begin, Valid
  <2>3. FileTypeOK'
    BY <1>1, <1>5, <2>2 DEF ResetHistory, Begin, FileTypeOK
  <2>4. /\ pc' = "clean" /\ rotating' = FALSE /\ history' = NoRecord
        /\ dirty_' = FALSE /\ saveBlocked_' = FALSE
    BY <1>5 DEF ResetHistory, Begin
  <2> QED
    BY <2>1, <2>3, <2>4 DEF IInv, TypeOK
<1>6. CASE InSaveToFile
  BY <1>6, SaveToFileIInv
<1>7. CASE SaveReturns
  <2>1. /\ pc = "saved" /\ pc' = "idle" /\ dirty_' = FALSE
        /\ UNCHANGED <<file, saving, rotating, intact, history, saveBlocked_>>
    BY <1>7 DEF SaveReturns, Fails, SaveStep
  <2>2. TypeOK' /\ RotationInv'
    BY <1>1, <2>1 DEF TypeOK, FileTypeOK, RotationInv, InSave
  <2>3. history # NoRecord => history = Loadable(file)
    BY <1>1, <2>1 DEF IInv, InSave, Loadable, Valid, FileTypeOK
  <2> QED
    BY <2>1, <2>2, <2>3 DEF IInv, InSave
<1>8. CASE LosePower
  <2>1. /\ pc' = "off" /\ history' = NoRecord /\ dirty_' = FALSE /\ saveBlocked_' = FALSE
        /\ UNCHANGED <<file, saving, rotating, intact>>
    BY <1>8 DEF LosePower, PowerLoss
  <2> QED
    BY <2>1 DEF IInv, TypeOK, FileTypeOK, RotationInv, InSave
<1>9. CASE Outside
  <2>1. pc = "off" /\ pc' \in {"off", "idle"} /\ UNCHANGED <<saving, rotating, intact, dataVars>>
    BY <1>9 DEF Outside, PowerOn, Corrupt
  <2>2. file' \in [path : Contents, bak : Contents, tmp : Contents]
    BY <1>1, <1>9 DEF Outside, PowerOn, Corrupt, FileTypeOK, Contents
  <2>3. TypeOK'
    BY <1>1, <2>1, <2>2 DEF TypeOK, FileTypeOK, dataVars
  <2>4. RotationInv'
    BY <2>1 DEF RotationInv, InSave
  <2> QED
    BY <2>1, <2>3, <2>4 DEF IInv, InSave, dataVars
<1>10. CASE UNCHANGED vars
  <2>1. TypeOK' /\ RotationInv'
    BY <1>1, <1>10 DEF vars, fileVars, dataVars, TypeOK, FileTypeOK, RotationInv, InSave
  <2> QED
    BY <1>10, <2>1 DEF vars, fileVars, dataVars, IInv, InSave
<1> QED
  BY <1>2, <1>3, <1>4, <1>5, <1>6, <1>7, <1>8, <1>9, <1>10 DEF Next

\* The inductive invariant holds in every state.
THEOREM Invariance == Spec => []IInv
BY InitIInv, NextIInv, PTL DEF Spec

\* Every variable keeps its type.
THEOREM TypeCorrect == Spec => []TypeOK
<1>1. IInv => TypeOK
  BY DEF IInv
<1> QED
  BY <1>1, Invariance, PTL

\* A history that save() would skip is what the next load() would find.
THEOREM CleanStored == Spec => []CleanMeansStored
<1>1. IInv => CleanMeansStored
  BY DEF IInv, CleanMeansStored
<1> QED
  BY <1>1, Invariance, PTL

\* Only an explicit reset removes a history that load() recognises as one of
\* a newer format: one in a file of the size this firmware writes.  Nothing is
\* claimed of a newer format of another size (NewerOfAnySizeKept is violated).
THEOREM NewerSafe == Spec => NewerKept
<1>1. IInv /\ [Next]_vars => [FoundNewer(file) => FoundNewer(file') \/ (InSave /\ ~rotating)]_fileVars
  <2> SUFFICES ASSUME IInv, [Next]_vars, FoundNewer(file), rotating \/ ~InSave
               PROVE  FoundNewer(file')
    OBVIOUS
  <2>1. ~InSave
    BY DEF IInv, RotationInv
  <2>2. CASE InSaveToFile
    BY <2>1, <2>2, SaveKeepsOld DEF InSaveToFile, IInv, TypeOK
  <2>3. CASE (\E legacy \in 0..1 : Load(legacy)) \/ AddMinutes \/ Save \/ ResetHistory \/ SaveReturns
               \/ LosePower
    <3>1. file' = file
      BY <2>3 DEF Load, AddMinutes, Save, ResetHistory, Begin, SaveReturns, Fails, LosePower, PowerLoss,
         fileVars
    <3> QED
      BY <3>1
  <2>4. CASE Outside
    <3>1. CASE file' = file
      BY <3>1
    <3>2. CASE Valid(file.path) /\ file' = [file EXCEPT !.path = Torn]
      BY <3>2, ContentsAssumption DEF FoundNewer, Valid
    <3> QED
      BY <2>4, <3>2 DEF Outside, PowerOn, Corrupt
  <2>5. CASE UNCHANGED vars
    BY <2>5 DEF vars, fileVars
  <2> QED
    BY <2>2, <2>3, <2>4, <2>5 DEF Next
<1> QED
  BY <1>1, Invariance, PTL DEF Spec, NewerKept

-----------------------------------------------------------------------------
(* The global statistics.                                                  *)

\* The operators of RotatedFile are the same in both specifications.
LEMMA SameInvariants ==
  /\ Stats!FileInit({Newer}) <=> FileInit({Newer})
  /\ Stats!InSave <=> InSave
  /\ Stats!InSave' <=> InSave'
  /\ Stats!FileTypeOK <=> FileTypeOK
  /\ Stats!FileTypeOK' <=> FileTypeOK'
  /\ Stats!RotationInv <=> RotationInv
  /\ Stats!RotationInv' <=> RotationInv'
  /\ Stats!FoundNewer(file) <=> FoundNewer(file)
  /\ Stats!FoundNewer(file') <=> FoundNewer(file')
  /\ Stats!Loadable(file) = Loadable(file)
BY DEF FileInit, InSave, FileTypeOK, Contents, RotationInv, FoundNewer, Loadable, Valid, Stats!FileInit,
   Stats!InSave, Stats!FileTypeOK, Stats!Contents, Stats!RotationInv, Stats!FoundNewer, Stats!Loadable,
   Stats!Valid

\* The instance's writer and its power and reader steps are this module's.
LEMMA SameSteps ==
  /\ Stats!fileVars = fileVars /\ Stats!fileVars' = fileVars'
  /\ Stats!SaveToFile <=> SaveToFile
  /\ \A record, rotate : Stats!Begin(record, rotate) <=> Begin(record, rotate)
  /\ Stats!Fails("saved", "idle") <=> Fails("saved", "idle")
  /\ Stats!PowerLoss <=> PowerLoss
  /\ Stats!PowerOn <=> PowerOn
  /\ Stats!Corrupt <=> Corrupt
<1>1. Stats!SaveToFile <=> SaveToFile
  BY DEF SaveToFile, RemoveStaleTmp, OpenTmp, FillTmp, DropOld, RotateBackup, Publish, RestoreBackup,
     DiscardTmp, SaveStep, Fails, Stats!SaveToFile, Stats!RemoveStaleTmp, Stats!OpenTmp, Stats!FillTmp,
     Stats!DropOld, Stats!RotateBackup, Stats!Publish, Stats!RestoreBackup, Stats!DiscardTmp, Stats!SaveStep,
     Stats!Fails
<1>2. \A record, rotate : Stats!Begin(record, rotate) <=> Begin(record, rotate)
  BY DEF Begin, Valid, Stats!Begin, Stats!Valid
<1> QED
  BY <1>1, <1>2 DEF fileVars, Fails, SaveStep, PowerLoss, PowerOn, Corrupt, Valid, Stats!fileVars,
     Stats!Fails, Stats!SaveStep, Stats!PowerLoss, Stats!PowerOn, Stats!Corrupt, Stats!Valid

\* Whatever an earlier boot left on the card, the invariant holds at power-on.
LEMMA StatsInitIInv == Stats!Init => Stats!IInv
<1> SUFFICES ASSUME Stats!Init
             PROVE  Stats!IInv
  OBVIOUS
<1>1. FileInit({Newer}) /\ stats = NoRecord /\ s_blockDestructiveSave = FALSE
  BY SameInvariants DEF Stats!Init
<1>2. pc = "off" /\ ~InSave
  BY <1>1 DEF FileInit, InSave
<1>3. file \in [path : Contents, bak : Contents, tmp : Contents]
  BY <1>1 DEF FileInit, Contents
<1>4. FileTypeOK
  BY <1>1, <1>3 DEF FileInit, FileTypeOK
<1>5. RotationInv
  BY <1>2 DEF RotationInv
<1> QED
  BY <1>1, <1>4, <1>5, SameInvariants DEF Stats!IInv, Stats!TypeOK

\* Every step of load, save, resetLocal and power loss keeps the invariant.
LEMMA StatsNextIInv == Stats!IInv /\ [Stats!Next]_(Stats!vars) => Stats!IInv'
<1> SUFFICES ASSUME Stats!IInv, [Stats!Next]_(Stats!vars)
             PROVE  Stats!IInv'
  OBVIOUS
<1>1. Stats!TypeOK /\ FileTypeOK /\ RotationInv
  BY SameInvariants DEF Stats!IInv, Stats!TypeOK
<1>2. CASE Stats!Load
  <2>1. Loadable(file) \in Nat
    BY DEF Loadable, Valid
  <2>2. /\ pc = "idle" /\ stats' = Loadable(file) /\ UNCHANGED fileVars
        /\ s_blockDestructiveSave' = (s_blockDestructiveSave \/ FoundNewer(file))
    BY <1>2, SameInvariants, SameSteps DEF Stats!Load
  <2>3. FileTypeOK' /\ RotationInv'
    BY <1>1, <2>2, QuietRotation DEF FileTypeOK, fileVars
  <2> QED
    BY <2>1, <2>2, <2>3, SameInvariants DEF Stats!IInv, Stats!TypeOK, InSave, fileVars
<1>3. CASE Stats!Record
  <2>1. stats \in Nat /\ stats # NoRecord /\ stats' = stats + 1
    BY <1>1, <1>3, ContentsAssumption DEF Stats!TypeOK, Stats!Record
  <2> QED
    BY <1>3, <2>1, SameInvariants, SameSteps DEF Stats!Record, Stats!IInv, Stats!TypeOK, FileTypeOK,
       RotationInv, InSave, fileVars
<1>4. CASE Stats!Save
  <2>1. ~FoundNewer(file) /\ stats \in Nat
    BY <1>4, SameInvariants DEF Stats!Save, Stats!IInv, Stats!TypeOK
  <2>2. Begin(stats, TRUE)
    BY <1>4, SameSteps DEF Stats!Save
  <2>3. RotationInv'
    BY <1>1, <2>1, <2>2, BeginStartsRotation
  <2>4. FileTypeOK'
    BY <1>1, <2>1, <2>2, BeginKeepsTypes
  <2> QED
    BY <1>4, <2>2, <2>3, <2>4, SameInvariants DEF Stats!Save, Begin, Stats!IInv, Stats!TypeOK
<1>5. CASE Stats!ResetLocal
  <2>1. Begin(0, FALSE) /\ stats' = NoRecord /\ s_blockDestructiveSave' \in BOOLEAN
    BY <1>5, SameSteps DEF Stats!ResetLocal, Stats!IInv, Stats!TypeOK
  <2>2. RotationInv'
    BY <1>1, <2>1, BeginStartsRotation
  <2>3. FileTypeOK'
    BY <1>1, <2>1, BeginKeepsTypes
  <2> QED
    BY <2>1, <2>2, <2>3, SameInvariants DEF Stats!IInv, Stats!TypeOK
<1>6. CASE Stats!InSaveToFile
  <2>1. FileTypeOK' /\ RotationInv'
    BY <1>1, <1>6, SaveKeepsTypes, SaveKeepsRotation, SameSteps DEF Stats!InSaveToFile
  <2>2. stats # NoRecord /\ ~s_blockDestructiveSave => ~FoundNewer(file')
    <3>1. InSave /\ (rotating \/ stats = NoRecord)
      BY <1>1, <1>6, SaveKeepsOld, SameInvariants, SameSteps DEF Stats!InSaveToFile, Stats!IInv
    <3>2. rotating => ~FoundNewer(file')
      BY <1>1, <1>6, SaveKeepsOld, SameSteps DEF Stats!InSaveToFile
    <3> QED
      BY <3>1, <3>2
  <2>3. (pc' = "off" \/ ~rotating') => stats = NoRecord
    BY <1>1, <1>6, SaveKeepsOld, SameInvariants, SameSteps DEF Stats!InSaveToFile, Stats!IInv
  <2> QED
    BY <1>6, <2>1, <2>2, <2>3, SameInvariants DEF Stats!InSaveToFile, Stats!IInv, Stats!TypeOK
<1>7. CASE Stats!SaveReturns
  BY <1>7, SameInvariants, SameSteps DEF Stats!SaveReturns, Fails, SaveStep, Stats!IInv, Stats!TypeOK,
     FileTypeOK, RotationInv, InSave
<1>8. CASE Stats!LosePower
  BY <1>8, SameInvariants, SameSteps DEF Stats!LosePower, PowerLoss, Stats!IInv, Stats!TypeOK, FileTypeOK,
     RotationInv, InSave
<1>9. CASE Stats!Outside
  BY <1>9, SameInvariants, SameSteps DEF Stats!Outside, PowerOn, Corrupt, Stats!IInv, Stats!TypeOK,
     FileTypeOK, Contents, RotationInv, InSave
<1>10. CASE UNCHANGED Stats!vars
  <2>1. UNCHANGED <<fileVars, stats, s_blockDestructiveSave>>
    BY <1>10, SameSteps DEF Stats!vars
  <2> QED
    BY <2>1, SameInvariants DEF fileVars, Stats!IInv, Stats!TypeOK, FileTypeOK, RotationInv, InSave
<1> QED
  BY <1>2, <1>3, <1>4, <1>5, <1>6, <1>7, <1>8, <1>9, <1>10 DEF Stats!Next

\* The inductive invariant holds in every state.
THEOREM StatsInvariance == Stats!Spec => []Stats!IInv
BY StatsInitIInv, StatsNextIInv, PTL DEF Stats!Spec

\* Every variable keeps its type.
THEOREM StatsTypeCorrect == Stats!Spec => []Stats!TypeOK
<1>1. Stats!IInv => Stats!TypeOK
  BY DEF Stats!IInv
<1> QED
  BY <1>1, StatsInvariance, PTL

\* A save over a valid file is atomic, wherever the power goes and whichever
\* call fails.
THEOREM StatsSaveAtomic == Stats!Spec => AtomicSave
<1>1. Stats!IInv /\ [Stats!Next]_(Stats!vars) =>
        [InSave /\ rotating /\ intact =>
           \/ Loadable(file') = Loadable(file)
           \/ pc = "publish" /\ Loadable(file') = saving]_fileVars
  <2> SUFFICES ASSUME Stats!IInv, [Stats!Next]_(Stats!vars), InSave, rotating, intact
               PROVE  \/ Loadable(file') = Loadable(file)
                      \/ pc = "publish" /\ Loadable(file') = saving
    OBVIOUS
  <2>1. CASE Stats!InSaveToFile
    BY <2>1, SaveIsAtomic, SameInvariants, SameSteps DEF Stats!InSaveToFile, Stats!IInv, Stats!TypeOK
  <2>2. CASE \/ Stats!Load \/ Stats!Record \/ Stats!Save
             \/ Stats!ResetLocal \/ Stats!SaveReturns \/ Stats!LosePower
    <3>1. file' = file
      BY <2>2, SameSteps DEF Stats!Load, Stats!Record, Stats!Save, Stats!ResetLocal, Begin,
         Stats!SaveReturns, Fails, Stats!LosePower, PowerLoss, fileVars
    <3> QED
      BY <3>1
  <2>3. CASE Stats!Outside
    BY <2>3, SameSteps DEF Stats!Outside, PowerOn, Corrupt, InSave
  <2>4. CASE UNCHANGED Stats!vars
    BY <2>4, SameSteps DEF Stats!vars, fileVars
  <2> QED
    BY <2>1, <2>2, <2>3, <2>4 DEF Stats!Next
<1> QED
  BY <1>1, StatsInvariance, PTL DEF Stats!Spec, AtomicSave

\* Only an explicit reset removes a file of a newer format that load() meets.
THEOREM StatsNewerSafe == Stats!Spec => NewerKept
<1>1. Stats!IInv /\ [Stats!Next]_(Stats!vars) =>
        [FoundNewer(file) => FoundNewer(file') \/ (InSave /\ ~rotating)]_fileVars
  <2> SUFFICES ASSUME Stats!IInv, [Stats!Next]_(Stats!vars), FoundNewer(file), rotating \/ ~InSave
               PROVE  FoundNewer(file')
    OBVIOUS
  <2>1. ~InSave
    BY SameInvariants DEF Stats!IInv, RotationInv
  <2>2. CASE Stats!InSaveToFile
    BY <2>1, <2>2, SaveKeepsOld, SameInvariants, SameSteps DEF Stats!InSaveToFile, Stats!IInv, Stats!TypeOK
  <2>3. CASE \/ Stats!Load \/ Stats!Record \/ Stats!Save
             \/ Stats!ResetLocal \/ Stats!SaveReturns \/ Stats!LosePower
    <3>1. file' = file
      BY <2>3, SameSteps DEF Stats!Load, Stats!Record, Stats!Save, Stats!ResetLocal, Begin,
         Stats!SaveReturns, Fails, Stats!LosePower, PowerLoss, fileVars
    <3> QED
      BY <3>1
  <2>4. CASE Stats!Outside
    <3>1. CASE file' = file
      BY <3>1
    <3>2. CASE Valid(file.path) /\ file' = [file EXCEPT !.path = Torn]
      BY <3>2, ContentsAssumption DEF FoundNewer, Valid
    <3> QED
      BY <2>4, <3>2, SameSteps DEF Stats!Outside, PowerOn, Corrupt
  <2>5. CASE UNCHANGED Stats!vars
    BY <2>5, SameSteps DEF Stats!vars, fileVars
  <2> QED
    BY <2>2, <2>3, <2>4, <2>5 DEF Stats!Next
<1> QED
  BY <1>1, StatsInvariance, PTL DEF Stats!Spec, NewerKept
=============================================================================
