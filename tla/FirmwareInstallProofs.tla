------------------------ MODULE FirmwareInstallProofs ------------------------
(***************************************************************************)
(* FirmwareInstall for every set of images and every size of the flash:    *)
(* its invariant, and that it implements BootTarget.                       *)
(***************************************************************************)
EXTENDS FirmwareInstall, TLAPS

USE SizeAssumption, FlashAssumption, ContentAssumption DEF Parts

(* otadata: a slot other than the active one can be lost.                  *)
LEMMA LostSlot ==
  ASSUME NEW slots \in [Parts -> Entries], NEW slot \in Parts, slot # ActiveIdx(slots),
         NEW e \in {ErasedSlot, TornSlot}
  PROVE  LET lost == [slots EXCEPT ![slot] = e] IN
           /\ lost \in [Parts -> Entries]
           /\ ActiveIdx(lost) = ActiveIdx(slots)
           /\ ActiveSeq(lost) = ActiveSeq(slots)
           /\ Selected(lost) = Selected(slots)
<1>1. e \in Entries /\ ~Usable(e)
  BY DEF Entries, ErasedSlot, TornSlot, Usable
<1>2. ActiveIdx([slots EXCEPT ![slot] = e]) = ActiveIdx(slots)
  BY <1>1 DEF ActiveIdx, Entries
<1>3. ActiveSeq([slots EXCEPT ![slot] = e]) = ActiveSeq(slots)
  BY <1>2 DEF ActiveSeq, ActiveIdx
<1>. QED  BY <1>1, <1>2, <1>3 DEF Selected

(* The slot with the highest seq becomes the active one.                   *)
LEMMA NewerSlot ==
  ASSUME NEW slots \in [Parts -> Entries], NEW slot \in Parts, slot # ActiveIdx(slots),
         NEW n \in Nat, n > ActiveSeq(slots)
  PROVE  LET newer == [slots EXCEPT ![slot] = NewSlot(n)] IN
           /\ newer \in [Parts -> Entries]
           /\ Selected(newer) = (n - 1) % 2
<1>1. NewSlot(n) \in Entries /\ Usable(NewSlot(n)) /\ NewSlot(n).seq = n
  BY DEF Entries, NewSlot, Usable
<1>2. ActiveIdx([slots EXCEPT ![slot] = NewSlot(n)]) = slot
  BY <1>1 DEF ActiveIdx, ActiveSeq, Entries
<1>. QED  BY <1>1, <1>2 DEF Selected, ActiveSeq

(* The active slot, its number and the partition that it selects.          *)
LEMMA ActiveType ==
  ASSUME NEW slots \in [Parts -> Entries]
  PROVE  /\ ActiveSeq(slots) \in Nat
         /\ Selected(slots) \in Parts
         /\ TargetSlot(slots) \in Parts
         /\ TargetSlot(slots) # ActiveIdx(slots)
<1>1. ActiveIdx(slots) \in {-1, 0, 1}
  BY DEF ActiveIdx
<1>2. ActiveSeq(slots) \in Nat
  BY <1>1 DEF ActiveSeq, Entries
<1>3. Selected(slots) \in Parts
  BY <1>2 DEF Selected
<1>. QED  BY <1>1, <1>2, <1>3 DEF TargetSlot

(* The new number is above the active one and selects the partition.       *)
LEMMA NewSeqSelects ==
  ASSUME NEW a \in Nat, NEW part \in Parts
  PROVE  NewSeq(a, part) \in Nat \ {0} /\ NewSeq(a, part) > a /\ (NewSeq(a, part) - 1) % 2 = part
BY DEF NewSeq

\* The device as it was before any installation satisfies the invariant.
LEMMA InitIInv == Init => IInv
<1>. SUFFICES ASSUME Init PROVE IInv
  OBVIOUS
<1>1. otadata \in [Parts -> Entries]
  BY DEF Init, Entries, ErasedSlot, TornSlot, NewSlot
<1>2. app \in [Parts -> [Chunks -> Cells]]
  BY DEF Init
<1>3. TypeOK
  BY <1>1, <1>2 DEF Init, TypeOK, Contents
<1>. QED  BY <1>3 DEF Init, IInv, TargetInv, FlashInv, SourceInv

(* A step of the installer that has failed, or that the power cut, damages *)
(* neither the running partition nor the boot target.                      *)
LEMMA CutSafe ==
  ASSUME IInv, FlashCut, SlotCut, pc # "off"
  PROVE  /\ app' \in [Parts -> [Chunks -> Cells]]
         /\ otadata' \in [Parts -> Entries]
         /\ app'[running] = app[running]
         /\ Selected(otadata') = Selected(otadata)
         /\ pc = "done" => app' = app
<1>1. /\ app' \in [Parts -> [Chunks -> Cells]]
      /\ app'[running] = app[running]
      /\ pc = "done" => app' = app
  BY DEF IInv, TypeOK, FlashCut, Cut, dest, Cells
<1>2. otadata' \in [Parts -> Entries] /\ Selected(otadata') = Selected(otadata)
  <2>1. CASE UNCHANGED otadata
    BY <2>1 DEF IInv, TypeOK
  <2>2. CASE pc \in {"switch", "switching"} /\ otadata' = [otadata EXCEPT ![next.slot] = TornSlot]
    BY <2>2, LostSlot DEF IInv, TypeOK, FlashInv
  <2>. QED  BY <2>1, <2>2 DEF SlotCut
<1>. QED  BY <1>1, <1>2

\* Every step of an installation, failed and cut ones included, keeps the invariant.
LEMMA NextIInv == IInv /\ [Next]_vars => IInv'
<1>. SUFFICES ASSUME IInv, [Next]_vars PROVE IInv'
  OBVIOUS
<1>. USE DEF IInv, TypeOK
<1>1. CASE UNCHANGED vars
  BY <1>1 DEF vars, cardFiles, flasher, TargetInv, FlashInv, SourceInv, ImageAt, ImageOf, Whole, Valid, dest
<1>2. ASSUME NEW m \in Manifests, InstallUpdate(m) PROVE IInv'
  BY <1>2 DEF InstallUpdate, Ready, flasher, TargetInv, FlashInv, SourceInv, ImageAt, Contents
<1>3. ASSUME NEW content \in Contents, NEW step \in {"download", "check"}, Download(content, step)
      PROVE  IInv'
  BY <1>3 DEF Download, flasher, TargetInv, FlashInv, SourceInv, ImageAt, Contents
<1>4. ASSUME NEW content \in Contents, PickFile(content) PROVE IInv'
  BY <1>4 DEF PickFile, Ready, flasher, TargetInv, FlashInv, SourceInv, ImageAt, Contents
<1>5. ASSUME NEW content \in Contents, HandleFirmwareInstall(content) PROVE IInv'
  BY <1>5 DEF HandleFirmwareInstall, Ready, flasher, TargetInv, FlashInv, SourceInv, ImageAt, Contents
<1>6. ASSUME NEW content \in Contents \union {Absent}, ReplaceFile(content) PROVE IInv'
  BY <1>6 DEF ReplaceFile, flasher, TargetInv, FlashInv, SourceInv, ImageAt, Contents
<1>7. CASE Confirm
  BY <1>7 DEF Confirm, cardFiles, flasher, TargetInv, FlashInv, SourceInv, ImageAt
<1>8. CASE VerifyStaged
  BY <1>8 DEF VerifyStaged, StagedAsPromised, cardFiles, flasher, TargetInv, FlashInv, SourceInv, ImageAt
<1>9. CASE ValidateAndOpen
  <2>1. file' \in Images /\ Valid(file')
    BY <1>9 DEF ValidateAndOpen, Valid
  <2>. QED  BY <1>9, <2>1 DEF ValidateAndOpen, source, Valid, cardFiles, TargetInv, FlashInv, SourceInv, ImageAt, Chunks
<1>10. CASE EraseBlock
  <2>1. BlockEnd \in 0..PartSize /\ BlockEnd > streamPos
    BY <1>10 DEF EraseBlock, BlockEnd, FlashInv, Valid
  <2>2. app' \in [Parts -> [Chunks -> Cells]] /\ app'[running] = app[running]
    BY <1>10, <2>1 DEF EraseBlock, dest, Cells
  <2>3. /\ \A p \in Chunks : p < streamPos => app'[dest][p] = file
        /\ \A p \in Chunks : streamPos <= p /\ p < erasedUpto' => app'[dest][p] = Erased
    BY <1>10, <2>1 DEF EraseBlock, FlashInv, dest, Chunks
  <2>4. TypeOK'
    BY <1>10, <2>1, <2>2 DEF EraseBlock, cardFiles
  <2>5. TargetInv' /\ SourceInv'
    BY <1>10, <2>2 DEF EraseBlock, cardFiles, TargetInv, SourceInv, ImageAt
  <2>6. FlashInv'
    BY <1>10, <2>3 DEF EraseBlock, FlashInv, dest, Valid
  <2>. QED  BY <2>4, <2>5, <2>6
<1>11. CASE WriteChunk
  <2>1. streamPos \in Chunks /\ file \in Images /\ app[dest][streamPos] = Erased
    BY <1>11 DEF WriteChunk, FlashInv, Valid, Chunks
  <2>2. app' = [app EXCEPT ![dest][streamPos] = file]
    BY <1>11, <2>1 DEF WriteChunk
  <2>3. app' \in [Parts -> [Chunks -> Cells]] /\ app'[running] = app[running]
    BY <2>1, <2>2 DEF dest, Cells
  <2>4. /\ \A p \in Chunks : p < streamPos' => app'[dest][p] = file
        /\ \A p \in Chunks : streamPos' <= p /\ p < erasedUpto => app'[dest][p] = Erased
    BY <1>11, <2>1, <2>2 DEF WriteChunk, FlashInv, dest, Chunks
  <2>5. TypeOK'
    BY <1>11, <2>1, <2>3 DEF WriteChunk, cardFiles, Chunks
  <2>6. TargetInv' /\ SourceInv'
    BY <1>11, <2>3 DEF WriteChunk, cardFiles, TargetInv, SourceInv, ImageAt
  <2>7. FlashInv'
    BY <1>11, <2>4 DEF WriteChunk, FlashInv, dest, Valid
  <2>. QED  BY <2>5, <2>6, <2>7
<1>12. CASE SwitchTo
  <2>1. /\ ActiveSeq(otadata) \in Nat /\ dest \in Parts
        /\ TargetSlot(otadata) \in Parts /\ TargetSlot(otadata) # ActiveIdx(otadata)
    BY ActiveType DEF dest
  <2>2. /\ NewSeq(ActiveSeq(otadata), dest) \in Nat \ {0}
        /\ NewSeq(ActiveSeq(otadata), dest) > ActiveSeq(otadata)
        /\ (NewSeq(ActiveSeq(otadata), dest) - 1) % 2 = dest
    BY <2>1, NewSeqSelects
  <2>3. next' = [slot |-> TargetSlot(otadata), seq |-> NewSeq(ActiveSeq(otadata), dest)]
    BY <1>12 DEF SwitchTo
  <2>4. next' \in [slot : Parts, seq : Nat \ {0}]
    BY <2>1, <2>2, <2>3
  <2>5. next'.slot # ActiveIdx(otadata) /\ next'.seq > ActiveSeq(otadata) /\ (next'.seq - 1) % 2 = dest
    BY <2>1, <2>2, <2>3
  <2>. QED  BY <1>12, <2>4, <2>5 DEF SwitchTo, cardFiles, flasher, TargetInv, FlashInv, SourceInv, ImageAt, dest, Valid
<1>13. CASE EraseSlot
  <2>1. /\ otadata' \in [Parts -> Entries]
        /\ ActiveIdx(otadata') = ActiveIdx(otadata)
        /\ ActiveSeq(otadata') = ActiveSeq(otadata)
        /\ Selected(otadata') = Selected(otadata)
    BY <1>13, LostSlot DEF EraseSlot, FlashInv
  <2>. QED  BY <1>13, <2>1 DEF EraseSlot, cardFiles, flasher, TargetInv, FlashInv, SourceInv, ImageAt, dest, Valid
<1>14. CASE WriteSlot
  <2>1. /\ next.slot \in Parts /\ next.slot # ActiveIdx(otadata)
        /\ next.seq \in Nat /\ next.seq > ActiveSeq(otadata) /\ (next.seq - 1) % 2 = dest
    BY <1>14 DEF WriteSlot, FlashInv
  <2>2. otadata' \in [Parts -> Entries] /\ Selected(otadata') = dest
    BY <1>14, <2>1, NewerSlot DEF WriteSlot
  <2>3. ImageOf(app[dest]) = file /\ file \in Images
    BY <1>14 DEF WriteSlot, FlashInv, ImageOf, Whole, Valid, Chunks
  <2>4. ImageAt(dest)' = file /\ ImageAt(running)' = ImageAt(running) /\ dest' = dest
    BY <1>14, <2>3 DEF WriteSlot, ImageAt, dest
  <2>. QED  BY <1>14, <2>2, <2>3, <2>4 DEF WriteSlot, StagedCleanup, flasher, TargetInv, FlashInv, SourceInv, ImageAt, Contents
<1>15. CASE Abandon
  <2>1. /\ app' \in [Parts -> [Chunks -> Cells]]
        /\ otadata' \in [Parts -> Entries]
        /\ app'[running] = app[running]
        /\ Selected(otadata') = Selected(otadata)
    BY <1>15, CutSafe DEF Abandon, Fail
  <2>. QED  BY <1>15, <2>1 DEF Abandon, Fail, Return, StagedCleanup, TargetInv, FlashInv, SourceInv, ImageAt, Contents
<1>16. CASE Restart \/ PowerOn
  <2>1. Selected(otadata) \in Parts
    BY ActiveType
  <2>. QED  BY <1>16, <2>1 DEF Restart, PowerOn, Boot, Return, TargetInv, FlashInv, SourceInv, ImageAt, Contents
<1>17. CASE PowerLoss
  <2>1. /\ app' \in [Parts -> [Chunks -> Cells]]
        /\ otadata' \in [Parts -> Entries]
        /\ app'[running] = app[running]
        /\ Selected(otadata') = Selected(otadata)
        /\ pc = "done" => app' = app
    BY <1>17, CutSafe DEF PowerLoss
  <2>. QED  BY <1>17, <2>1 DEF PowerLoss, Return, TargetInv, FlashInv, SourceInv, ImageAt, Contents
<1>. QED
  BY <1>1, <1>2, <1>3, <1>4, <1>5, <1>6, <1>7, <1>8, <1>9, <1>10, <1>11, <1>12, <1>13, <1>14, <1>15, <1>16, <1>17
  DEF Next, Advance

(* The invariant holds at every step of every installation.                *)
THEOREM InstallInvariant == Spec => []IInv
<1>. QED  BY InitIInv, NextIInv, PTL DEF Spec

(* An installation that reports success has made the image it was given    *)
(* the next to boot: the image of the release, if its digest is known.     *)
THEOREM InstallationKeepsPromise == Spec => []InstalledAsPromised
<1>1. IInv => InstalledAsPromised
  BY DEF IInv, FlashInv, SourceInv, InstalledAsPromised
<1>. QED  BY <1>1, InstallInvariant, PTL

(* No step of an installation writes the partition that runs, and none     *)
(* runs another partition but a boot.                                      *)
LEMMA StepKeepsRunning == IInv /\ [Next]_vars => app'[running] = app[running]
<1>. SUFFICES ASSUME IInv, [Next]_vars PROVE app'[running] = app[running]
  OBVIOUS
<1>1. CASE EraseBlock
  BY <1>1 DEF EraseBlock, IInv, TypeOK, dest
<1>2. CASE WriteChunk
  BY <1>2 DEF WriteChunk, IInv, TypeOK, dest
<1>3. CASE Abandon
  BY <1>3, CutSafe DEF Abandon, Fail
<1>4. CASE PowerLoss
  BY <1>4, CutSafe DEF PowerLoss
<1>5. CASE UNCHANGED app
  BY <1>5
<1>6. EraseBlock \/ WriteChunk \/ Abandon \/ PowerLoss \/ UNCHANGED app
  BY DEF Next, vars, Advance, InstallUpdate, PickFile, HandleFirmwareInstall, ReplaceFile, Confirm, Download,
         VerifyStaged, ValidateAndOpen, SwitchTo, EraseSlot, WriteSlot, Restart, PowerOn, Boot
<1>. QED  BY <1>1, <1>2, <1>3, <1>4, <1>5, <1>6

\* No step erases or writes the partition that runs: the flash loop writes the
\* other one (flashFromSdPath(), esp_ota_get_next_update_partition()).
THEOREM RunningFirmwareIntact == Spec => RunningIntact
<1>1. IInv /\ [Next]_vars => [app'[running] = app[running]]_vars
  BY StepKeepsRunning
<1>. QED  BY <1>1, InstallInvariant, PTL DEF Spec, RunningIntact

(* Every step is, for the boot target, an installation, a boot or nothing. *)
LEMMA StepRefines == IInv /\ IInv' /\ [Next]_vars => [BT!Next]_(BT!vars)
<1>. SUFFICES ASSUME IInv, IInv', [Next]_vars PROVE [BT!Next]_(BT!vars)
  OBVIOUS
<1>. USE DEF BT!Next, BT!vars, BT!Install, BT!Boot
<1>1. app'[running] = app[running]
  BY StepKeepsRunning
<1>2. CASE WriteSlot
  <2>1. ImageAt(running)' = ImageAt(running) /\ ImageAt(Selected(otadata)) = ImageAt(running)
    BY <1>1, <1>2 DEF WriteSlot, IInv, TargetInv, ImageAt
  <2>2. ImageAt(Selected(otadata))' \in Images
    BY DEF IInv, TargetInv
  <2>. QED  BY <2>1, <2>2
<1>3. CASE Restart \/ PowerOn
  BY <1>3 DEF Restart, PowerOn, Boot, ImageAt
<1>4. CASE EraseBlock \/ WriteChunk \/ Abandon \/ PowerLoss \/ EraseSlot
  <2>1. running' = running
    BY <1>4 DEF EraseBlock, WriteChunk, Abandon, Fail, PowerLoss, EraseSlot
  <2>2. ImageAt(running)' = ImageAt(running)
    BY <1>1, <2>1 DEF ImageAt
  <2>3. CASE pc = "done"
    <3>1. PowerLoss
      BY <1>4, <2>3 DEF EraseBlock, WriteChunk, Abandon, Fail, EraseSlot
    <3>2. app' = app /\ otadata' = otadata
      BY <2>3, <3>1 DEF PowerLoss, FlashCut, SlotCut
    <3>. QED  BY <2>2, <3>2 DEF ImageAt
  <2>4. CASE pc = "off"
    BY <1>4, <2>4 DEF EraseBlock, WriteChunk, Abandon, Fail, PowerLoss, EraseSlot
  <2>5. CASE pc \notin {"done", "off"}
    <3>1. Selected(otadata) = running
      BY <2>5 DEF IInv, TargetInv
    <3>2. Selected(otadata') = Selected(otadata)
      <4>1. CASE EraseBlock \/ WriteChunk
        BY <4>1 DEF EraseBlock, WriteChunk
      <4>2. CASE EraseSlot
        BY <4>2, LostSlot DEF EraseSlot, IInv, TypeOK, FlashInv
      <4>3. CASE Abandon \/ PowerLoss
        BY <4>3, CutSafe DEF Abandon, Fail, PowerLoss
      <4>. QED  BY <1>4, <4>1, <4>2, <4>3
    <3>. QED  BY <2>2, <3>1, <3>2, <2>1 DEF ImageAt
  <2>. QED  BY <2>3, <2>4, <2>5
<1>5. CASE UNCHANGED <<app, otadata, running>>
  BY <1>5 DEF ImageAt
<1>6. \/ WriteSlot \/ Restart \/ PowerOn
      \/ EraseBlock \/ WriteChunk \/ Abandon \/ PowerLoss \/ EraseSlot
      \/ UNCHANGED <<app, otadata, running>>
  BY DEF Next, vars, Advance, InstallUpdate, PickFile, HandleFirmwareInstall, ReplaceFile, Confirm, Download,
         VerifyStaged, ValidateAndOpen, SwitchTo
<1>. QED  BY <1>2, <1>3, <1>4, <1>5, <1>6

(* The boot target goes from one complete image to the next in one step.   *)
THEOREM InstallImplementsBootTarget == Spec => Implements
<1>1. Init => BT!Init
  BY InitIInv DEF Init, IInv, TargetInv, BT!Init, ImageAt
<1>. QED  BY <1>1, InstallInvariant, StepRefines, PTL DEF Spec, Implements, BT!Spec

=============================================================================
