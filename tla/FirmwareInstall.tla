--------------------------- MODULE FirmwareInstall ---------------------------
(***************************************************************************)
(* Installing a firmware image: staging it from a release (OtaUpdater), or *)
(* taking a file of the card that the user picks on the device             *)
(* (SdFirmwareUpdateActivity) or over the network (CrossPointWebServer);   *)
(* checking and flashing it (FirmwareFlasher); and making it the boot      *)
(* target (OtaBootSwitch).  The power may go at any step.                  *)
(***************************************************************************)
EXTENDS Integers

CONSTANTS
  Images,        \* firmware images that pass the image check
  Size,          \* chunks of each
  PartSize,      \* chunks of an app partition
  BlockSize,     \* chunks erased at a time
  MaxSeq,        \* bound: ota_seq
  Bad,           \* any other content: truncated, corrupt, no image
  Absent,        \* no file
  Erased,        \* flash that is erased
  Garbage        \* flash cut while it was erased or written, or written twice

ASSUME SizeAssumption    == Size \in [Images -> Nat \ {0}]
ASSUME FlashAssumption   == PartSize \in Nat \ {0} /\ BlockSize \in Nat \ {0} /\ MaxSeq \in Nat
ASSUME ContentAssumption == {Bad, Absent, Erased, Garbage} \cap Images = {} /\ Bad # Absent /\ Erased # Garbage

VARIABLES
  app,           \* the two app partitions, chunk by chunk
  otadata,       \* the two slots that select the boot target
  running,       \* the partition that runs
  stage,         \* /.crosspoint/ota-update.bin
  picked,        \* the .bin file of the card that the user has picked
  manifest,      \* what checkForUpdate() found
  pc,            \* where the main task is
  via,           \* who installs: "ota", "sd" or "web"
  file,          \* the open image
  streamPos,     \* chunks of it that are flashed
  erasedUpto,    \* chunks of the partition that are erased
  next           \* the slot and the ota_seq that switchTo() writes

cardFiles == <<stage, picked>>
flasher   == <<file, streamPos, erasedUpto>>
vars == <<app, otadata, running, cardFiles, manifest, pc, via, flasher, next>>

Parts    == 0..1
Chunks   == 0..(PartSize - 1)
Cells    == Images \union {Erased, Garbage}
Contents == Images \union {Bad}
Manifests == [image : Images, sha256 : BOOLEAN, size : BOOLEAN, http : BOOLEAN]

\* a chunk of the flash that holds a chunk of image f holds "f"
Whole(cells, f) == Size[f] <= PartSize /\ \A p \in Chunks : p < Size[f] => cells[p] = f

ImageOf(cells) == IF cells[0] \in Images /\ Whole(cells, cells[0]) THEN cells[0] ELSE Garbage

ImageAt(part) == ImageOf(app[part])

-----------------------------------------------------------------------------
(* otadata.                                                                *)

\* "erased": no ota_seq; "torn": the CRC does not match
Entries == [kind : {"entry", "erased", "torn"}, seq : Nat, state : {"new", "valid", "invalid", "aborted"}]

ErasedSlot == [kind |-> "erased", seq |-> 0, state |-> "new"]
TornSlot   == [kind |-> "torn", seq |-> 0, state |-> "new"]
NewSlot(n) == [kind |-> "entry", seq |-> n, state |-> "new"]

Usable(e) == e.kind = "entry" /\ e.state \notin {"invalid", "aborted"}

\* the usable slot with the highest seq
ActiveIdx(slots) ==
  IF Usable(slots[0]) /\ (Usable(slots[1]) => slots[1].seq <= slots[0].seq) THEN 0
  ELSE IF Usable(slots[1]) THEN 1
  ELSE -1

ActiveSeq(slots) == IF ActiveIdx(slots) = -1 THEN 0 ELSE slots[ActiveIdx(slots)].seq

\* the partition that the bootloader starts
Selected(slots) == IF ActiveIdx(slots) = -1 THEN 0 ELSE (ActiveSeq(slots) - 1) % 2

\* Mutant: the next seq, whichever partition it selects.
SeqPlusOne(active, part) == active + 1

\* the smallest seq above the active one that selects the partition
NewSeq(active, part) == IF active % 2 = part THEN active + 1 ELSE active + 2

\* the OTHER slot
TargetSlot(slots) == IF ActiveIdx(slots) = 0 THEN 1 ELSE 0

\* esp_ota_get_next_update_partition()
dest == 1 - running

-----------------------------------------------------------------------------
(* Ends of an installation.                                                *)

\* removes the staged file on every return of installUpdate(), if it can
StagedCleanup ==
  \/ via = "ota" /\ stage' = Absent
  \/ UNCHANGED stage

\* the local variables of the installation go out of scope
Return ==
  /\ via' = "none" /\ manifest' = Absent
  /\ picked' = Absent
  /\ file' = Absent /\ streamPos' = 0 /\ erasedUpto' = 0
  /\ next' = Absent

\* a read, an erase, a write or a check at this step has failed
Fail(step) ==
  /\ pc = step
  /\ pc' = "idle"
  /\ StagedCleanup
  /\ Return
  /\ UNCHANGED running

\* the chunks lo..hi of the partition being flashed, cut in an erase or a write
Cut(lo, hi) == app' = [app EXCEPT ![dest] = [p \in Chunks |-> IF p \in lo..hi THEN Garbage ELSE @[p]]]

\* end of the block that starts at the stream position
BlockEnd == IF streamPos + BlockSize < PartSize THEN streamPos + BlockSize ELSE PartSize

\* what an erase or a write leaves behind that did not finish
FlashCut ==
  \/ UNCHANGED app
  \/ /\ pc = "flash"
     /\ streamPos < Size[file]
     /\ Cut(streamPos, IF streamPos < erasedUpto THEN streamPos ELSE BlockEnd - 1)

SlotCut ==
  \/ UNCHANGED otadata
  \/ pc \in {"switch", "switching"} /\ otadata' = [otadata EXCEPT ![next.slot] = TornSlot]

\* an installation may begin; the bound leaves room for its ota_seq
Ready == pc = "idle" /\ ActiveSeq(otadata) + 2 <= MaxSeq

-----------------------------------------------------------------------------
(* OtaUpdater::installUpdate().                                            *)

\* m is what checkForUpdate() found; a leftover is removed, or nothing happens
InstallUpdate(m) ==
  /\ Ready
  /\ m.http => m.sha256
  /\ Size[m.image] <= PartSize \/ ~m.size
  /\ pc' = "download"
  /\ via' = "ota"
  /\ manifest' = m
  /\ stage' = Absent
  /\ UNCHANGED <<app, otadata, running, picked, flasher, next>>

\* some of it, or all: whatever the server sends
Download(content, step) ==
  /\ pc = "download"
  /\ step \in {"download", "check"}
  /\ step = "download" => content = Bad /\ stage # Bad
  /\ stage' = content
  /\ pc' = step
  /\ UNCHANGED <<app, otadata, running, picked, manifest, via, flasher, next>>

\* sizes, and the SHA-256 when the manifest has one
StagedAsPromised(m, content) ==
  /\ content \in Images => Size[content] <= PartSize
  /\ content \in Images /\ m.size => Size[content] = Size[m.image]
  /\ m.sha256 => content = m.image

VerifyStaged ==
  /\ pc = "check"
  /\ StagedAsPromised(manifest, stage)
  /\ pc' = "validate"
  /\ UNCHANGED <<app, otadata, running, cardFiles, manifest, via, flasher, next>>

-----------------------------------------------------------------------------
(* The two other ways in.                                                  *)

\* validateImageFile()
Valid(content) == content \in Images /\ Size[content] <= PartSize

\* the picked file is checked before the user is asked
PickFile(content) ==
  /\ Ready
  /\ Valid(content)
  /\ picked' = content
  /\ pc' = "confirm"
  /\ via' = "sd"
  /\ UNCHANGED <<app, otadata, running, stage, manifest, flasher, next>>

Confirm ==
  /\ pc = "confirm"
  /\ pc' = "validate"
  /\ UNCHANGED <<app, otadata, running, cardFiles, manifest, via, flasher, next>>

HandleFirmwareInstall(content) ==
  /\ Ready
  /\ picked' = content
  /\ pc' = "validate"
  /\ via' = "web"
  /\ UNCHANGED <<app, otadata, running, stage, manifest, flasher, next>>

\* another card, while the user is asked
ReplaceFile(content) ==
  /\ pc = "confirm"
  /\ picked' = content
  /\ UNCHANGED <<app, otadata, running, stage, manifest, pc, via, flasher, next>>

-----------------------------------------------------------------------------
(* flashFromSdPath() and switchTo().                                       *)

source == IF via = "ota" THEN stage ELSE picked

\* the check, and the file opened again
ValidateAndOpen ==
  /\ pc = "validate"
  /\ Valid(source)
  /\ pc' = "flash"
  /\ file' = source
  /\ UNCHANGED <<app, otadata, running, cardFiles, manifest, via, streamPos, erasedUpto, next>>

\* Mutant: the erased length is not kept.
EraseForgotten ==
  /\ pc = "flash"
  /\ streamPos < Size[file]
  /\ streamPos >= erasedUpto
  /\ app' = [app EXCEPT ![dest] = [p \in Chunks |-> IF p \in streamPos..(BlockEnd - 1) THEN Erased ELSE @[p]]]
  /\ UNCHANGED <<otadata, running, cardFiles, manifest, pc, via, flasher, next>>

EraseBlock ==
  /\ pc = "flash"
  /\ streamPos < Size[file]
  /\ streamPos >= erasedUpto
  /\ app' = [app EXCEPT ![dest] = [p \in Chunks |-> IF p \in streamPos..(BlockEnd - 1) THEN Erased ELSE @[p]]]
  /\ erasedUpto' = BlockEnd
  /\ UNCHANGED <<otadata, running, cardFiles, manifest, pc, via, file, streamPos, next>>

\* Mutant: the running partition is written.
WriteRunning ==
  /\ pc = "flash"
  /\ streamPos < Size[file]
  /\ streamPos < erasedUpto
  /\ app' = [app EXCEPT ![running][streamPos] = file]
  /\ streamPos' = streamPos + 1
  /\ UNCHANGED <<otadata, running, cardFiles, manifest, pc, via, file, erasedUpto, next>>

\* flash that is not erased cannot take the chunk
WriteChunk ==
  /\ pc = "flash"
  /\ streamPos < Size[file]
  /\ streamPos < erasedUpto
  /\ app' = [app EXCEPT ![dest][streamPos] = IF @ = Erased THEN file ELSE Garbage]
  /\ streamPos' = streamPos + 1
  /\ UNCHANGED <<otadata, running, cardFiles, manifest, pc, via, file, erasedUpto, next>>

\* Mutant: the boot target is switched while the last chunk is still to come.
SwitchEarly ==
  /\ pc = "flash"
  /\ streamPos >= Size[file] - 1
  /\ next' = [slot |-> TargetSlot(otadata), seq |-> NewSeq(ActiveSeq(otadata), dest)]
  /\ pc' = "switch"
  /\ UNCHANGED <<app, otadata, running, cardFiles, manifest, via, flasher>>

\* the file is flashed: switchTo() reads otadata
SwitchTo ==
  /\ pc = "flash"
  /\ streamPos = Size[file]
  /\ next' = [slot |-> TargetSlot(otadata), seq |-> NewSeq(ActiveSeq(otadata), dest)]
  /\ pc' = "switch"
  /\ UNCHANGED <<app, otadata, running, cardFiles, manifest, via, flasher>>

EraseSlot ==
  /\ pc = "switch"
  /\ otadata' = [otadata EXCEPT ![next.slot] = ErasedSlot]
  /\ pc' = "switching"
  /\ UNCHANGED <<app, running, cardFiles, manifest, via, flasher, next>>

WriteSlot ==
  /\ pc = "switching"
  /\ otadata' = [otadata EXCEPT ![next.slot] = NewSlot(next.seq)]
  /\ pc' = "done"
  /\ StagedCleanup
  /\ UNCHANGED <<app, running, picked, manifest, via, flasher, next>>

\* every step of the installation but the first may fail
Abandon ==
  /\ \E step \in {"download", "check", "confirm", "validate", "flash", "switch", "switching"} : Fail(step)
  /\ FlashCut
  /\ SlotCut

-----------------------------------------------------------------------------

Boot ==
  /\ running' = Selected(otadata)
  /\ pc' = "idle"
  /\ Return
  /\ UNCHANGED <<app, otadata, stage>>

\* every caller restarts after a success
Restart == pc = "done" /\ Boot

PowerLoss ==
  /\ pc # "off"
  /\ pc' = "off"
  /\ FlashCut
  /\ SlotCut
  /\ Return
  /\ UNCHANGED <<running, stage>>

PowerOn == pc = "off" /\ Boot

\* the image that runs was selected; the other partition holds anything
Init ==
  /\ running \in Parts
  /\ app \in [Parts -> {[p \in Chunks |-> cell] : cell \in Cells}]
  /\ ImageAt(running) \in Images
  /\ otadata \in [Parts -> {ErasedSlot, TornSlot, NewSlot(1), NewSlot(2), [NewSlot(2) EXCEPT !.state = "aborted"]}]
  /\ Selected(otadata) = running
  /\ stage \in {Absent, Bad}
  /\ picked = Absent
  /\ manifest = Absent
  /\ pc = "idle" /\ via = "none"
  /\ file = Absent /\ streamPos = 0 /\ erasedUpto = 0
  /\ next = Absent

\* what the installer does next, failures aside
Advance ==
  \/ VerifyStaged \/ ValidateAndOpen
  \/ EraseBlock \/ WriteChunk \/ SwitchTo \/ EraseSlot \/ WriteSlot
  \/ Restart

Next ==
  \/ \E m \in Manifests : InstallUpdate(m)
  \/ \E content \in Contents : PickFile(content) \/ HandleFirmwareInstall(content)
  \/ \E content \in Contents \union {Absent} : ReplaceFile(content)
  \/ Confirm
  \/ \E content \in Contents, step \in {"download", "check"} : Download(content, step)
  \/ Advance \/ Abandon \/ PowerLoss \/ PowerOn

Spec == Init /\ [][Next]_vars

\* the main task runs an installation to its end
LiveSpec == Spec /\ WF_vars(Advance)

-----------------------------------------------------------------------------

\* The type of every variable of the model.
TypeOK ==
  /\ app \in [Parts -> [Chunks -> Cells]]
  /\ otadata \in [Parts -> Entries]
  /\ running \in Parts
  /\ stage \in Contents \union {Absent}
  /\ picked \in Contents \union {Absent}
  /\ manifest \in Manifests \union {Absent}
  /\ pc \in {"idle", "download", "check", "confirm", "validate", "flash", "switch", "switching", "done", "off"}
  /\ via \in {"none", "ota", "sd", "web"}
  /\ file \in Images \union {Absent}
  /\ streamPos \in 0..PartSize
  /\ erasedUpto \in 0..PartSize
  /\ next \in [slot : Parts, seq : Nat \ {0}] \union {Absent}

\* the boot target is whole, and is what runs until switchTo() has succeeded
TargetInv ==
  /\ ImageAt(Selected(otadata)) \in Images
  /\ ImageAt(running) \in Images
  /\ pc \notin {"done", "off"} => Selected(otadata) = running

\* progress of the flash loop and of switchTo()
FlashInv ==
  /\ pc \notin {"flash", "switch", "switching", "done"} => streamPos = 0 /\ erasedUpto = 0
  /\ pc \in {"flash", "switch", "switching"} =>
       /\ Valid(file)
       /\ streamPos <= Size[file]
       /\ \A p \in Chunks : p < streamPos => app[dest][p] = file
       /\ \A p \in Chunks : streamPos <= p /\ p < erasedUpto => app[dest][p] = Erased
  /\ pc \in {"switch", "switching"} =>
       /\ streamPos = Size[file]
       /\ next \in [slot : Parts, seq : Nat \ {0}]
       /\ next.slot # ActiveIdx(otadata)
       /\ next.seq > ActiveSeq(otadata) /\ (next.seq - 1) % 2 = dest
  /\ pc = "done" => ImageAt(Selected(otadata)) = file

\* what an update has been promised, from the request to the flash
SourceInv ==
  /\ pc = "confirm" => via = "sd"
  /\ pc \in {"download", "check", "validate", "flash", "switch", "switching", "done"} /\ via = "ota" =>
       /\ manifest \in Manifests
       /\ manifest.http => manifest.sha256
       /\ manifest.sha256 /\ pc = "validate" => stage = manifest.image
       /\ manifest.sha256 /\ pc \in {"flash", "switch", "switching", "done"} => file = manifest.image

\* What an installation relies on at every step.
IInv == TypeOK /\ TargetInv /\ FlashInv /\ SourceInv

\* When the installer reports success, the next boot starts the image it was
\* given; for an update this is the image of the release whenever the manifest
\* has its digest, and it never came over plain HTTP without one
\* (docs/ota-staging-validation.md, "Plain HTTP is accepted only with a valid
\* manifest digest").
InstalledAsPromised ==
  pc = "done" =>
    /\ ImageAt(Selected(otadata)) = file
    /\ via = "ota" => IF manifest.sha256 THEN file = manifest.image ELSE ~manifest.http

\* The partition that runs is never erased or written.
RunningIntact == [][app'[running] = app[running]]_vars

BT == INSTANCE BootTarget WITH runs <- ImageAt(running), boots <- ImageAt(Selected(otadata))

\* Whatever fails and wherever the power goes, the boot target goes from one
\* complete image to another in one step: "a truncated/corrupted .bin can never
\* become the next boot target" (FirmwareFlasher.cpp, flashFromSdPath()).
Implements == BT!Spec

\* "Once flashing starts, finish it": it ends with a restart or with an error,
\* unless the power goes (OtaUpdater.cpp, installUpdate()).
InstallEnds == pc = "flash" ~> pc \in {"idle", "off"}

=============================================================================
