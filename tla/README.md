# A TLA+ verification of YACP

YACP is the firmware of small e-ink readers (Xteink X3 and X4, ESP32-C3 with one
core and about 380 KB of RAM). It is C++ on FreeRTOS, keeps all its state on an SD
card under `/.crosspoint`, and may lose its power at any time. This directory holds
TLA+ models of the parts of it where order, failure and interruption matter, the TLC
runs that check them, and TLAPS proofs of the properties that matter most.

`PROJECT.json` is the index: components, runs, mutants, the map from definitions to
source lines, findings, hazards and theorems. Paths below are relative to `src/src/`
unless they start with `lib/` or `docs/`.

Run one configuration with `tlc -config Render.cfg MCRenderHandshake.tla`, and
one proof module with `tlapm RenderHandshakeProofs.tla`.

## 1. Inventory

### 1.1 Parts that are modelled

**Render task and render requests** (`activities/ActivityManager.{h,cpp}`,
`activities/RenderLock.h`).
*State*: the rendering mutex, the notification value of each task,
`waitingTaskHandle`, the deferred flag `requestedUpdate`, the generations
`requestedRenderGeneration` and `completedRenderGeneration`, `renderInProgress`.
*Operations*: `requestUpdate(immediate)`, `requestUpdateAndWait()`,
`renderTaskLoop()`, the drain at the end of `loop()`,
`canEnterReaderIdlePowerSaving()`.
*Interaction*: the main task writes what activities show, under `RenderLock`; the
render task reads it under the same lock. *Hard*: two tasks of the same priority
switch between any two accesses; wake-ups are direct-to-task notifications that are
cleared when taken. *Correct when* no request is lost, no waiting task sleeps for
ever, an image shown is never torn, and the idle test answers yes only when
everything is on the panel.

**Navigation** (the same files, `activities/Activity.{h,cpp}`, `main.cpp`).
*State*: `currentActivity`, `stackActivities`, `pendingActivity`/`pendingAction`, a
result handler per activity, the pending alert. *Operations*: push, pop, replace,
`finish()`, `startActivityForResult()`, `goToSleep()`, `loop()`, `setup()` with its
three ways to resume. *Interaction*: callbacks (`onEnter`, `loop`, result handlers)
call back into the manager; the render task dereferences `currentActivity`. *Hard*:
re-entrancy, ownership by `unique_ptr` in three places, a lock dropped and retaken
within one navigation. *Correct when* nothing is leaked, owned twice or drawn after its
destruction, handlers hear only from the child they started, and every navigation
asked for is carried out.

**Rotated files; global statistics; daily history**
(`activities/reader/GlobalReadingStats.*`, `DailyReadingHistory.*`).
*State*: a primary file, a `.bak`, a `.tmp`; the copy an activity holds; a dirty flag;
a flag that blocks saving over a file of newer firmware. *Operations*: `load`,
`save`, `resetLocal`/`reset`, `addMinutes`. *Hard*: about ten card calls per save, any
of which may fail, power loss between any two, roll-back that fails itself. *Correct
when* a load after any interruption finds the old record or the new one, and a file of a
newer format, as far as `load()` recognises it, is never overwritten.

**Reading session** (`EpubReaderActivity.cpp`, `XtcReaderActivity.cpp`,
`BookStatsActivity.cpp`, `home/BookActions.cpp`).
*State*: records of the book and of the device on the card, the reader's copies, the
running session, the statistics screen's preview that includes it. *Operations*: open,
turn pages, mark as finished, edit dates and completion, delete or reset statistics,
leave by Back or to Home. *Hard*: three holders of copies write whole records back at
different times, and the record of a book is truncated and written in place. *Correct when*
time is counted once, pages and edits are kept, the totals agree with the books, and a
power cut costs no more than the record being written.

**Firmware installation** (`network/FirmwareFlasher.cpp`, `OtaUpdater.cpp`,
`OtaBootSwitch.cpp`, `settings/SdFirmwareUpdateActivity.cpp`,
`CrossPointWebServer.cpp`). *State*: two application partitions, two `otadata`
slots, the staged file, the file picked by the user, the manifest of the release.
*Operations*: stage over the air, verify, validate, erase and write block by block,
switch. *Hard*: every step may fail and the power may go anywhere. *Correct when* the
selected partition always holds a complete image, the running one is never
written, and what is reported as installed is what was promised.

**Cache of a book** (`util/BookCacheUtils.cpp`,
`settings/ClearCacheActivity.cpp`). *State*: the cache directory with derived files
and user state (progress, settings, statistics), and temporary names beside it.
*Operations*: two kinds of clear, called after uploads and from menus. *Hard*: rename
out, remove file by file, rename back, each may fail or be cut. *Correct when* the
user state is never lost and the result says what happened.

**Nearby syncs** (`reader/NearbyBookPositionSyncActivity.*`,
`network/NearbyStatsSyncActivity.*`). *State* of each reader: the screen's state, the
peer, four flags of the exchange, a queue of eight events filled by the radio's callback.
*Operations*: HELLO, NAME, POSITION or STATS, ACK over ESP-NOW; retries every 750 ms or so,
a time-out of 15 or 12 s; Confirm, Back. *Interaction*: two devices, each with a radio
task that fills the queue, a main loop that empties it and a render task. *Hard*: packets
are lost or late, each side ends on its own flags, either user may leave or start again at
any time. *Correct when* success is only reported when both sides have what it promises,
and an undisturbed exchange completes.

**Progress, boot and sleep** (`reader/ReaderProgressSaveDebouncer.h`,
`reader/EpubReaderUtils.h`, `EpubReaderActivity.cpp`, `main.cpp`, `CrossPointState.*`,
`JsonSettingsIO.cpp`). *State*: `progress.bin` and its backup, the debouncer's pending
position and count, the place before a footnote, `state.json` with `openEpubPath`,
`readerActivityLoadCount`, `lastSleepFromReader`, `showBootScreen`, the magic word of a
silent restart. *Operations*: turn, jump, draw, exit, sleep, sync, boot. *Interaction*: the
render task observes positions and saves them, the main task flushes them; the exit of the
reader clears what the boot has counted. *Hard*: saves that fail or are cut, two files that are
not written together, one of them in place, a crash that must not be repeated at each
boot. *Correct when* a reading that ends in order is found again, one that is cut loses
little, and the boot returns to the reader when it should and only then.

### 1.2 Parts that are not modelled

| Part | State and operations | Why |
|---|---|---|
| Power manager (`lib/hal/HalPowerManager.cpp`) | lock mode, low-power flag, frequency; `setPowerSaving`, `Lock` | its unsynchronised mode is a listed hazard; what a wrong clock does is a matter of the hardware |
| Storage and bus locks (`lib/hal/HalStorage.cpp`, `HalSpiBus.cpp`) | two mutexes, always taken in the same order | gives the other models their atomic card calls |
| Power history (`power/PowerHistory.cpp`) | counters and samples in `state.json` | arithmetic |
| USB transfer, web uploads, WebDAV (`network/`) | temporary file, existing file, connection | sequential; the loss in replacing a file is a listed hazard. The firmware handler and the cache clear are modelled |
| Statistics backups (`reader/StatsBackup.cpp`) | newest seven backups | sequential |
| Section cache, directory index (`lib/Epub/Epub/Section.cpp`, `lib/FileIndex`) | derived files, rebuilt when missing or stale | layout and sorting are data |
| Book moves (`util/BookMoveUtils.cpp`) | book, cache, bookmarks, recent list in turn | sequential; worth a module like `BookCacheClear` |
| Small stores, settings (`CrossPointSettings.cpp`, `RecentBooksStore.cpp`, ...) | whole-file saves in place, migrations | `state.json`, of the same kind, is in `ReaderResume` |
| XTC and TXT progress | the same debouncer, a file of four or six bytes written in place | a torn file is read as another page; only the EPUB reader is in `ReaderResume` |
| KOReader sync (`lib/KOReaderSync`) | request and answer on the main task | sequential; its save and its restart are in `ReaderResume` |
| Screens (`home/`, `browser/`, `settings/`, `util/`) | selection, scrolling | reach the modelled parts only through the manager |
| Drawing, fonts, themes, decoders, parsers | pixels and bytes | data without control of interest |
| expat, uzlib, EpdFont data, freeink-sdk | vendored or generated | external |

Most of the repository's lines are generated tables (hyphenation, fonts, translations) and
vendored code, so the mapped share of all lines is small whatever is modelled.

The hazards of all of these, the unmodelled ones too, are listed with their lines in
`PROJECT.json`; a hazard without a property has a note that says why.

## 2. Modules and their correspondence to the code

| Module | What it is |
|---|---|
| `Screen` | abstract: versions of the content, who has asked for which, a paint that is never torn |
| `RenderHandshake` | the protocol of the two tasks, one step per atomic access; implements `Screen` |
| `ActivityManager` | navigation, with the render task reduced to take, lock, draw |
| `RotatedFile` | one save and one load over primary, backup and temporary file |
| `GlobalStatsFile`, `DailyHistoryFile` | extend `RotatedFile` by the copy in RAM and its flags |
| `ReadingSession` | who holds which copy of the statistics; the record of a book is written in place, the global one is replaced as `RotatedFile` shows |
| `BootTarget` | abstract: a complete image runs, a complete image is next, replaced in one step |
| `FirmwareInstall` | all three installers down to the chunks of flash; implements `BootTarget` |
| `BookCacheClear` | a cache clear file by file |
| `NearbyRadio` | lossy delivery between readers and the bounded queue of each |
| `NearbyStatsSync`, `NearbyPositionSync` | the two exchanges over `NearbyRadio`, for any number of readers |
| `ReaderResume` | one book's place from reading to reading: debouncer, `progress.bin`, `state.json`, boot |
| `MC*` | instances for TLC |
| `*Proofs` | theorems and their proofs |

**RenderHandshake.** `renderPc` runs through the statements of `renderTaskLoop()`:
take the notification, set `renderInProgress`, load the target generation, lock, draw,
clear the waiter, wake it, publish the completed generation, reset, unlock. Each
client's `pc` runs through `requestUpdate()` and `requestUpdateAndWait()`: bump, notify,
wait. The four loads of `canEnterReaderIdlePowerSaving()` are steps `gate2` to
`gate4`. `content` is a version of what `render()` reads, written only under the lock
as the code's convention demands; `painted` is what the panel shows. A notification
value is kept as zero or not, because it is always taken with `pdTRUE`.

**ActivityManager.** Activities are slots; `make_unique` takes a free one, and it is
free when the last owner lets it go. A callback may make up to `NavPerCallback`
navigation calls and any number of requests, in any order: the model does not follow
the particular activities. `mainPc` is where `setup()`, `loop()` of `main.cpp`
and `ActivityManager::loop()` are; the bodies under the lock are `PopToParent`,
`PopLast`, `SwapReplace`, `SwapPush`. Activities that end the program or reset
the chip are included (`SilentRestart`, `WakeUp`).

**RotatedFile.** A record is its version number. `Torn` is whatever fails validation,
`Newer` a file that `load()` recognises as one of a later format, `Resized` one of a later
format that it does not. The global statistics know a newer file by its version or by being larger, so
there each one is recognised; the daily history compares the size first and takes any other
for damage (`DailyReadingHistory.cpp:52-55`), so there only a newer file of the very size this
firmware writes is. The runs of the global statistics start with `Newer` files, those of the history
with both kinds. `Corrupt` damages the primary while the power
is off; the initial states are what an earlier boot may have left. Mutations of one
record are one counter, so that "old or new" is exact.

**ReadingSession.** Callbacks of the main task are atomic; the power may go between
them, between the two saves of one callback (the book's record is the first), and inside the
save of the book's record: `BookReadingStats::save()` truncates the file and writes it in
place (`BookReadingStats.cpp:253-288`), and what is left is a new book's record to `load()`
(lines 174-185). `SaveCut` has both outcomes. The save of the global record is one step, atomic as
`AtomicSave` shows over a valid file; no property speaks of the totals after a cut. Card
calls that fail are left out here (`save()` of a book tells nobody), and so is the removal of
files of older versions. One session counter, one page counter
and one date stand for the other fields of their kind. Statistics are assumed to be
enabled and the clock to be present, so that dates can be edited. The automatic start
date is omitted.

**FirmwareInstall.** A partition is a function from chunks to cells (a chunk of some
image, erased or garbage). A manifest says which image the release is, whether the
digest is known and whether the connection is plain HTTP. Validation of the file and
its second opening are one step; the exchange of the card is a step of its own while
the user is asked. The bootloader is external and boots the partition that the valid
slot of the larger sequence number selects; it has no fallback in the configuration
used, so the model has none. A write that the flash driver reports as done is taken as
done. No caller passes the cancel flag, so cancellation is not modelled.

**BookCacheClear.** The steps follow `preserveUserStateFiles()`, `removeDir()` of the
SDK and `restorePreservedFiles()`. A file's content is the number of the save that
wrote it. `StatsFiles` is in the order that `appendStatsPreservedFiles()` sorts by, so the file of
place k is the one with k - 1 present files before it. What a call does not keep counts as deleted by the user. A failed `mkdir` is
covered by the failing rename after it.

**NearbyRadio.** A packet that is not lost is in the receiver's queue at once, but the
receiver may find its queue empty for a while, which stands for the time in flight. A full
queue is emptied and marked, as `enqueueEspNowPacket()` does. While `lossy` holds, any
subset of the packets of a send gets through; `AirClears` ends that, once, at any time.
Packets of one sender keep their order, as ESP-NOW does on one channel; the retries bring
duplicates, and a reader that times out and starts again meets late ones.

**NearbyStatsSync.** `sync[r]` has the activity's members, `stored[r][p]` says whether the
snapshot that `r` keeps of `p` is of `p`'s present totals. `Handle` is one turn of
`processEvents()`, `Advance` of `updateSyncProgress()` but for the time-out, which may
come at any moment. `Heard` is the common part of `handleEvent()`: it draws a reader that
is not in an exchange into one. Flags that no branch reads before an exchange sets them
are reset early, which keeps the states few. NAME packets change a label only and are left out.

**NearbyPositionSync.** As above, with the roles: `source` shares, the other shows the
place and applies it on Confirm. `shown` is what the render task has painted, `repaint` an
update that is due. Both readers have the same book, the same protocol, or neither
(`match`). The mapping of a place into the other layout is taken to succeed. `APPLYING` is
never entered by the code and `APPLY` packets are never sent.

**ReaderResume.** `step` is where the main task is: off, one of the steps of `setup()`, home,
the reader, one of the four steps of its `onExit()` that matter here, or a sync screen.
`reader` has the position, whether its section is loaded, the debouncer's last position and
count, and one level of footnotes (the code stacks three). Drawing observes a position and,
when it is due, saves it; five minutes may have passed at any page change. A save of
`progress.bin` is one step with the outcomes that the steps in `RotatedFile` can leave:
published, unchanged, or without a primary or backup; a save of `state.json` is complete,
has no effect, or leaves a file that does not parse. While a preview is on the screen, or its
section has been let go, `saveProgress()` does nothing: the note stays `"preview"`. The menus' other
ways out are `StartSync` (the KOReader sync refuses to start from a preview, the nearby one does not, and
saves nothing then), `OpenFileTransfer` and `DeleteCache`, which save first. `left` is where the
reader has to open again; it is nowhere when the reader is left before its page is drawn or without a
section, see below. The pending bookmark or percentage with
which a book may open is left out, and a silent restart to the home screen is an ordinary boot.

## 3. Runs

| Run | States | What it shows |
|---|---|---|
| `render` | 130,857 | two clients: no lost wake-up or request, the idle test is sound although its loads are not atomic, a synchronous request returns, and with the caller's state on the panel, generations are monotone; the handshake implements `Screen`, liveness included |
| `nav` | 167,939 | three slots: ownership, no use after destruction, handlers, no spin; waits return, pending navigation is carried out, an uncovered parent is repainted |
| `stats_safety` | 12,054 | a save over a valid file is atomic; a newer file that `load()` recognises goes only by a reset |
| `history_safety` | 11,614 | what a skipped save would have written is on the card; a newer file that `load()` recognises goes only by a reset |
| `session` | 2,346,064 | two books and a power loss or reset: time counted once, pages kept, totals agree, copies current, a cut costs at most one record |
| `session_xtc_time` | violation | the XTC reader takes a preview for its record: the session is added twice |
| `install` | 807,456 | no failure or cut leaves the device without a complete image; success means the promised image; implements `BootTarget`; the flash loop ends |
| `cache_safety` | 1,002,242 | a clear keeps what it promises through failures and cuts, its result is true to what it did, and an abort puts everything back |
| `nearby_stats` | 170,164 | two readers: success is shown only with both snapshots stored, a full queue is never overrun, an undisturbed exchange completes |
| `nearby_position` | 254,956 | two readers: "Position shared" only when the other one has taken it, an undisturbed share arrives |
| `resume` | 4,618,704 | a cut costs fewer than the interval of page changes, a reading that ends in order on a drawn page is found again, the boot comes back to the reader after sleep and sync, and not after a start that was counted and crashed |
| `resume_footnote` | violation | leaving from a footnote that is shown as a preview saves no position |

Each property of a passing run has a mutant in `PROJECT.json`: a change of one
definition, of the kind a slip in the code would make, under which the property fails.
The mutants stand beside the definitions they change.

**Findings.** The two violation runs check a sentence of a comment against what the code
does; `findings` quotes both.

* `session_xtc_time`: the statistics screen of the XTC reader saves a record that includes the
  running session, the reader takes it for its own and adds the session again.
* `resume_footnote`: `onExit()` means to save the place before the footnote, but
  `saveProgress()` returns without saving while the footnote is a preview, and the flush
  before it is skipped as well. The book reopens at the last position saved, up to nine page
  changes before the link. A nearby position sync started from a preview saves nothing either.

More formulas fail on these models without a run of their own. They can be put into the
named configuration in place of its properties to see the counterexample:

* `RenderHandshake`: `[][\A c \in Clients : pc[c] = "wait" /\ pc'[c] = "run" => RenderTask \notin notified]_vars`.
  "Trigger a render and block until it completes" (`ActivityManager.h:136`): a render
  under way before the call wakes the caller, before the triggered one begins.
  `SyncShowsCallerState` is what does hold.
* `ActivityManager`: `NoPendingDropped`. "Should never happen in practice"
  (`ActivityManager.cpp:303`): `loop()` pushes an alert after its pending loop, and the next
  push or pop destroys it with its flag already cleared.
* `ActivityManager`: `mainPc = "asleep" => currentActivity = sleeping`. `goToSleep()` runs
  the outgoing activity's `loop()`, which may navigate and displace the sleep screen.
* `ActivityManager`: `mainPc = "booted" /\ ~mainBlocked /\ boot = "silent" => pendingAction = "None"`.
  The paint a silent restart waits for may be that of `ReaderActivity`, which is about to
  be replaced by the reader of the format.
* `RotatedFile`: `[][InSave /\ rotating => Loadable(file') \in {Loadable(file), saving}]_fileVars`.
  "The update is published atomically" (`DailyReadingHistory.h:23`): when the primary is
  missing or damaged and the backup serves, the next save removes that backup before it
  publishes; cut there, neither file is left. `AtomicSave` is what does hold.
* `DailyHistoryFile`: `NewerOfAnySizeKept` (HistorySafety.cfg). "Daily history uses a newer
  format; refusing to overwrite it" (`DailyReadingHistory.cpp:196`): `loadFromFile()` looks at the
  version only in a file of the size it knows (lines 52 and 64). A newer history of any other size is
  damage to it and does not block saving: the next save moves it to the backup, the one after removes it.
  `NewerKept` is about the files that it recognises.
* `GlobalStatsFile`: `RefusedMeansNewer` (StatsSafety.cfg). "Refusing to overwrite on-disk
  stats after newer-format file was detected" (`GlobalReadingStats.cpp:368`): nothing
  clears that refusal before the next boot, also after `resetLocal()` has replaced the
  newer file, so sessions read until then are not saved.
* `ReadingSession`: `EditsKept` (Session.cfg). Back on the statistics screen goes Home
  (`CHANGELOG.md:1194`) without the handler that imports edits, and the reader's `onExit()`
  writes its copies over them.
* `ReadingSession`: `CutCostsOneRecord` without its alternative `book'[b] = NewStats` (Session.cfg).
  "Accumulated reading time in seconds" (`BookReadingStats.h:11`): cut between the
  truncation and the write of the record, all that was read in the book before is gone too.
* `BookCacheClear`: `StatePreserved` (CacheSafety.cfg). "while preserving user-owned state
  such as progress and per-book stats" (`BookCacheUtils.h:9`): after a power loss between
  the move out and the move back the temporary names are the only copy, and the next clear
  deletes them as stale.
* `NearbyPositionSync`: `AppliedIsShown` (NearbyPosition.cfg with two places). "The receiving
  reader shows the incoming position and only applies it after you confirm it"
  (`docs/reader-features.md:155`): another position can arrive between the paint and the
  key, and `Apply` takes the latest.
* `NearbyStatsSync`: `SyncedMeansStored` (NearbyStats.cfg with three readers). "on both
  readers" (`docs/reading-stats-sync.md:25`): a packet of another reader makes it the peer
  and keeps `peerStatsSaved_` and `localStatsAcked_` (`NearbyStatsSyncActivity.cpp:415-421`),
  so SYNCED can name a reader whose snapshot was not stored.
* `NearbyPositionSync`: `SharedMeansReceived` (NearbyPosition.cfg with three readers). "Position
  shared" (`english.yaml:710`) appears on a reader whose place nobody has received: its HELLO makes it
  the peer of a reader that shows another one's place (`NearbyBookPositionSyncActivity.cpp:836`), and
  the ACK for applying that place goes to the peer (line 641).
* `ReaderResume`: `PendingFlushed` (Resume.cfg). "EPUB, TXT, and XTC progress writes are debounced,
  then flushed on normal reader exit" (`README.md:116` of the repository): `flushQueuedProgress()` needs
  the section (`EpubReaderActivity.cpp:4557`). It is null between a change of chapter or of layout and the
  next paint, and after a layout that ran out of memory (lines 4094 and 4113); leaving then only logs
  the failure (line 1889) and loses what was pending, up to nine page changes.
* `ReaderResume`: `PlaceKept` without the two uses of `stray` in `Place`. `observe()` only
  notes the first position it sees as the starting point, so a page turned before the
  first paint is not pending, and leaving then does not save it. `Place` also leaves out a reader
  without a section or with a page not yet drawn (as above), and `NoBootLoop` speaks of
  starts whose count was saved: a count whose save had no effect cannot stop the next boot.

**Bounds and why they are enough.** Render: two clients (the firmware has one; the
second exercises the handing over of `waitingTaskHandle`), two content changes and
three generations, so that a request can arrive before, during and after a render whose
target is older than the latest. Navigation: three slots make a stack of one under a
current and a pending activity, and one call per callback still lets a later callback
displace what an earlier one left pending; deeper stacks and longer callbacks are the
proofs' part, which hold for any number of both. Files: four versions allow several
saves in a row, each interrupted at any of its steps; interruptions are not counted.
Sessions: three seconds with the counting threshold at two give a session that counts,
one that does not, and one on top of another; two books for the totals, one fault.
Installation: images that fill the partition, that end inside an erase block, and that
are too large; sequence numbers up to four let each partition be selected by two
numbers. Cache: two fixed files, two statistics formats of which one is kept, two faults
and two calls, so that a second call meets what a cut of the first has left. Nearby: two
readers, which is what the screens are for, and a queue of two, since NAME and POSITION
come together and a third packet overruns it; time-outs, restarts and losses are not
counted. With one place in `nearby_position`, `ShareArrives` says that a share arrives but tests
weakly which one it is (`sync[p].got = here[r]`); with two its liveness takes longer than five minutes. Resume: an interval of two page changes and one failed save stand for ten and
more, so that a position can be saved, pending, pending again after a failure, and due;
three pages tell the place read, the one saved and the one jumped to apart; readings,
sleeps and power losses are not counted.
`CHECK_DEADLOCK FALSE` stands only in the cache run: when the counted calls, saves
and faults are used up, nothing more happens.

**Fairness and why the code justifies it.** *RenderHandshake*: both tasks have the same
priority and are time-sliced, so each enabled step of a task that is ready is
eventually taken (weak fairness); the drain and the taking of a mutex compete, and
there FreeRTOS readies the blocked task on every give while the main loop sleeps
without the lock in each iteration (strong fairness). *ActivityManager*: the same, and
a callback returns after finitely many calls of the manager, however often it waits
for a paint in between. *FirmwareInstall*: the main task carries an installation on.
*Nearby syncs*: each main loop runs (`processEvents()`, then `updateSyncProgress()`, in
every iteration, and `preventAutoSleep()` keeps it awake), and the air does not stay lossy for ever; without
the latter no retry can help. Time-outs are not fair, and an exchange that ends by one counts as
disturbed, as does one that a user leaves. No fairness is assumed of the user, of faults or of power,
and `ReaderResume` has none.

## 4. Proofs

TLAPS proves, for every value of the constants that meets the `ASSUME`s:

| Module | Theorems |
|---|---|
| `RenderHandshakeProofs` | `Invariance`, `TypeCorrect`, `NoLostWakeup`, `RequestsSurvive`, `IdleGateCorrect`, `SyncIsCurrent`, `CompletionOrdered`, `PanelRefinement` (safety half) |
| `ActivityManagerProofs` | `Invariance`, `TypeCorrect`, `DrawingIsSafe`, `Ownership`, `NoSpin`, `EnterFirst`, `ResultsReachStarter`, `BlockedIsServed` |
| `StatsFileProofs` | of the daily history `Invariance`, `TypeCorrect`, `CleanStored`, `NewerSafe`; of the global statistics `StatsInvariance`, `StatsTypeCorrect`, `StatsSaveAtomic`, `StatsNewerSafe` |
| `ReadingSessionProofs` | `TypeCorrect`, `FinishedBooksCounted`, `ReaderStaysCurrent` for both readers; `CutsAreBounded`, `TotalsStayTrue`, `SessionCountedOnce`, `PagesCountedOnce` for the EPUB reader |
| `BookCacheClearProofs` | `Invariance`, `TypeCorrect`, `PromisedFilesKept`, `TrueIsTrue`, `AbortLeavesFiles`, `NewestStatsKept` |
| `ReaderResumeProofs` | `Invariance`, `TypeCorrect`, `LossIsBounded`, `PlaceIsKept`, `ReaderComesBack`, `NoLoop` |
| `NearbyProofs` | of the statistics `Invariance`, `TypeCorrect` and, for two readers, `BothStored`; of the positions `ShareInvariance`, `ShareTypeCorrect` and, for two readers, `ShareReceived` |
| `FirmwareInstallProofs` | `InstallInvariant`, `InstallationKeepsPromise`, `RunningFirmwareIntact`, `InstallImplementsBootTarget` |

Each follows one pattern: an inductive invariant `IInv`, whose first part is the type
invariant `TypeOK`, then `InitIInv` and `NextIInv`, with one step per action (in
`ReaderResumeProofs` one lemma per action, in `BookCacheClearProofs` one per phase of a call),
and the properties from it; `ReadingSession` has two invariants, `CountInv` and `SessionInv`.
Two modules treat two components that rest on the same lemmas: the second is there as an instance,
`Stats` or `Share`, and the names of what is said of it begin with that.
The invariants of each module, and `CompletionMonotone`, `EnteredFirst` and
`PendingMatches` (theorems `CompletionOrdered`, `EnterFirst`, `ResultsReachStarter`) hold on the
instances of section 3 too, and can be added to their configurations.

* *RenderHandshake*: the wake-up and request properties are not inductive by themselves.
  `MutexInv` says what the holder of the mutex is doing, `GenerationInv` orders the three
  generations, `WaiterInv` says that a task in a synchronous request is in exactly one
  of the places that lead to its wake-up, and `AskInv` that an unpainted request of
  the main task is deferred, about to be bumped, or on its way. The last one is what makes
  the four separate loads of the idle test sound.
* *ActivityManager*: `LockInv` and `DrawInv` tie the drawn activity to the holder of the
  lock; `WhereInv` and `EnteredInv` say which activities exist at each point of
  `loop()`; `HandlerInv` follows a handler from the pending push to the stack.
* *Rotated files*: `RotationInv` says what each file holds at each step of a save;
  the two files add what they know of the copy in RAM. The lemmas about `saveToFile()` are
  proved once, and `SameInvariants` and `SameSteps` carry them to the instance. `NewerSafe` and `StatsNewerSafe` speak of the
  newer files that `load()` recognises; a newer history of another size is not one of them,
  see section 3. `intact` (the primary was valid
  when the save began) is needed: without it the save is not atomic, see section 3.
* *FirmwareInstall*: `TargetInv` (the selected and the running partition are whole,
  and the same until the switch), `FlashInv` (the written prefix is the image, the
  erased stretch after it is erased, and the computed sequence number selects the
  new partition and exceeds the active one), `SourceInv` (what the manifest promised
  is what is staged and then flashed).
* *Nearby syncs*: a step into SYNCED looks at flags, or at a packet, that were true of another
  reader when they were set or sent; between there may be time-outs, repeated packets and new
  exchanges. `StoredInv` says that `saved` and `acked` are true of what is stored whenever they
  are set, and so is every ACK in a queue, however late; `HeardInv` says the same of a place
  received. They are inductive with `PeersInv` (nobody hears itself, and what is noted names a
  peer), `SilenceInv` (a closed radio has an empty queue) and `PlacesInv`. One lemma says
  what a step of a reader may note, leave on the way and store (`StepIInv`, `ShareStepIInv`), and each
  action is shown to be such a step. `StoredInv` and `HeardInv`, and the two theorems about SYNCED, have
  the hypothesis `TwoReaders`: a peer is then always the same one. With a third reader both fail, see
  section 3. The other parts hold for any number of readers.
* *ReadingSession*: several screens hold copies and any of them may be saved last. `CopiesCount` says
  that each pair of copies, once saved, would cover the books then marked (`MarkedWith`);
  with it `FinishedCounted` and `ReaderIsCurrent` are inductive for both readers (`CountInv`).
  `CopiesFollow` says how far each copy is ahead of the card, in time and in pages, and
  `TotalsFollow` what the totals will be once the copies have been saved; they make
  `CardWithinSession` (the card has of the session no more than was read, and all before it) and
  `TotalsAgree` inductive (`SessionInv`), and the three action properties follow from them.
  `CutsAreBounded` rests on the lemma `CutLeaves`, which says what any cut, inside a record or between
  two, may leave. These four theorems have the hypothesis `Format = "epub"`: the XTC reader
  takes the preview for its record (`session_xtc_time`), and there they are false.
  That a sum over the books changes by what one book changes is proved of the fold of the
  community modules, without an induction rule: a smallest set of books for which it failed would
  have a smaller one (`NoDescent`, from the library's well-founded order on finite sets).
* *BookCacheClear*: `MovedFiles` says which promised files have been moved at each step
  of the two loops, and that the removal begins only when all have; `MovedAreSafe`, that a moved
  file is under its temporary name until the loop back has come to it; `RemovalIsTrue` and
  `FaultsCounted` connect `clearOk`, `ok` and the failures counted. The loops are sound
  because each name is listed once (`NamedOnce`), which rests on the lemmas about the list: the
  statistics files are kept by their place in the order, and every place is taken by
  one file (`PlacesAreTaken`, by counting).
* *ReaderResume*: none of its properties is inductive by itself. `DebounceInv` says that what the
  debouncer has not stored is pending, and how much that may be; `LeavingInv` follows the
  place through the four saves of `onExit()`, each of which may find the work already done;
  `PlaceInv` carries it from there to the next reading; `StateInv` and `OwedInv` say what
  `state.json` and memory agree on when the device may sleep or restart, and `OpenedInv` that a
  start that was counted stays counted until an exit. A loss of power, in the middle of a save or
  not, is one lemma (`CutKeeps`).

What the proofs assume: the named assumptions on constants, and what the models take
for granted (a remove or rename that reports success is durable and atomic; card
reads are reliable; validation finds any bad content; the bootloader starts the
selected partition). For `BookCacheClear` the assumption that the names of the fixed files and
of the statistics files differ is that of any directory.

**Only model-checked.** All liveness (`SyncReturns`, `PendingHandled`,
`RevealedRepainted`, `InstallEnds` and the liveness half of `Screen`), since liveness
under fairness and `ENABLED` are beyond the prover; the same goes for `ExchangeCompletes` and
`ShareArrives`. With more than two readers
nothing is claimed of SYNCED, see above.

## 5. What is left

In the order of what it would add:

1. Two saves of `progress.bin` at once: the main task saves without the `RenderLock` when a
   sync or a file transfer is opened, while the render task may be saving. It needs the steps of
   `RotatedFile` twice, with the names shared.
2. An abstract exchange that the two nearby syncs implement as far as they do, and a
   third reader in a small instance.
3. The moves of finished books, uploads over an existing file, and the replacement of
   derived caches, each step by step as in `BookCacheClear`.
4. Pure algorithms against reference definitions: the merge of reading histories and the
   merge sort of the directory index.

Recursion is kept out of the modules with proofs.
