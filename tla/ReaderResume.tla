---------------------------- MODULE ReaderResume ----------------------------
(***************************************************************************)
(* One EPUB across readings: where its reader is, what progress.bin and    *)
(* state.json keep of it, and what the next boot makes of them.  The       *)
(* reader saves its position now and then (ReaderProgressSaveDebouncer)    *)
(* and when it is left; state.json says which screen to boot into.  The    *)
(* power may go at any step, a save may fail.  A save of progress.bin is   *)
(* atomic here but for its known outcomes: its calls are those of          *)
(* RotatedFile.  state.json is written in place.                           *)
(***************************************************************************)
EXTENDS Naturals

CONSTANTS
  Pages,       \* positions in the book; the first is where it opens
  First,
  NoPage,      \* no file, or no position
  Torn,        \* state.json does not parse
  Interval,    \* PAGE_CHANGE_INTERVAL, 10 in the code
  MaxMissed    \* bound: saves of progress.bin that fail in a row

ASSUME PagesAssumption    == First \in Pages /\ NoPage \notin Pages
ASSUME IntervalAssumption == Interval \in Nat \ {0} /\ MaxMissed \in Nat

VARIABLES
  file,        \* progress.bin and its backup
  card,        \* state.json
  app,         \* APP_STATE
  silent,      \* silentRebootMagic, with the reader as target
  step,        \* where the main task is
  going,       \* why the reader was opened, or what follows it
  reader,      \* EpubReaderActivity and its debouncer
  left,        \* history: where the reader was left in order, and from what kind of page
  behind,      \* history: page changes observed since the last good save
  missed,      \* history: saves that failed since
  unsaved,     \* history: the last save of state.json failed
  owed,        \* history: the next boot has to come back to the reader
  opened       \* history: a boot opened the reader, which has not been left in order

history == <<left, behind, missed, unsaved, owed, opened>>
vars == <<file, card, app, silent, step, going, reader, history>>

AppState == [book : BOOLEAN,              \* openEpubPath names it
             loads : {0, 1},              \* readerActivityLoadCount
             fromReader : BOOLEAN,        \* lastSleepFromReader
             splash : BOOLEAN]            \* showBootScreen
Defaults == [book |-> FALSE, loads |-> 0, fromReader |-> FALSE, splash |-> TRUE]

ASSUME TornAssumption == Torn \notin AppState

Reader == [page : Pages, section : BOOLEAN,
           last : Pages \cup {NoPage},    \* lastPositionKey, NoPage before `initialized'
           count : 0 .. (Interval + MaxMissed),    \* pendingPageChanges; positive when pending
           note : {"none", "chapter",     \* a footnote, in its chapter or to be shown as a preview,
                  "pending", "preview"}, \* and activeFootnotePreview: it is, or was, on the screen
           origin : Pages \cup {NoPage},  \* savedPositions[0]
           stray : BOOLEAN]   \* history: the place is not the saved one, and was never pending
Closed == [page |-> First, section |-> FALSE, last |-> NoPage, count |-> 0,
           note |-> "none", origin |-> NoPage, stray |-> FALSE]

Nowhere == [at |-> NoPage, from |-> "none"]
-----------------------------------------------------------------------------
(* Files.                                                                  *)

\* loadProgress
Loadable(f) == IF f.path # NoPage THEN f.path ELSE IF f.bak # NoPage THEN f.bak ELSE First

\* What a save that fails or is cut leaves when it does not publish.
Interrupted(f) == {f, [f EXCEPT !.bak = NoPage], [path |-> NoPage, bak |-> f.path]}

LosePower ==
  /\ step' = "off"
  /\ app' = Defaults /\ going' = "none" /\ reader' = Closed /\ silent' = FALSE
  /\ left' = IF step \in {"reader", "flush", "clear", "origin"} THEN Nowhere ELSE left
  /\ behind' = 0 /\ missed' = 0 /\ unsaved' = FALSE /\ owed' = (owed /\ step = "off")

\* saveProgress of a page comes to an end; what it does to the rest is the caller's.
Saves(page)  == file' = [path |-> page, bak |-> file.path] /\ behind' = 0 /\ missed' = 0
SaveFails    == missed < MaxMissed /\ file' \in Interrupted(file) /\ missed' = missed + 1
SaveIsCut    == file' \in Interrupted(file) /\ LosePower /\ UNCHANGED <<card, opened>>

\* APP_STATE.saveToFile(), which nobody asks for its result
SaveState(a, to) ==
  \/ /\ card' = a /\ unsaved' = FALSE
     /\ app' = a /\ step' = to
  \/ /\ card' \in {card, Torn} /\ unsaved' = TRUE
     /\ app' = a /\ step' = to
-----------------------------------------------------------------------------
(* The debouncer.                                                          *)

Changed(r) == r.last # NoPage /\ r.page # r.last

\* observe(), but for its result
Observe(r) == [r EXCEPT !.last = r.page, !.count = IF Changed(r) THEN @ + 1 ELSE @]

\* Mutant: one page too late.
DueLate(r) == r.count > Interval
Due(r) == r.count >= Interval

MarkPersisted(r, page) ==
  IF r.last \in {NoPage, page} THEN [r EXCEPT !.last = page, !.count = 0] ELSE r

\* saveProgress does nothing from when a preview is drawn, also when its section is gone
Preview(r) == r.note = "preview"
-----------------------------------------------------------------------------
(* Boot.                                                                   *)

\* setup() until the choice of the screen; keys held down, a panic or the prompt of a new firmware
\* lead away from the reader
Boot ==
  /\ step = "off"
  /\ app' = IF card = Torn THEN Defaults ELSE card
  /\ step' = IF silent \/ app'.splash THEN "route" ELSE "rearm"
  /\ UNCHANGED <<file, card, silent, going, reader, history>>

\* the one-shot flag of a quick resume
Rearm ==
  /\ step = "rearm"
  /\ SaveState([app EXCEPT !.splash = TRUE], "route")
  /\ UNCHANGED <<file, silent, going, reader, left, behind, missed, owed, opened>>

RoutesToReader == app.book /\ (silent \/ (app.fromReader /\ app.loads = 0))

RouteHome ==
  /\ step = "route"
  /\ \/ ~RoutesToReader /\ UNCHANGED owed
     \/ RoutesToReader /\ owed' = FALSE     \* by one of those ways
  /\ step' = "home" /\ silent' = FALSE /\ going' = "none"
  /\ UNCHANGED <<file, card, app, reader, left, behind, missed, unsaved, opened>>

RouteSilent ==
  /\ step = "route" /\ silent /\ RoutesToReader
  /\ step' = "enter" /\ going' = "reader" /\ silent' = FALSE
  /\ UNCHANGED <<file, card, app, reader, history>>

\* Mutant: the start of the reader is not counted.
RouteUncounted ==
  /\ step = "route" /\ ~silent /\ RoutesToReader
  /\ SaveState([app EXCEPT !.book = FALSE], "enter")
  /\ opened' = ~unsaved'
  /\ going' = "boot"
  /\ UNCHANGED <<file, silent, reader, left, behind, missed, owed>>

RouteReader ==
  /\ step = "route" /\ ~silent /\ RoutesToReader
  /\ SaveState([app EXCEPT !.book = FALSE, !.loads = 1], "enter")
  /\ opened' = ~unsaved'
  /\ going' = "boot"
  /\ UNCHANGED <<file, silent, reader, left, behind, missed, owed>>

OpenBook ==
  /\ step = "home"
  /\ step' = "enter" /\ going' = "reader" /\ opened' = FALSE
  /\ UNCHANGED <<file, card, app, silent, reader, left, behind, missed, unsaved, owed>>

Opening == [Closed EXCEPT !.page = Loadable(file)]
EnterVars == left' = Nowhere /\ owed' = FALSE /\ behind' = 0 /\ going' = "none"

\* onEnter
Enter ==
  /\ step = "enter"
  /\ SaveState([app EXCEPT !.book = TRUE], "reader")
  /\ reader' = Opening
  /\ EnterVars
  /\ UNCHANGED <<file, silent, missed, opened>>

\* onEnter of a quick resume on the X3, which does not save; the page may be on the screen already
EnterDirect ==
  /\ step = "enter" /\ going = "boot"
  /\ step' = "reader" /\ app' = [app EXCEPT !.book = TRUE]
  /\ \/ reader' = Opening
     \/ {file.path, file.bak} # {NoPage} /\ reader' = Observe([Opening EXCEPT !.section = TRUE])
  /\ EnterVars
  /\ UNCHANGED <<file, card, silent, missed, unsaved, opened>>
-----------------------------------------------------------------------------
(* Reading.                                                                *)

Reads == step = "reader" /\ UNCHANGED <<card, app, silent, left, unsaved, owed, opened>>

\* a page turn, a jump, or a change of layout; another chapter is loaded when it is drawn
Turn ==
  /\ Reads
  /\ \E page \in Pages, section \in {FALSE, reader.section} :
       reader' = [reader EXCEPT !.section = section,
                                 !.page = IF reader.note \in {"pending", "preview"} THEN @ ELSE page]
  /\ UNCHANGED <<file, step, going, behind, missed>>

\* navigateToHref
FollowNote ==
  /\ Reads /\ reader.section /\ reader.note = "none"
  /\ \E page \in Pages, note \in {"chapter", "pending"} :
       reader' = [reader EXCEPT !.page = page, !.section = FALSE, !.note = note, !.origin = reader.page]
  /\ UNCHANGED <<file, step, going, behind, missed>>

\* restoreSavedPosition
LeaveNote ==
  /\ Reads /\ reader.note # "none"
  /\ reader' = [reader EXCEPT !.page = reader.origin, !.section = FALSE, !.note = "none", !.origin = NoPage]
  /\ UNCHANGED <<file, step, going, behind, missed>>

\* render() on the render task, whose end is queueProgressSave; five minutes may have passed
Draw ==
  LET drawn == [reader EXCEPT !.section = TRUE, !.note = IF @ = "pending" THEN "preview" ELSE @]
      seen  == [Observe(drawn) EXCEPT !.stray =
                  IF reader.last = NoPage THEN reader.page # Loadable(file) ELSE @ /\ ~Changed(drawn)]
      more  == IF Changed(drawn) THEN behind + 1 ELSE behind IN
  /\ step = "reader"
  /\ IF Preview(drawn)
     THEN Reads /\ reader' = drawn /\ UNCHANGED <<file, step, going, behind, missed>>
     ELSE \/ /\ Reads /\ ~(Changed(drawn) /\ Due(seen))
             /\ reader' = seen /\ behind' = more
             /\ UNCHANGED <<file, step, going, missed>>
          \/ /\ Changed(drawn)
             /\ \/ Reads /\ Saves(seen.page) /\ reader' = MarkPersisted(seen, seen.page) /\ UNCHANGED <<step, going>>
                \/ Reads /\ SaveFails /\ reader' = seen /\ behind' = more /\ UNCHANGED <<step, going>>
                \/ SaveIsCut
-----------------------------------------------------------------------------
(* Leaving the reader.                                                     *)

\* Where a reader that is left now should open again, as far as its page has been drawn.  Before
\* that, and while its section is laid out again or cannot be, it is nowhere: flushQueuedProgress
\* returns false without a section, and what is pending is lost (PendingFlushed).
Place(r) ==
  IF Preview(r) /\ r.stray THEN Nowhere
  ELSE IF r.note # "none" THEN [at |-> r.origin, from |-> IF Preview(r) THEN "preview" ELSE "chapter"]
  ELSE IF r.section /\ r.page = r.last /\ ~r.stray THEN [at |-> r.page, from |-> "none"] ELSE Nowhere

\* Back, or another screen
Leave ==
  /\ step = "reader"
  /\ step' = "flush" /\ going' = "home" /\ left' = Place(reader)
  /\ UNCHANGED <<file, card, app, silent, reader, behind, missed, unsaved, owed, opened>>

\* enterDeepSleep until it calls goToSleep
Sleep ==
  /\ step = "reader"
  /\ SaveState([app EXCEPT !.fromReader = TRUE, !.splash = FALSE], "flush")
  /\ going' = "sleep" /\ left' = Place(reader)
  /\ UNCHANGED <<file, silent, reader, behind, missed, owed, opened>>

\* the two position syncs: they save first and let the section go, or stay when the save fails;
\* from a preview only the nearby one starts, and saves nothing
StartSync ==
  /\ step = "reader"
  /\ \/ /\ Preview(reader)
        /\ reader' = [reader EXCEPT !.section = FALSE]
        /\ step' = "flush" /\ going' = "sync" /\ left' = Place(reader)
        /\ UNCHANGED <<file, card, app, silent, behind, missed, unsaved, owed, opened>>
     \/ /\ ~Preview(reader) /\ Saves(reader.page)
        /\ reader' = [MarkPersisted(reader, reader.page) EXCEPT !.section = FALSE]
        /\ step' = "flush" /\ going' = "sync"
        /\ left' = IF reader.note = "none" THEN [at |-> reader.page, from |-> "none"] ELSE Place(reader)
        /\ UNCHANGED <<card, app, silent, unsaved, owed, opened>>
     \/ /\ ~Preview(reader) /\ Reads /\ SaveFails /\ UNCHANGED <<step, going, behind>>
        /\ reader' = [reader EXCEPT !.stray = @ \/ reader.count = 0]
     \/ ~Preview(reader) /\ SaveIsCut

\* A page is saved before the reader is left, whatever comes of it; the section may go with it.
\* Without a section or in a preview nothing is saved, which is a Leave.
SaveAndLeave(section) ==
  /\ step = "reader" /\ reader.section /\ ~Preview(reader)
  /\ \/ /\ \/ /\ Saves(reader.page)
              /\ reader' = [MarkPersisted(reader, reader.page) EXCEPT !.section = section]
              /\ left' = Place([reader EXCEPT !.stray = FALSE])
           \/ /\ SaveFails /\ left' = Nowhere /\ UNCHANGED behind
              /\ reader' = [reader EXCEPT !.section = section]
        /\ step' = "flush" /\ going' = "home"
        /\ UNCHANGED <<card, app, silent, unsaved, owed, opened>>
     \/ SaveIsCut

OpenFileTransfer == SaveAndLeave(TRUE)

\* from the menu; the clearing itself is BookCacheClear, and keeps progress.bin
DeleteCache == SaveAndLeave(FALSE)

\* A step of onExit that may save a page.
ExitSave(at, to, needed, page) ==
  /\ step = at
  /\ \/ /\ \/ ~needed /\ UNCHANGED <<file, behind, missed, reader, left>>
           \/ needed /\ Saves(page) /\ reader' = MarkPersisted(reader, page) /\ UNCHANGED left
           \/ needed /\ SaveFails /\ left' = Nowhere /\ UNCHANGED <<reader, behind>>
        /\ step' = to
        /\ UNCHANGED <<card, app, silent, going, unsaved, owed, opened>>
     \/ needed /\ SaveIsCut

\* Mutant: only what is due is flushed.
FlushDue == ExitSave("flush", "clear", reader.note = "none" /\ Due(reader) /\ reader.section, reader.last)

\* flushQueuedProgress
Flush == ExitSave("flush", "clear", reader.note = "none" /\ reader.count > 0 /\ reader.section, reader.last)

\* Mutant: the count of started readers is not reset.
ClearNothing ==
  /\ step = "clear"
  /\ SaveState(app, "origin")
  /\ opened' = FALSE
  /\ UNCHANGED <<file, silent, going, reader, left, behind, missed, owed>>

ClearCount ==
  /\ step = "clear"
  /\ SaveState([app EXCEPT !.loads = 0], "origin")
  /\ opened' = FALSE
  /\ UNCHANGED <<file, silent, going, reader, left, behind, missed, owed>>

SaveOrigin == ExitSave("origin", "left", reader.note # "none" /\ ~Preview(reader), reader.origin)

Off ==
  /\ step' = "off" /\ app' = Defaults
  /\ behind' = 0 /\ missed' = 0 /\ unsaved' = FALSE

\* What the reader was left for.
Left ==
  /\ step = "left" /\ reader' = Closed /\ going' = "none"
  /\ IF going = "sleep"
     THEN Off /\ owed' = (app.fromReader /\ ~unsaved)
     ELSE step' = going /\ UNCHANGED <<app, behind, missed, unsaved, owed>>
  /\ UNCHANGED <<file, card, silent, left, opened>>

\* A sync writes the place that the user takes over, as the reader would.
TakePlace ==
  /\ step = "sync"
  /\ \/ /\ \E page \in Pages : Saves(page) /\ left' = [at |-> page, from |-> "none"]
        /\ UNCHANGED <<card, app, silent, step, going, reader, unsaved, owed, opened>>
     \/ /\ SaveFails /\ left' = Nowhere
        /\ UNCHANGED <<card, app, silent, step, going, reader, behind, unsaved, owed, opened>>
     \/ SaveIsCut

\* silentRestartToReader
RestartToReader ==
  /\ step = "sync"
  /\ Off /\ silent' = TRUE /\ owed' = ~unsaved
  /\ UNCHANGED <<file, card, going, reader, left, opened>>

\* enterDeepSleep elsewhere
SleepElsewhere ==
  /\ step \in {"home", "sync"}
  /\ SaveState([app EXCEPT !.fromReader = (step = "sync"), !.splash = FALSE], "left")
  /\ going' = "sleep"
  /\ UNCHANGED <<file, silent, reader, left, behind, missed, owed, opened>>

PowerLoss ==
  /\ step # "off"
  /\ LosePower
  /\ card' \in IF step \in {"home", "route", "rearm", "enter", "reader", "clear", "sync"} THEN {card, Torn} ELSE {card}
  /\ UNCHANGED <<file, opened>>
-----------------------------------------------------------------------------
Init ==
  /\ file = [path |-> NoPage, bak |-> NoPage]
  /\ card \in {Defaults, Torn}
  /\ app = Defaults /\ silent = FALSE /\ step = "off" /\ going = "none" /\ reader = Closed
  /\ left = Nowhere /\ behind = 0 /\ missed = 0
  /\ unsaved = FALSE /\ owed = FALSE /\ opened = FALSE

Next ==
  \/ Boot \/ Rearm \/ RouteHome \/ RouteSilent \/ RouteReader \/ OpenBook \/ Enter \/ EnterDirect
  \/ Turn \/ FollowNote \/ LeaveNote \/ Draw
  \/ Leave \/ Sleep \/ StartSync \/ OpenFileTransfer \/ DeleteCache \/ Flush \/ ClearCount \/ SaveOrigin \/ Left
  \/ TakePlace \/ RestartToReader \/ SleepElsewhere \/ PowerLoss

Spec == Init /\ [][Next]_vars
-----------------------------------------------------------------------------
\* Types of the variables.
TypeOK ==
  /\ file \in [path : Pages \cup {NoPage}, bak : Pages \cup {NoPage}]
  /\ card \in AppState \cup {Torn} /\ app \in AppState /\ silent \in BOOLEAN
  /\ step \in {"off", "rearm", "route", "home", "enter", "reader", "flush", "clear", "origin", "left", "sync"}
  /\ going \in {"none", "boot", "reader", "home", "sleep", "sync"}
  /\ reader \in Reader
  /\ left \in [at : Pages \cup {NoPage}, from : {"none", "chapter", "preview"}]
  /\ behind \in 0 .. (Interval + MaxMissed) /\ missed \in 0 .. MaxMissed
  /\ unsaved \in BOOLEAN /\ owed \in BOOLEAN /\ opened \in BOOLEAN

\* An interruption costs fewer than Interval page changes, and one more for each save that failed
\* since: progress "writes are debounced", and a failed one is tried again.
LossBounded == step = "reader" => behind < Interval + missed

Stored == Loadable(file) = left.at

\* A reader that is left in order opens again where it was: writes are "flushed on normal reader
\* exit", whatever was saved before, and through sleep, silent restarts and taken-over positions.
PlaceKept ==
  step \in {"home", "sync", "off", "enter"} /\ left.at # NoPage /\ left.from # "preview" => Stored

\* Leaving mid-footnote: "persist the pre-footnote position so the book reopens at the link origin,
\* not the footnote".
OriginKept == step = "home" /\ left.at # NoPage => Stored

\* Progress writes are "flushed on normal reader exit": unless the save fails, what was pending is
\* then on the card, or the page that was jumped to after it.  It does not hold: a reader without a
\* section does not flush.
PendingFlushed ==
  [][step = "flush" /\ step' = "clear" /\ reader.note = "none" /\ reader.count > 0 /\ missed' = missed
       => Loadable(file') \in {reader.last, reader.page}]_vars

\* Sleep in the reader and a sync lead back to it, whatever interrupted earlier sessions.
ComesBack == step = "home" => ~owed

\* A reader that a boot has opened, and that was not left in order, is not opened by the next boot:
\* "Clear app state to avoid getting into a boot loop if the epub doesn't load".
NoBootLoop == [][step = "route" /\ step' = "enter" /\ ~silent => ~opened]_vars
-----------------------------------------------------------------------------
(* The invariant that the proofs use.                                      *)

\* What the debouncer has not stored is pending, and no more than it may be.
DebounceInv ==
  /\ reader.count > 0 => reader.last # NoPage
  /\ reader.note # "none" => reader.origin # NoPage
  /\ step = "reader" =>
       /\ behind <= reader.count /\ reader.count < Interval + missed
       /\ reader.last # NoPage /\ reader.count = 0 /\ ~reader.stray => Loadable(file) = reader.last

\* On the way out, the place is stored or about to be.
LeavingInv ==
  step \in {"flush", "clear", "origin"} /\ left.at # NoPage =>
    IF reader.note # "none"
    THEN left.from = "preview" \/ (left.at = reader.origin /\ ~Preview(reader))
    ELSE IF step = "flush" /\ reader.count > 0 /\ reader.section THEN left.at = reader.last ELSE Stored

\* Outside the reader it is stored, in the primary file while a sync may still save.
PlaceInv ==
  /\ step \in {"left", "sync", "home", "off", "rearm", "route", "enter"} /\ left.at # NoPage /\ left.from # "preview"
       => Stored
  /\ (going = "sync" \/ step = "sync") /\ left.at # NoPage /\ left.from # "preview" => file.path # NoPage

\* Whoever may sleep or restart into the reader has the book and no start counted.
StateInv ==
  /\ step \in {"reader", "flush", "clear", "origin", "sync"} => app.book
  /\ step \in {"origin", "sync"} => app.loads = 0
  /\ step = "left" /\ (app.fromReader \/ going # "sleep") => app.book /\ app.loads = 0
  /\ step \in {"origin", "left", "sync"} /\ ~unsaved => card = app
  /\ step \in {"flush", "clear", "origin", "left"} => going \in {"home", "sleep", "sync"}
  /\ step = "reader" => going = "none"

\* A boot that has to come back can.
OwedInv ==
  /\ owed => step \in {"off", "rearm", "route", "enter"}
  /\ owed /\ step = "off" => card # Torn /\ card.book /\ (silent \/ (card.fromReader /\ card.loads = 0))
  /\ owed /\ step \in {"rearm", "route"} => RoutesToReader

\* A start that was not followed by an exit is counted, or the boot goes home.
OpenedInv ==
  opened =>
    /\ ~silent /\ step \notin {"origin", "sync"} /\ (step = "left" => going = "sleep")
    /\ card = Torn \/ card.loads = 1 \/ ~card.fromReader
    /\ app.loads = 1 \/ ~app.fromReader
    /\ step \in {"enter", "reader", "flush", "clear"} => app.loads = 1

IInv == TypeOK /\ DebounceInv /\ LeavingInv /\ PlaceInv /\ StateInv /\ OwedInv /\ OpenedInv
=============================================================================
