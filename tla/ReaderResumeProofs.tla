-------------------------- MODULE ReaderResumeProofs --------------------------
(***************************************************************************)
(* Proofs about ReaderResume, for every book, every interval of the        *)
(* debouncer and any number of saves that fail.                            *)
(***************************************************************************)
EXTENDS ReaderResume, TLAPS

\* The types of file and of left.
FileType == [path : Pages \cup {NoPage}, bak : Pages \cup {NoPage}]
PlaceType == [at : Pages \cup {NoPage}, from : {"none", "chapter", "preview"}]

\* loadProgress answers with a position of the book, whatever the two files hold.
LEMMA LoadableType == ASSUME NEW f \in FileType PROVE Loadable(f) \in Pages
  BY PagesAssumption DEF FileType, Loadable

\* What an unfinished save leaves is again a pair of files.
LEMMA InterruptedType == ASSUME NEW f \in FileType, NEW g \in Interrupted(f) PROVE g \in FileType
  BY DEF FileType, Interrupted

\* A save that does not publish costs nothing while the primary file is there: the reader would
\* open where it would have opened before.
LEMMA InterruptedLoadable ==
  ASSUME NEW f \in FileType, f.path # NoPage, NEW g \in Interrupted(f)
  PROVE  Loadable(g) = Loadable(f)
  BY DEF FileType, Interrupted, Loadable

\* APP_STATE before state.json is read names no book and no start.
LEMMA DefaultsFacts ==
  Defaults \in AppState /\ Defaults.loads = 0 /\ ~Defaults.book /\ ~Defaults.fromReader
  BY DEF Defaults, AppState

\* A reader that is not open has nothing pending.
LEMMA ClosedFacts ==
  Closed \in Reader /\ Closed.count = 0 /\ Closed.note = "none" /\ Closed.last = NoPage
  BY PagesAssumption, IntervalAssumption DEF Closed, Reader

\* No place is claimed.
LEMMA NowhereFacts == Nowhere \in PlaceType /\ Nowhere.at = NoPage
  BY DEF Nowhere, PlaceType

\* saveToFile() of state.json: memory has the new state; the card has it when the save succeeded,
\* and otherwise the old one or a torn one.
LEMMA SaveStateEffect ==
  ASSUME NEW a \in AppState, NEW to, card \in AppState \cup {Torn}, SaveState(a, to)
  PROVE  /\ card' \in AppState \cup {Torn} /\ card' \in {a, card, Torn} /\ (~unsaved' => card' = a)
         /\ app' = a /\ app' \in AppState /\ step' = to /\ unsaved' \in BOOLEAN
  BY DEF SaveState

\* The counters are numbers.
LEMMA CountType == TypeOK => reader.count \in Nat /\ behind \in Nat /\ missed \in Nat
<1> SUFFICES ASSUME TypeOK PROVE reader.count \in Nat /\ behind \in Nat /\ missed \in Nat
  OBVIOUS
<1>1. reader.count \in 0 .. (Interval + MaxMissed)
  BY DEF TypeOK, Reader
<1> QED
  BY <1>1 DEF TypeOK

\* The power goes at any step, in the middle of a save of progress.bin or outside one.
LEMMA CutKeeps ==
  ASSUME IInv, LosePower, step # "off", card' \in {card, Torn}, opened' = opened, file' \in Interrupted(file),
         step \in {"reader", "flush", "origin", "sync"} \/ file' = file
  PROVE  IInv'
<1> USE DEF IInv
<1>1. /\ step' = "off" /\ app' = Defaults /\ going' = "none" /\ reader' = Closed /\ silent' = FALSE
      /\ behind' = 0 /\ missed' = 0 /\ unsaved' = FALSE
  BY DEF LosePower
<1>2. file \in FileType /\ file' \in FileType
  BY InterruptedType DEF TypeOK, FileType
<1>3. left' \in PlaceType
  BY NowhereFacts DEF LosePower, TypeOK, PlaceType
<1>4. owed' = FALSE
  BY DEF LosePower
<1>5. TypeOK'
  <2>1. card' \in AppState \cup {Torn} /\ app' \in AppState /\ reader' \in Reader
    BY <1>1, DefaultsFacts, ClosedFacts DEF TypeOK
  <2>2. behind' \in 0 .. (Interval + MaxMissed) /\ missed' \in 0 .. MaxMissed
    BY <1>1, IntervalAssumption
  <2> QED
    BY <1>1, <1>2, <1>3, <1>4, <2>1, <2>2 DEF TypeOK, FileType, PlaceType
<1>6. DebounceInv' /\ LeavingInv' /\ StateInv'
  BY <1>1, ClosedFacts DEF DebounceInv, LeavingInv, StateInv
<1>7. PlaceInv'
  <2>1. CASE left' = Nowhere
    BY <2>1, NowhereFacts DEF PlaceInv
  <2>2. CASE left' = left /\ step \in {"left", "sync", "home", "off", "rearm", "route", "enter"}
    <3>1. CASE file' = file
      BY <1>1, <2>2, <3>1 DEF PlaceInv, Stored
    <3>2. CASE step = "sync"
      BY <1>1, <1>2, <2>2, InterruptedLoadable DEF PlaceInv, Stored
    <3> QED
      BY <2>2, <3>1, <3>2
  <2> QED
    BY <2>1, <2>2 DEF LosePower, TypeOK
<1>8. OwedInv'
  BY <1>4 DEF OwedInv
<1>9. OpenedInv'
  BY <1>1, DefaultsFacts DEF OpenedInv
<1> QED
  BY <1>5, <1>6, <1>7, <1>8, <1>9

\* A save that publishes: the reader opens at the page that was saved.
LEMMA SavesEffect ==
  ASSUME NEW page \in Pages, file \in FileType, Saves(page)
  PROVE  /\ file' \in FileType /\ file'.path = page /\ Loadable(file)' = page
         /\ behind' = 0 /\ missed' = 0
  BY PagesAssumption DEF Saves, FileType, Loadable

\* A save that fails.
LEMMA SaveFailsEffect ==
  ASSUME file \in FileType, SaveFails, missed \in Nat
  PROVE  /\ file' \in FileType /\ missed' = missed + 1 /\ missed' \in 0 .. MaxMissed
<1>1. file' \in FileType
  BY InterruptedType DEF SaveFails
<1> QED
  BY <1>1, IntervalAssumption DEF SaveFails

\* markPersisted() clears what is pending for the page that was saved, and for no other.
LEMMA MarkedType ==
  ASSUME NEW r \in Reader, NEW page \in Pages
  PROVE  /\ MarkPersisted(r, page) \in Reader
         /\ MarkPersisted(r, page).page = r.page /\ MarkPersisted(r, page).section = r.section
         /\ MarkPersisted(r, page).note = r.note /\ MarkPersisted(r, page).origin = r.origin
         /\ MarkPersisted(r, page).stray = r.stray
         /\ IF r.last \in {NoPage, page}
            THEN MarkPersisted(r, page).last = page /\ MarkPersisted(r, page).count = 0
            ELSE MarkPersisted(r, page).last = r.last /\ MarkPersisted(r, page).count = r.count
<1>1. CASE r.last \in {NoPage, page}
  <2>1. MarkPersisted(r, page) = [r EXCEPT !.last = page, !.count = 0]
    BY <1>1 DEF MarkPersisted
  <2>2. 0 \in 0 .. (Interval + MaxMissed)
    BY IntervalAssumption
  <2> QED
    BY <1>1, <2>1, <2>2 DEF Reader
<1>2. CASE r.last \notin {NoPage, page}
  BY <1>2 DEF MarkPersisted
<1> QED
  BY <1>1, <1>2

\* A save in the reader, in its exit or in a sync, cut by a loss of power.
LEMMA SaveCutKeeps ==
  ASSUME IInv, SaveIsCut, step \in {"reader", "flush", "origin", "sync"}
  PROVE  IInv'
  BY CutKeeps DEF SaveIsCut

\* setup() reads state.json: what must come back still can, what was counted still is.
LEMMA BootKeeps == IInv /\ Boot => IInv'
<1> SUFFICES ASSUME IInv, Boot
             PROVE  IInv'
  OBVIOUS
<1> USE DEF IInv
<1>1. TypeOK'
  BY DefaultsFacts DEF TypeOK, Boot, history
<1>2. DebounceInv'
  BY DEF DebounceInv, Boot
<1>3. LeavingInv'
  BY DEF LeavingInv, Boot
<1>4. PlaceInv'
  BY DEF PlaceInv, Boot, history, Stored
<1>5. StateInv'
  BY DEF StateInv, Boot
<1>6. OwedInv'
  BY DEF OwedInv, Boot, history, RoutesToReader
<1>7. OpenedInv'
  BY DefaultsFacts DEF OpenedInv, Boot, history
<1> QED
  BY <1>1, <1>2, <1>3, <1>4, <1>5, <1>6, <1>7

\* The one-shot flag of a quick resume.
LEMMA RearmKeeps == IInv /\ Rearm => IInv'
<1> SUFFICES ASSUME IInv, Rearm
             PROVE  IInv'
  OBVIOUS
<1> USE DEF IInv
<1> DEFINE a == [app EXCEPT !.splash = TRUE]
<1>1. a \in AppState /\ a.loads = app.loads /\ a.book = app.book /\ a.fromReader = app.fromReader
  BY DEF TypeOK, AppState
<1> HIDE DEF a
<1>2. SaveState(a, "route")
  BY DEF Rearm, a
<1>3. /\ card' \in AppState \cup {Torn} /\ card' \in {a, card, Torn} /\ (~unsaved' => card' = a)
      /\ app' = a /\ app' \in AppState /\ step' = "route" /\ unsaved' \in BOOLEAN
  BY <1>1, <1>2, SaveStateEffect DEF TypeOK
<1>4. TypeOK'
  BY <1>3 DEF TypeOK, Rearm
<1>5. DebounceInv'
  BY <1>3 DEF DebounceInv, Rearm
<1>6. LeavingInv'
  BY <1>3 DEF LeavingInv
<1>7. PlaceInv'
  BY <1>3 DEF PlaceInv, Rearm, Stored
<1>8. StateInv'
  BY <1>3 DEF StateInv
<1>9. OwedInv'
  BY <1>1, <1>3 DEF OwedInv, Rearm, RoutesToReader
<1>10. OpenedInv'
  BY <1>1, <1>3 DEF OpenedInv, Rearm
<1> QED
  BY <1>4, <1>5, <1>6, <1>7, <1>8, <1>9, <1>10

\* The boot ends on the home screen.
LEMMA RouteHomeKeeps == IInv /\ RouteHome => IInv'
<1> SUFFICES ASSUME IInv, RouteHome
             PROVE  IInv'
  OBVIOUS
<1> USE DEF IInv
<1>1. TypeOK'
  BY DEF TypeOK, RouteHome
<1>2. DebounceInv'
  BY DEF DebounceInv, RouteHome
<1>3. LeavingInv'
  BY DEF LeavingInv, RouteHome
<1>4. PlaceInv'
  BY DEF PlaceInv, RouteHome, Stored
<1>5. StateInv'
  BY DEF StateInv, RouteHome
<1>6. OwedInv'
  BY DEF OwedInv, RouteHome
<1>7. OpenedInv'
  BY DEF OpenedInv, RouteHome
<1> QED
  BY <1>1, <1>2, <1>3, <1>4, <1>5, <1>6, <1>7

\* A silent restart with the reader as its target.
LEMMA RouteSilentKeeps == IInv /\ RouteSilent => IInv'
<1> SUFFICES ASSUME IInv, RouteSilent
             PROVE  IInv'
  OBVIOUS
<1> USE DEF IInv
<1>1. TypeOK'
  BY DEF TypeOK, RouteSilent, history
<1>2. DebounceInv'
  BY DEF DebounceInv, RouteSilent
<1>3. LeavingInv'
  BY DEF LeavingInv, RouteSilent
<1>4. PlaceInv'
  BY DEF PlaceInv, RouteSilent, history, Stored
<1>5. StateInv'
  BY DEF StateInv, RouteSilent
<1>6. OwedInv'
  BY DEF OwedInv, RouteSilent
<1>7. OpenedInv'
  BY DEF OpenedInv, RouteSilent, history
<1> QED
  BY <1>1, <1>2, <1>3, <1>4, <1>5, <1>6, <1>7

\* The boot opens the reader, after it has counted the start.
LEMMA RouteReaderKeeps == IInv /\ RouteReader => IInv'
<1> SUFFICES ASSUME IInv, RouteReader
             PROVE  IInv'
  OBVIOUS
<1> USE DEF IInv
<1> DEFINE a == [app EXCEPT !.book = FALSE, !.loads = 1]
<1>1. a \in AppState /\ a.loads = 1 /\ a.fromReader = app.fromReader
  BY DEF TypeOK, AppState
<1> HIDE DEF a
<1>2. SaveState(a, "enter")
  BY DEF RouteReader, a
<1>3. /\ card' \in AppState \cup {Torn} /\ card' \in {a, card, Torn} /\ (~unsaved' => card' = a)
      /\ app' = a /\ app' \in AppState /\ step' = "enter" /\ unsaved' \in BOOLEAN
  BY <1>1, <1>2, SaveStateEffect DEF TypeOK
<1>4. TypeOK'
  BY <1>3 DEF TypeOK, RouteReader
<1>5. DebounceInv'
  BY <1>3 DEF DebounceInv, RouteReader
<1>6. LeavingInv'
  BY <1>3 DEF LeavingInv
<1>7. PlaceInv'
  BY <1>3 DEF PlaceInv, RouteReader, Stored
<1>8. StateInv'
  BY <1>3 DEF StateInv
<1>9. OwedInv'
  BY <1>3 DEF OwedInv
<1>10. OpenedInv'
  BY <1>1, <1>3 DEF OpenedInv, RouteReader
<1> QED
  BY <1>4, <1>5, <1>6, <1>7, <1>8, <1>9, <1>10

\* The user opens the book.
LEMMA OpenBookKeeps == IInv /\ OpenBook => IInv'
<1> SUFFICES ASSUME IInv, OpenBook
             PROVE  IInv'
  OBVIOUS
<1> USE DEF IInv
<1>1. TypeOK'
  BY DEF TypeOK, OpenBook
<1>2. DebounceInv'
  BY DEF DebounceInv, OpenBook
<1>3. LeavingInv'
  BY DEF LeavingInv, OpenBook
<1>4. PlaceInv'
  BY DEF PlaceInv, OpenBook, Stored
<1>5. StateInv'
  BY DEF StateInv, OpenBook
<1>6. OwedInv'
  BY DEF OwedInv, OpenBook
<1>7. OpenedInv'
  BY DEF OpenedInv, OpenBook
<1> QED
  BY <1>1, <1>2, <1>3, <1>4, <1>5, <1>6, <1>7

\* onEnter of the reader.
LEMMA EnterKeeps == IInv /\ Enter => IInv'
<1> SUFFICES ASSUME IInv, Enter
             PROVE  IInv'
  OBVIOUS
<1> USE DEF IInv
<1> DEFINE a == [app EXCEPT !.book = TRUE]
<1>1. a \in AppState /\ a.loads = app.loads /\ a.book /\ a.fromReader = app.fromReader
  BY DEF TypeOK, AppState
<1> HIDE DEF a
<1>2. SaveState(a, "reader")
  BY DEF Enter, a
<1>3. /\ card' \in AppState \cup {Torn} /\ card' \in {a, card, Torn} /\ (~unsaved' => card' = a)
      /\ app' = a /\ app' \in AppState /\ step' = "reader" /\ unsaved' \in BOOLEAN
  BY <1>1, <1>2, SaveStateEffect DEF TypeOK
<1>4. Opening \in Reader /\ Opening.count = 0 /\ Opening.last = NoPage /\ Opening.note = "none"
  <2>1. Loadable(file) \in Pages
    BY LoadableType DEF TypeOK, FileType
  <2> QED
    BY <2>1, ClosedFacts DEF Opening, Reader
<1>5. TypeOK'
  <2>1. left' \in PlaceType /\ owed' = FALSE /\ going' = "none"
    BY NowhereFacts DEF Enter, EnterVars
  <2>2. behind' \in 0 .. (Interval + MaxMissed)
    BY IntervalAssumption DEF Enter, EnterVars
  <2>3. reader' \in Reader
    BY <1>4 DEF Enter
  <2> QED
    BY <1>3, <2>1, <2>2, <2>3 DEF TypeOK, Enter, PlaceType
<1>6. DebounceInv'
  BY <1>4, IntervalAssumption DEF DebounceInv, Enter, EnterVars, TypeOK
<1>7. LeavingInv'
  BY NowhereFacts DEF LeavingInv, Enter, EnterVars
<1>8. PlaceInv'
  BY NowhereFacts DEF PlaceInv, Enter, EnterVars
<1>9. StateInv'
  BY <1>1, <1>3 DEF StateInv, Enter, EnterVars
<1>10. OwedInv'
  BY DEF OwedInv, Enter, EnterVars
<1>11. OpenedInv'
  BY <1>1, <1>3 DEF OpenedInv, Enter
<1> QED
  BY <1>5, <1>6, <1>7, <1>8, <1>9, <1>10, <1>11

\* onEnter of a quick resume, which may have painted the page already.
LEMMA EnterDirectKeeps == IInv /\ EnterDirect => IInv'
<1> SUFFICES ASSUME IInv, EnterDirect
             PROVE  IInv'
  OBVIOUS
<1> USE DEF IInv
<1>1. Opening \in Reader /\ Opening.count = 0 /\ Opening.last = NoPage /\ Opening.note = "none"
  <2>1. Loadable(file) \in Pages
    BY LoadableType DEF TypeOK, FileType
  <2> QED
    BY <2>1, ClosedFacts DEF Opening, Reader
<1> DEFINE painted == Observe([Opening EXCEPT !.section = TRUE])
<1>2. /\ painted \in Reader /\ painted.count = 0 /\ painted.note = "none"
      /\ painted.last = Loadable(file)
  BY <1>1 DEF Observe, Changed, Reader, Opening
<1> HIDE DEF painted
<1>3. reader' \in {Opening, painted}
  BY DEF EnterDirect, painted
<1>4. app' \in AppState /\ app'.book /\ app'.loads = app.loads /\ app'.fromReader = app.fromReader
  BY DEF EnterDirect, TypeOK, AppState
<1>5. TypeOK'
  <2>1. left' \in PlaceType /\ owed' = FALSE /\ going' = "none"
    BY NowhereFacts DEF EnterDirect, EnterVars
  <2>2. behind' \in 0 .. (Interval + MaxMissed)
    BY IntervalAssumption DEF EnterDirect, EnterVars
  <2>3. reader' \in Reader
    BY <1>1, <1>2, <1>3
  <2> QED
    BY <1>4, <2>1, <2>2, <2>3 DEF TypeOK, EnterDirect, PlaceType
<1>6. DebounceInv'
  BY <1>1, <1>2, <1>3, IntervalAssumption DEF DebounceInv, EnterDirect, EnterVars, TypeOK
<1>7. LeavingInv'
  BY DEF LeavingInv, EnterDirect
<1>8. PlaceInv'
  BY DEF PlaceInv, EnterDirect, EnterVars
<1>9. StateInv'
  BY DEF StateInv, EnterDirect, EnterVars
<1>10. OwedInv'
  BY DEF OwedInv, EnterDirect, EnterVars
<1>11. OpenedInv'
  BY DEF OpenedInv, EnterDirect
<1> QED
  BY <1>5, <1>6, <1>7, <1>8, <1>9, <1>10, <1>11

\* A page turn, a jump, a change of layout.
LEMMA TurnKeeps == IInv /\ Turn => IInv'
<1> SUFFICES ASSUME IInv, Turn
             PROVE  IInv'
  OBVIOUS
<1> USE DEF IInv
<1>1. /\ reader' \in Reader /\ reader'.last = reader.last /\ reader'.count = reader.count
      /\ reader'.stray = reader.stray /\ reader'.note = reader.note /\ reader'.origin = reader.origin
  BY DEF Turn, TypeOK, Reader
<1>2. TypeOK'
  BY <1>1 DEF TypeOK, Turn, Reads
<1>3. DebounceInv'
  BY DEF DebounceInv, Turn
<1>4. LeavingInv'
  BY DEF LeavingInv, Turn, Reads
<1>5. PlaceInv'
  BY DEF PlaceInv, Turn, Reads
<1>6. StateInv'
  BY DEF StateInv, Turn, Reads
<1>7. OwedInv'
  BY DEF OwedInv, Turn, Reads
<1>8. OpenedInv'
  BY DEF OpenedInv, Turn, Reads
<1> QED
  BY <1>2, <1>3, <1>4, <1>5, <1>6, <1>7, <1>8

\* A footnote is opened.
LEMMA FollowNoteKeeps == IInv /\ FollowNote => IInv'
<1> SUFFICES ASSUME IInv, FollowNote
             PROVE  IInv'
  OBVIOUS
<1> USE DEF IInv
<1>1. PICK page \in Pages, note \in {"chapter", "pending"} :
        reader' = [reader EXCEPT !.page = page, !.section = FALSE, !.note = note, !.origin = reader.page]
  BY DEF FollowNote
<1>2. /\ reader' \in Reader /\ reader'.last = reader.last /\ reader'.count = reader.count
      /\ reader'.stray = reader.stray /\ reader'.origin = reader.page
  BY <1>1 DEF TypeOK, Reader
<1>3. reader.page # NoPage
  BY PagesAssumption DEF TypeOK, Reader
<1>4. TypeOK'
  BY <1>2 DEF TypeOK, FollowNote, Reads
<1>5. DebounceInv'
  BY <1>3 DEF DebounceInv, FollowNote
<1>6. LeavingInv'
  BY DEF LeavingInv, FollowNote, Reads
<1>7. PlaceInv'
  BY DEF PlaceInv, FollowNote, Reads
<1>8. StateInv'
  BY DEF StateInv, FollowNote, Reads
<1>9. OwedInv'
  BY DEF OwedInv, FollowNote, Reads
<1>10. OpenedInv'
  BY DEF OpenedInv, FollowNote, Reads
<1> QED
  BY <1>4, <1>5, <1>6, <1>7, <1>8, <1>9, <1>10

\* A footnote is left.
LEMMA LeaveNoteKeeps == IInv /\ LeaveNote => IInv'
<1> SUFFICES ASSUME IInv, LeaveNote
             PROVE  IInv'
  OBVIOUS
<1> USE DEF IInv
<1>1. /\ reader' \in Reader /\ reader'.last = reader.last /\ reader'.count = reader.count
      /\ reader'.stray = reader.stray /\ reader'.note = "none"
  BY DEF DebounceInv, LeaveNote, TypeOK, Reader
<1>2. TypeOK'
  BY <1>1 DEF TypeOK, LeaveNote, Reads
<1>3. DebounceInv'
  BY DEF DebounceInv, LeaveNote
<1>4. LeavingInv'
  BY DEF LeavingInv, LeaveNote, Reads
<1>5. PlaceInv'
  BY DEF PlaceInv, LeaveNote, Reads
<1>6. StateInv'
  BY DEF StateInv, LeaveNote, Reads
<1>7. OwedInv'
  BY DEF OwedInv, LeaveNote, Reads
<1>8. OpenedInv'
  BY DEF OpenedInv, LeaveNote, Reads
<1> QED
  BY <1>2, <1>3, <1>4, <1>5, <1>6, <1>7, <1>8

\* The reader is left: what its place needs is stored or pending.
LEMMA LeaveKeeps == IInv /\ Leave => IInv'
<1> SUFFICES ASSUME IInv, Leave
             PROVE  IInv'
  OBVIOUS
<1> USE DEF IInv
<1>1. /\ Place(reader) \in PlaceType
      /\ Place(reader).at # NoPage =>
           IF reader.note # "none"
           THEN Place(reader).from = "preview" \/ (Place(reader).at = reader.origin /\ ~Preview(reader))
           ELSE /\ Place(reader).at = reader.last /\ Place(reader).from = "none"
                /\ reader.section /\ ~reader.stray /\ reader.last # NoPage
  BY DEF Place, TypeOK, Reader, PlaceType, Nowhere
<1>2. TypeOK'
  BY <1>1 DEF TypeOK, Leave, PlaceType
<1>3. DebounceInv'
  BY DEF DebounceInv, Leave
<1>4. LeavingInv'
  <2>1. /\ step = "reader" /\ step' = "flush" /\ left' = Place(reader) /\ reader' = reader /\ file' = file
    BY DEF Leave
  <2>2. Stored' <=> Loadable(file) = Place(reader).at
    BY <2>1 DEF Stored
  <2>3. CASE reader.note # "none"
    BY <1>1, <2>1, <2>3 DEF LeavingInv
  <2>4. CASE reader.note = "none"
    <3>1. reader.count \in Nat
      BY CountType
    <3> QED
      BY <1>1, <2>1, <2>2, <3>1 DEF DebounceInv, LeavingInv
  <2> QED
    BY <2>3, <2>4
<1>5. PlaceInv'
  BY DEF PlaceInv, Leave
<1>6. StateInv'
  BY DEF StateInv, Leave
<1>7. OwedInv'
  BY DEF OwedInv, Leave
<1>8. OpenedInv'
  BY DEF OpenedInv, Leave
<1> QED
  BY <1>2, <1>3, <1>4, <1>5, <1>6, <1>7, <1>8

\* The device goes to sleep in the reader.
LEMMA SleepKeeps == IInv /\ Sleep => IInv'
<1> SUFFICES ASSUME IInv, Sleep
             PROVE  IInv'
  OBVIOUS
<1> USE DEF IInv
<1> DEFINE a == [app EXCEPT !.fromReader = TRUE, !.splash = FALSE]
<1>1. a \in AppState /\ a.loads = app.loads /\ a.book = app.book /\ a.fromReader
  BY DEF TypeOK, AppState
<1> HIDE DEF a
<1>2. SaveState(a, "flush")
  BY DEF Sleep, a
<1>3. /\ card' \in AppState \cup {Torn} /\ card' \in {a, card, Torn} /\ (~unsaved' => card' = a)
      /\ app' = a /\ app' \in AppState /\ step' = "flush" /\ unsaved' \in BOOLEAN
  BY <1>1, <1>2, SaveStateEffect DEF TypeOK
<1>4. /\ Place(reader) \in PlaceType
      /\ Place(reader).at # NoPage =>
           IF reader.note # "none"
           THEN Place(reader).from = "preview" \/ (Place(reader).at = reader.origin /\ ~Preview(reader))
           ELSE /\ Place(reader).at = reader.last /\ Place(reader).from = "none"
                /\ reader.section /\ ~reader.stray /\ reader.last # NoPage
  BY DEF Place, TypeOK, Reader, PlaceType, Nowhere
<1>5. TypeOK'
  BY <1>3, <1>4 DEF TypeOK, Sleep, PlaceType
<1>6. DebounceInv'
  BY DEF DebounceInv, Sleep
<1>7. LeavingInv'
  <2>1. /\ step = "reader" /\ step' = "flush" /\ left' = Place(reader) /\ reader' = reader /\ file' = file
    BY <1>3 DEF Sleep
  <2>2. Stored' <=> Loadable(file) = Place(reader).at
    BY <2>1 DEF Stored
  <2>3. CASE reader.note # "none"
    BY <1>4, <2>1, <2>3 DEF LeavingInv
  <2>4. CASE reader.note = "none"
    <3>1. reader.count \in Nat
      BY CountType
    <3> QED
      BY <1>4, <2>1, <2>2, <3>1 DEF DebounceInv, LeavingInv
  <2> QED
    BY <2>3, <2>4
<1>8. PlaceInv'
  BY <1>3 DEF PlaceInv, Sleep
<1>9. StateInv'
  BY <1>1, <1>3 DEF StateInv, Sleep
<1>10. OwedInv'
  BY DEF OwedInv, Sleep
<1>11. OpenedInv'
  BY <1>1, <1>3 DEF OpenedInv, Sleep
<1> QED
  BY <1>5, <1>6, <1>7, <1>8, <1>9, <1>10, <1>11

\* flushQueuedProgress: afterwards the place of a reader outside a footnote is stored.
LEMMA FlushKeeps == IInv /\ Flush => IInv'
<1> SUFFICES ASSUME IInv, Flush
             PROVE  IInv'
  OBVIOUS
<1> USE DEF IInv
<1>1. file \in FileType /\ reader \in Reader /\ missed \in Nat /\ missed \in 0 .. MaxMissed
  BY DEF TypeOK, FileType
<1>2. CASE SaveIsCut
  BY <1>2, SaveCutKeeps DEF Flush, ExitSave
<1>3. CASE ~SaveIsCut
  <2> DEFINE needed == reader.note = "none" /\ reader.count > 0 /\ reader.section
  <2>1. /\ step = "flush" /\ step' = "clear"
        /\ UNCHANGED <<card, app, silent, going, unsaved, owed, opened>>
    BY <1>3 DEF Flush, ExitSave
  <2>2. CASE ~needed /\ UNCHANGED <<file, behind, missed, reader, left>>
    <3>1. TypeOK'
      BY <2>1, <2>2 DEF TypeOK
    <3>2. DebounceInv'
      BY <2>1, <2>2 DEF DebounceInv
    <3>3. LeavingInv'
      BY <2>1, <2>2 DEF LeavingInv, Stored
    <3>4. PlaceInv'
      BY <2>1, <2>2 DEF PlaceInv
    <3>5. StateInv'
      BY <2>1 DEF StateInv
    <3>6. OwedInv'
      BY <2>1 DEF OwedInv
    <3>7. OpenedInv'
      BY <2>1 DEF OpenedInv
    <3> QED
      BY <3>1, <3>2, <3>3, <3>4, <3>5, <3>6, <3>7
  <2>3. CASE needed /\ Saves(reader.last) /\ reader' = MarkPersisted(reader, reader.last) /\ UNCHANGED left
    <3>1. reader.last \in Pages
      BY <1>1, <2>3 DEF DebounceInv, Reader
    <3>2. /\ file' \in FileType /\ file'.path = reader.last /\ Loadable(file)' = reader.last
          /\ behind' = 0 /\ missed' = 0
      BY <1>1, <2>3, <3>1, SavesEffect
    <3>3. /\ reader' \in Reader /\ reader'.note = reader.note /\ reader'.section = reader.section
          /\ reader'.origin = reader.origin
          /\ IF reader.last \in {NoPage, reader.last}
             THEN reader'.last = reader.last /\ reader'.count = 0
             ELSE reader'.last = reader.last /\ reader'.count = reader.count
      BY <1>1, <2>3, <3>1, MarkedType
    <3>4. TypeOK'
      BY <3>2, <3>3, IntervalAssumption, <2>1, <2>3 DEF TypeOK, FileType
    <3>5. DebounceInv'
      BY <3>3, <2>1 DEF DebounceInv
    <3>6. LeavingInv'
      BY <3>2, <3>3, <2>1, <2>3 DEF LeavingInv, Stored
    <3>7. PlaceInv'
      BY <3>2, <2>1, <2>3 DEF PlaceInv, LeavingInv
    <3>8. StateInv'
      BY <2>1 DEF StateInv
    <3>9. OwedInv'
      BY <2>1 DEF OwedInv
    <3>10. OpenedInv'
      BY <2>1 DEF OpenedInv
    <3> QED
      BY <3>4, <3>5, <3>6, <3>7, <3>8, <3>9, <3>10
  <2>4. CASE needed /\ SaveFails /\ left' = Nowhere /\ UNCHANGED <<reader, behind>>
    <3>1. file' \in FileType /\ missed' \in 0 .. MaxMissed
      BY <1>1, <2>4, SaveFailsEffect
    <3>2. TypeOK'
      BY <3>1, NowhereFacts, <2>1, <2>4 DEF TypeOK, FileType, PlaceType
    <3>3. DebounceInv'
      BY <2>1, <2>4 DEF DebounceInv
    <3>4. LeavingInv'
      BY NowhereFacts, <2>4 DEF LeavingInv
    <3>5. PlaceInv'
      BY NowhereFacts, <2>4 DEF PlaceInv
    <3>6. StateInv'
      BY <2>1 DEF StateInv
    <3>7. OwedInv'
      BY <2>1 DEF OwedInv
    <3>8. OpenedInv'
      BY <2>1 DEF OpenedInv
    <3> QED
      BY <3>2, <3>3, <3>4, <3>5, <3>6, <3>7, <3>8
  <2> QED
    BY <1>3, <2>2, <2>3, <2>4 DEF Flush, ExitSave
<1> QED
  BY <1>2, <1>3

\* The save of the link's origin: afterwards the place of a reader in a footnote is stored.
LEMMA SaveOriginKeeps == IInv /\ SaveOrigin => IInv'
<1> SUFFICES ASSUME IInv, SaveOrigin
             PROVE  IInv'
  OBVIOUS
<1> USE DEF IInv
<1>1. file \in FileType /\ reader \in Reader /\ missed \in Nat /\ missed \in 0 .. MaxMissed
  BY DEF TypeOK, FileType
<1>2. CASE SaveIsCut
  BY <1>2, SaveCutKeeps DEF SaveOrigin, ExitSave
<1>3. CASE ~SaveIsCut
  <2> DEFINE needed == reader.note # "none" /\ ~Preview(reader)
  <2>1. /\ step = "origin" /\ step' = "left"
        /\ UNCHANGED <<card, app, silent, going, unsaved, owed, opened>>
    BY <1>3 DEF SaveOrigin, ExitSave
  <2>2. CASE ~needed /\ UNCHANGED <<file, behind, missed, reader, left>>
    <3>1. TypeOK'
      BY <2>1, <2>2 DEF TypeOK
    <3>2. DebounceInv'
      BY <2>1, <2>2 DEF DebounceInv
    <3>3. LeavingInv'
      BY <2>1 DEF LeavingInv
    <3>4. PlaceInv'
      BY <2>1, <2>2 DEF PlaceInv, LeavingInv, Stored
    <3>5. StateInv'
      BY <2>1 DEF StateInv
    <3>6. OwedInv'
      BY <2>1 DEF OwedInv
    <3>7. OpenedInv'
      BY <2>1 DEF OpenedInv
    <3> QED
      BY <3>1, <3>2, <3>3, <3>4, <3>5, <3>6, <3>7
  <2>3. CASE needed /\ Saves(reader.origin) /\ reader' = MarkPersisted(reader, reader.origin) /\ UNCHANGED left
    <3>1. reader.origin \in Pages
      BY <1>1, <2>3 DEF DebounceInv, Reader
    <3>2. /\ file' \in FileType /\ file'.path = reader.origin /\ Loadable(file)' = reader.origin
          /\ behind' = 0 /\ missed' = 0
      BY <1>1, <2>3, <3>1, SavesEffect
    <3>3. /\ reader' \in Reader /\ reader'.note = reader.note /\ reader'.section = reader.section
          /\ reader'.origin = reader.origin
          /\ IF reader.last \in {NoPage, reader.origin}
             THEN reader'.last = reader.origin /\ reader'.count = 0
             ELSE reader'.last = reader.last /\ reader'.count = reader.count
      BY <1>1, <2>3, <3>1, MarkedType
    <3>4. TypeOK'
      BY <3>2, <3>3, IntervalAssumption, <2>1, <2>3 DEF TypeOK, FileType
    <3>5. DebounceInv'
      BY <3>3, <2>1 DEF DebounceInv
    <3>6. LeavingInv'
      BY <2>1 DEF LeavingInv
    <3>7. PlaceInv'
      BY <3>2, <2>1, <2>3 DEF PlaceInv, LeavingInv, Stored
    <3>8. StateInv'
      BY <2>1 DEF StateInv
    <3>9. OwedInv'
      BY <2>1 DEF OwedInv
    <3>10. OpenedInv'
      BY <2>1 DEF OpenedInv
    <3> QED
      BY <3>4, <3>5, <3>6, <3>7, <3>8, <3>9, <3>10
  <2>4. CASE needed /\ SaveFails /\ left' = Nowhere /\ UNCHANGED <<reader, behind>>
    <3>1. file' \in FileType /\ missed' \in 0 .. MaxMissed
      BY <1>1, <2>4, SaveFailsEffect
    <3>2. TypeOK'
      BY <3>1, NowhereFacts, <2>1, <2>4 DEF TypeOK, FileType, PlaceType
    <3>3. DebounceInv'
      BY <2>1, <2>4 DEF DebounceInv
    <3>4. LeavingInv'
      BY <2>1 DEF LeavingInv
    <3>5. PlaceInv'
      BY NowhereFacts, <2>4 DEF PlaceInv
    <3>6. StateInv'
      BY <2>1 DEF StateInv
    <3>7. OwedInv'
      BY <2>1 DEF OwedInv
    <3>8. OpenedInv'
      BY <2>1 DEF OpenedInv
    <3> QED
      BY <3>2, <3>3, <3>4, <3>5, <3>6, <3>7, <3>8
  <2> QED
    BY <1>3, <2>2, <2>3, <2>4 DEF SaveOrigin, ExitSave
<1> QED
  BY <1>2, <1>3

\* The exit forgets the start that was counted.
LEMMA ClearCountKeeps == IInv /\ ClearCount => IInv'
<1> SUFFICES ASSUME IInv, ClearCount
             PROVE  IInv'
  OBVIOUS
<1> USE DEF IInv
<1> DEFINE a == [app EXCEPT !.loads = 0]
<1>1. a \in AppState /\ a.loads = 0 /\ a.book = app.book /\ a.fromReader = app.fromReader
  BY DEF TypeOK, AppState
<1> HIDE DEF a
<1>2. SaveState(a, "origin")
  BY DEF ClearCount, a
<1>3. /\ card' \in AppState \cup {Torn} /\ card' \in {a, card, Torn} /\ (~unsaved' => card' = a)
      /\ app' = a /\ app' \in AppState /\ step' = "origin" /\ unsaved' \in BOOLEAN
  BY <1>1, <1>2, SaveStateEffect DEF TypeOK
<1>4. TypeOK'
  BY <1>3 DEF TypeOK, ClearCount
<1>5. DebounceInv'
  BY <1>3 DEF DebounceInv, ClearCount
<1>6. LeavingInv'
  BY <1>3 DEF LeavingInv, ClearCount, Stored
<1>7. PlaceInv'
  BY <1>3 DEF PlaceInv, ClearCount
<1>8. StateInv'
  BY <1>1, <1>3 DEF StateInv, ClearCount
<1>9. OwedInv'
  BY DEF OwedInv, ClearCount
<1>10. OpenedInv'
  BY DEF OpenedInv, ClearCount
<1> QED
  BY <1>4, <1>5, <1>6, <1>7, <1>8, <1>9, <1>10

\* The reader is closed, and what it was left for begins.
LEMMA LeftKeeps == IInv /\ Left => IInv'
<1> SUFFICES ASSUME IInv, Left
             PROVE  IInv'
  OBVIOUS
<1> USE DEF IInv
<1>1. reader' = Closed /\ Closed \in Reader /\ Closed.count = 0 /\ Closed.note = "none"
  BY ClosedFacts DEF Left
<1>2. /\ step = "left" /\ going \in {"home", "sleep", "sync"} /\ going' = "none" /\ step' \in {"off", "home", "sync"}
      /\ step' = "sync" => going = "sync"
  BY DEF Left, Off, StateInv
<1>3. /\ app' \in AppState /\ behind' \in 0 .. (Interval + MaxMissed) /\ missed' \in 0 .. MaxMissed
      /\ unsaved' \in BOOLEAN /\ owed' \in BOOLEAN
  <2>1. CASE going = "sleep"
    <3>1. app' = Defaults /\ behind' = 0 /\ missed' = 0 /\ unsaved' = FALSE
      BY <2>1 DEF Left, Off
    <3>2. owed' = (app.fromReader /\ ~unsaved)
      BY <2>1 DEF Left
    <3>3. app.fromReader \in BOOLEAN /\ unsaved \in BOOLEAN
      BY DEF TypeOK, AppState
    <3>4. owed' = TRUE \/ owed' = FALSE
      <4>1. CASE app.fromReader = TRUE /\ unsaved = FALSE
        BY <3>2, <4>1
      <4>2. CASE app.fromReader = FALSE
        BY <3>2, <4>2
      <4>3. CASE app.fromReader = TRUE /\ unsaved = TRUE
        BY <3>2, <4>3
      <4> QED
        BY <3>3, <4>1, <4>2, <4>3
    <3>5. app' \in AppState /\ behind' \in 0 .. (Interval + MaxMissed) /\ missed' \in 0 .. MaxMissed
      BY <3>1, DefaultsFacts, IntervalAssumption
    <3>6. unsaved' \in BOOLEAN
      BY <3>1
    <3>7. owed' \in BOOLEAN
      BY <3>4
    <3> QED
      BY <3>5, <3>6, <3>7
  <2>2. CASE going # "sleep"
    BY <2>2 DEF Left, TypeOK
  <2> QED
    BY <2>1, <2>2
<1>4. TypeOK'
  BY <1>1, <1>2, <1>3 DEF TypeOK, Left
<1>5. DebounceInv'
  BY <1>1, <1>2 DEF DebounceInv
<1>6. LeavingInv'
  BY <1>2 DEF LeavingInv
<1>7. PlaceInv'
  BY DEF PlaceInv, Left, Off, Stored
<1>8. StateInv'
  BY DEF StateInv, Left, Off
<1>9. OwedInv'
  <2>1. CASE going = "sleep"
    <3>1. step' = "off" /\ (owed' => app.fromReader /\ ~unsaved) /\ card' = card /\ app \in AppState
      BY <2>1 DEF Left, Off, TypeOK
    <3>2. owed' => card' = app /\ app.book /\ app.loads = 0 /\ app.fromReader
      BY <1>2, <3>1 DEF StateInv
    <3> QED
      BY <3>1, <3>2, TornAssumption DEF OwedInv
  <2>2. CASE going # "sleep"
    BY <2>2 DEF Left, OwedInv
  <2> QED
    BY <2>1, <2>2
<1>10. OpenedInv'
  BY DefaultsFacts DEF OpenedInv, Left, Off
<1> QED
  BY <1>4, <1>5, <1>6, <1>7, <1>8, <1>9, <1>10

\* A sync restarts into the reader: state.json leads back to it.
LEMMA RestartToReaderKeeps == IInv /\ RestartToReader => IInv'
<1> SUFFICES ASSUME IInv, RestartToReader
             PROVE  IInv'
  OBVIOUS
<1> USE DEF IInv
<1>1. /\ step' = "off" /\ app' = Defaults /\ app' \in AppState /\ behind' = 0 /\ missed' = 0 /\ unsaved' = FALSE
      /\ 0 \in 0 .. (Interval + MaxMissed) /\ 0 \in 0 .. MaxMissed
  BY DefaultsFacts, IntervalAssumption DEF RestartToReader, Off
<1>2. owed' \in BOOLEAN /\ (owed' <=> ~unsaved) /\ step = "sync"
  BY DEF RestartToReader
<1>3. TypeOK'
  BY <1>1 DEF TypeOK, RestartToReader
<1>4. DebounceInv'
  BY <1>1 DEF DebounceInv, RestartToReader
<1>5. LeavingInv'
  BY <1>1 DEF LeavingInv
<1>6. PlaceInv'
  BY DEF PlaceInv, RestartToReader, Stored
<1>7. StateInv'
  BY <1>1 DEF StateInv
<1>8. OwedInv'
  <2>1. card' = card /\ silent' = TRUE /\ app \in AppState
    BY DEF RestartToReader, TypeOK
  <2>2. owed' => card' = app /\ app.book
    BY <1>2, <2>1 DEF StateInv
  <2> QED
    BY <1>1, <2>1, <2>2, TornAssumption DEF OwedInv
<1>9. OpenedInv'
  BY DEF OpenedInv, RestartToReader
<1> QED
  BY <1>3, <1>4, <1>5, <1>6, <1>7, <1>8, <1>9

\* The device goes to sleep at home or in a sync.
LEMMA SleepElsewhereKeeps == IInv /\ SleepElsewhere => IInv'
<1> SUFFICES ASSUME IInv, SleepElsewhere
             PROVE  IInv'
  OBVIOUS
<1> USE DEF IInv
<1> DEFINE a == [app EXCEPT !.fromReader = (step = "sync"), !.splash = FALSE]
<1>1. a \in AppState /\ a.loads = app.loads /\ a.book = app.book /\ a.fromReader = (step = "sync")
  BY DEF TypeOK, AppState
<1> HIDE DEF a
<1>2. SaveState(a, "left")
  BY DEF SleepElsewhere, a
<1>3. /\ card' \in AppState \cup {Torn} /\ card' \in {a, card, Torn} /\ (~unsaved' => card' = a)
      /\ app' = a /\ app' \in AppState /\ step' = "left" /\ unsaved' \in BOOLEAN
  BY <1>1, <1>2, SaveStateEffect DEF TypeOK
<1>4. TypeOK'
  BY <1>3 DEF TypeOK, SleepElsewhere
<1>5. DebounceInv'
  BY <1>3 DEF DebounceInv, SleepElsewhere
<1>6. LeavingInv'
  BY <1>3 DEF LeavingInv
<1>7. PlaceInv'
  BY <1>3 DEF PlaceInv, SleepElsewhere, Stored
<1>8. StateInv'
  BY <1>1, <1>3 DEF StateInv, SleepElsewhere
<1>9. OwedInv'
  BY DEF OwedInv, SleepElsewhere
<1>10. OpenedInv'
  BY <1>1, <1>3 DEF OpenedInv, SleepElsewhere
<1> QED
  BY <1>4, <1>5, <1>6, <1>7, <1>8, <1>9, <1>10

\* The power goes outside a save of progress.bin.
LEMMA PowerLossKeeps == IInv /\ PowerLoss => IInv'
<1> SUFFICES ASSUME IInv, PowerLoss
             PROVE  IInv'
  OBVIOUS
<1>1. file' \in Interrupted(file) /\ file' = file
  BY DEF PowerLoss, Interrupted
<1>2. LosePower /\ step # "off" /\ card' \in {card, Torn} /\ opened' = opened
  BY DEF PowerLoss
<1> QED
  BY <1>1, <1>2, CutKeeps

\* A sync stores the place that the user takes over.
LEMMA TakePlaceKeeps == IInv /\ TakePlace => IInv'
<1> SUFFICES ASSUME IInv, TakePlace
             PROVE  IInv'
  OBVIOUS
<1> USE DEF IInv
<1>1. step = "sync" /\ file \in FileType /\ missed \in Nat
  BY DEF TakePlace, TypeOK, FileType
<1> DEFINE quiet == UNCHANGED <<card, app, silent, step, going, reader, unsaved, owed, opened>>
<1>2. CASE SaveIsCut
  BY <1>1, <1>2, SaveCutKeeps
<1>3. ASSUME NEW page \in Pages, Saves(page), left' = [at |-> page, from |-> "none"], quiet
      PROVE  IInv'
  <2>1. file' \in FileType /\ file'.path = page /\ Loadable(file)' = page /\ behind' = 0 /\ missed' = 0
    BY <1>1, <1>3, SavesEffect
  <2>2. TypeOK'
    BY <1>3, <2>1, IntervalAssumption DEF TypeOK, FileType
  <2>3. DebounceInv'
    BY <1>1, <1>3 DEF DebounceInv
  <2>4. LeavingInv'
    BY <1>1, <1>3 DEF LeavingInv
  <2>5. PlaceInv'
    BY <1>3, <2>1 DEF PlaceInv, Stored
  <2>6. StateInv'
    BY <1>3 DEF StateInv
  <2>7. OwedInv'
    BY <1>3 DEF OwedInv, RoutesToReader
  <2>8. OpenedInv'
    BY <1>3 DEF OpenedInv
  <2> QED
    BY <2>2, <2>3, <2>4, <2>5, <2>6, <2>7, <2>8
<1>4. CASE SaveFails /\ left' = Nowhere /\ behind' = behind /\ quiet
  <2>1. file' \in FileType /\ missed' \in 0 .. MaxMissed
    BY <1>1, <1>4, SaveFailsEffect
  <2>2. TypeOK'
    BY <1>4, <2>1, NowhereFacts DEF TypeOK, FileType, PlaceType
  <2>3. DebounceInv'
    BY <1>1, <1>4 DEF DebounceInv
  <2>4. LeavingInv'
    BY <1>4, NowhereFacts DEF LeavingInv
  <2>5. PlaceInv'
    BY <1>4, NowhereFacts DEF PlaceInv
  <2>6. StateInv'
    BY <1>4 DEF StateInv
  <2>7. OwedInv'
    BY <1>4 DEF OwedInv, RoutesToReader
  <2>8. OpenedInv'
    BY <1>4 DEF OpenedInv
  <2> QED
    BY <2>2, <2>3, <2>4, <2>5, <2>6, <2>7, <2>8
<1> QED
  BY <1>2, <1>3, <1>4 DEF TakePlace

\* A position sync starts: it saves the page, or the reader stays.
LEMMA StartSyncKeeps == IInv /\ StartSync => IInv'
<1> SUFFICES ASSUME IInv, StartSync
             PROVE  IInv'
  OBVIOUS
<1> USE DEF IInv
<1>1. /\ step = "reader" /\ file \in FileType /\ missed \in Nat /\ reader \in Reader
      /\ reader.page \in Pages
  BY DEF StartSync, TypeOK, FileType, Reader
<1>2. CASE SaveIsCut
  BY <1>1, <1>2, SaveCutKeeps
<1> DEFINE marked == MarkPersisted(reader, reader.page)
           place == IF reader.note = "none" THEN [at |-> reader.page, from |-> "none"] ELSE Place(reader)
<1>3. CASE /\ ~Preview(reader) /\ Saves(reader.page) /\ reader' = [marked EXCEPT !.section = FALSE]
           /\ step' = "flush" /\ going' = "sync" /\ left' = place
           /\ UNCHANGED <<card, app, silent, unsaved, owed, opened>>
  <2>1. /\ file' \in FileType /\ file'.path = reader.page /\ Loadable(file)' = reader.page
        /\ behind' = 0 /\ missed' = 0 /\ reader.page # NoPage
    BY <1>1, <1>3, SavesEffect, PagesAssumption
  <2>2. marked \in Reader /\ marked.note = reader.note /\ marked.origin = reader.origin
    BY <1>1, MarkedType
  <2>3. marked.count > 0 => marked.last # NoPage
    BY <1>1, MarkedType
  <2> HIDE DEF marked
  <2>4. /\ reader' \in Reader /\ reader'.note = reader.note /\ reader'.origin = reader.origin
        /\ reader'.section = FALSE /\ reader'.count = marked.count /\ reader'.last = marked.last
    BY <1>3, <2>2 DEF Reader
  <2>5. /\ left' \in PlaceType /\ left'.from # "preview"
        /\ IF reader.note = "none" THEN left'.at = reader.page ELSE left'.at = reader.origin
    BY <1>1, <1>3 DEF Place, PlaceType, Reader
  <2>6. ~Preview(reader)'
    BY <1>3, <2>4 DEF Preview
  <2>7. TypeOK'
    BY <1>3, <2>1, <2>4, <2>5, IntervalAssumption DEF TypeOK, FileType, PlaceType
  <2>8. DebounceInv'
    BY <1>3, <2>3, <2>4 DEF DebounceInv
  <2>9. LeavingInv'
    BY <2>1, <2>4, <2>5, <2>6 DEF LeavingInv, Stored
  <2>10. PlaceInv'
    BY <1>3, <2>1, <2>5 DEF PlaceInv
  <2>11. StateInv'
    BY <1>1, <1>3 DEF StateInv
  <2>12. OwedInv'
    BY <1>1, <1>3 DEF OwedInv
  <2>13. OpenedInv'
    BY <1>1, <1>3 DEF OpenedInv
  <2> QED
    BY <2>7, <2>8, <2>9, <2>10, <2>11, <2>12, <2>13
<1>4. CASE /\ Reads /\ SaveFails /\ UNCHANGED <<step, going, behind>>
           /\ reader' = [reader EXCEPT !.stray = @ \/ reader.count = 0]
  <2>1. file' \in FileType /\ missed' = missed + 1 /\ missed' \in 0 .. MaxMissed
    BY <1>1, <1>4, SaveFailsEffect
  <2>2. /\ reader' \in Reader /\ reader'.note = reader.note /\ reader'.origin = reader.origin
        /\ reader'.count = reader.count /\ reader'.last = reader.last
        /\ (reader'.count = 0 => reader'.stray)
    BY <1>1, <1>4 DEF Reader
  <2>3. reader.count \in Nat /\ behind \in Nat
    BY CountType
  <2>4. TypeOK'
    BY <1>4, <2>1, <2>2 DEF TypeOK, Reads, FileType
  <2>5. DebounceInv'
    BY <1>1, <1>4, <2>1, <2>2, <2>3, IntervalAssumption DEF DebounceInv
  <2>6. LeavingInv'
    BY <1>4 DEF LeavingInv, Reads
  <2>7. PlaceInv'
    BY <1>4 DEF PlaceInv, Reads, StateInv
  <2>8. StateInv'
    BY <1>4 DEF StateInv, Reads
  <2>9. OwedInv'
    BY <1>4 DEF OwedInv, Reads
  <2>10. OpenedInv'
    BY <1>4 DEF OpenedInv, Reads
  <2> QED
    BY <2>4, <2>5, <2>6, <2>7, <2>8, <2>9, <2>10
<1>5. CASE /\ Preview(reader) /\ reader' = [reader EXCEPT !.section = FALSE]
           /\ step' = "flush" /\ going' = "sync" /\ left' = Place(reader)
           /\ UNCHANGED <<file, card, app, silent, behind, missed, unsaved, owed, opened>>
  <2>1. /\ reader' \in Reader /\ reader'.note = "preview" /\ reader'.origin = reader.origin
        /\ reader'.count = reader.count /\ reader'.last = reader.last
    BY <1>1, <1>5 DEF Reader, Preview
  <2>2. left' \in PlaceType /\ (left'.at # NoPage => left'.from = "preview")
    BY <1>1, <1>5 DEF Place, Preview, PlaceType, Nowhere, Reader
  <2>3. TypeOK'
    BY <1>5, <2>1, <2>2 DEF TypeOK, PlaceType
  <2>4. DebounceInv'
    BY <1>5, <2>1 DEF DebounceInv, Preview
  <2>5. LeavingInv'
    BY <2>1, <2>2 DEF LeavingInv
  <2>6. PlaceInv'
    BY <2>2 DEF PlaceInv
  <2>7. StateInv'
    BY <1>1, <1>5 DEF StateInv
  <2>8. OwedInv'
    BY <1>1, <1>5 DEF OwedInv
  <2>9. OpenedInv'
    BY <1>1, <1>5 DEF OpenedInv
  <2> QED
    BY <2>3, <2>4, <2>5, <2>6, <2>7, <2>8, <2>9
<1> QED
  BY <1>2, <1>3, <1>4, <1>5 DEF StartSync

\* The file transfer is opened from the reader, or the cache deleted.
LEMMA SaveAndLeaveKeeps ==
  ASSUME NEW section \in BOOLEAN, IInv, SaveAndLeave(section)
  PROVE  IInv'
<1> USE DEF IInv
<1>1. /\ step = "reader" /\ ~Preview(reader) /\ file \in FileType /\ missed \in Nat /\ reader \in Reader
      /\ reader.page \in Pages /\ reader.section
  BY DEF SaveAndLeave, TypeOK, FileType, Reader
<1>2. CASE SaveIsCut
  BY <1>1, <1>2, SaveCutKeeps
<1> DEFINE marked == MarkPersisted(reader, reader.page)
           settled == [reader EXCEPT !.stray = FALSE]
           leaves == step' = "flush" /\ going' = "home" /\ UNCHANGED <<card, app, silent, unsaved, owed, opened>>
<1>3. CASE /\ Saves(reader.page) /\ reader' = [marked EXCEPT !.section = section]
           /\ left' = Place(settled) /\ leaves
  <2>1. /\ file' \in FileType /\ file'.path = reader.page /\ Loadable(file)' = reader.page
        /\ behind' = 0 /\ missed' = 0 /\ reader.page # NoPage
    BY <1>1, <1>3, SavesEffect, PagesAssumption
  <2>2. /\ marked \in Reader /\ marked.note = reader.note /\ marked.origin = reader.origin
        /\ IF reader.last \in {NoPage, reader.page}
           THEN marked.last = reader.page /\ marked.count = 0
           ELSE marked.last = reader.last /\ marked.count = reader.count
    BY <1>1, MarkedType
  <2> HIDE DEF marked
  <2>13. /\ reader' \in Reader /\ reader'.note = marked.note /\ reader'.origin = marked.origin
         /\ reader'.last = marked.last /\ reader'.count = marked.count
    BY <1>3, <2>2 DEF Reader
  <2>3. /\ settled.note = reader.note /\ settled.section = reader.section /\ settled.page = reader.page
        /\ settled.last = reader.last /\ settled.origin = reader.origin /\ settled \in Reader
    BY <1>1 DEF Reader
  <2>4. ~Preview(settled) /\ ~Preview(reader)'
    BY <1>1, <2>2, <2>3, <2>13 DEF Preview
  <2> HIDE DEF settled
  <2>5. /\ left' \in PlaceType
        /\ IF reader.note # "none" THEN left'.at = reader.origin
           ELSE left'.at # NoPage => left'.at = reader.page /\ reader.page = reader.last
    BY <1>3, <2>3, <2>4 DEF Place, PlaceType, Reader, Nowhere
  <2>6. TypeOK'
    BY <1>3, <2>1, <2>5, <2>13, IntervalAssumption DEF TypeOK, FileType, PlaceType
  <2>7. DebounceInv'
    BY <1>3, <2>2, <2>13 DEF DebounceInv
  <2>8. LeavingInv'
    BY <2>1, <2>2, <2>4, <2>5, <2>13 DEF LeavingInv, Stored
  <2>9. PlaceInv'
    BY <1>3 DEF PlaceInv
  <2>10. StateInv'
    BY <1>1, <1>3 DEF StateInv
  <2>11. OwedInv'
    BY <1>1, <1>3 DEF OwedInv
  <2>12. OpenedInv'
    BY <1>1, <1>3 DEF OpenedInv
  <2> QED
    BY <2>6, <2>7, <2>8, <2>9, <2>10, <2>11, <2>12
<1>4. CASE /\ SaveFails /\ left' = Nowhere /\ UNCHANGED behind
           /\ reader' = [reader EXCEPT !.section = section] /\ leaves
  <2>1. file' \in FileType /\ missed' \in 0 .. MaxMissed
    BY <1>1, <1>4, SaveFailsEffect
  <2>9. /\ reader' \in Reader /\ reader'.note = reader.note /\ reader'.origin = reader.origin
        /\ reader'.last = reader.last /\ reader'.count = reader.count
    BY <1>1, <1>4 DEF Reader
  <2>2. TypeOK'
    BY <1>4, <2>1, <2>9, NowhereFacts DEF TypeOK, FileType, PlaceType
  <2>3. DebounceInv'
    BY <1>4, <2>9 DEF DebounceInv
  <2>4. LeavingInv'
    BY <1>4, NowhereFacts DEF LeavingInv
  <2>5. PlaceInv'
    BY <1>4 DEF PlaceInv
  <2>6. StateInv'
    BY <1>1, <1>4 DEF StateInv
  <2>7. OwedInv'
    BY <1>1, <1>4 DEF OwedInv
  <2>8. OpenedInv'
    BY <1>1, <1>4 DEF OpenedInv
  <2> QED
    BY <2>2, <2>3, <2>4, <2>5, <2>6, <2>7, <2>8
<1> QED
  BY <1>2, <1>3, <1>4 DEF SaveAndLeave

\* render() and queueProgressSave: what is not stored is counted, and the count stays below Interval
\* but for the saves that failed.
LEMMA DrawKeeps == IInv /\ Draw => IInv'
<1> SUFFICES ASSUME IInv, Draw
             PROVE  IInv'
  OBVIOUS
<1> USE DEF IInv
<1> DEFINE drawn == [reader EXCEPT !.section = TRUE, !.note = IF @ = "pending" THEN "preview" ELSE @]
           seen == [Observe(drawn) EXCEPT !.stray =
                      IF reader.last = NoPage THEN reader.page # Loadable(file) ELSE @ /\ ~Changed(drawn)]
           moved == reader.last # NoPage /\ reader.page # reader.last
           more == IF Changed(drawn) THEN behind + 1 ELSE behind
<1>1. /\ step = "reader" /\ file \in FileType /\ reader \in Reader /\ reader.page \in Pages
      /\ missed \in Nat /\ missed \in 0 .. MaxMissed /\ reader.count \in Nat /\ behind \in Nat
      /\ reader.stray \in BOOLEAN
  BY DEF Draw, TypeOK, FileType, Reader
<1>2. behind <= reader.count /\ reader.count < Interval + missed
  BY <1>1 DEF DebounceInv
<1>3. /\ drawn \in Reader /\ drawn.page = reader.page /\ drawn.last = reader.last
      /\ (drawn.note = "none" <=> reader.note = "none")
      /\ drawn.origin = reader.origin /\ drawn.count = reader.count /\ drawn.stray = reader.stray
      /\ (Changed(drawn) <=> moved)
  BY <1>1 DEF Reader, Changed
<1>4. more = IF moved THEN behind + 1 ELSE behind
  BY <1>3
<1>5. /\ seen.page = reader.page /\ seen.last = reader.page /\ (seen.note = "none" <=> reader.note = "none")
      /\ seen.origin = reader.origin /\ seen.count = (IF moved THEN reader.count + 1 ELSE reader.count)
      /\ seen.stray = (IF reader.last = NoPage THEN reader.page # Loadable(file) ELSE reader.stray /\ ~moved)
      /\ seen \in Reader
  <2> DEFINE count == IF moved THEN reader.count + 1 ELSE reader.count
             stray == IF reader.last = NoPage THEN reader.page # Loadable(file) ELSE reader.stray /\ ~moved
  <2>1. count \in 0 .. (Interval + MaxMissed)
    BY <1>1, <1>2, IntervalAssumption
  <2>2. seen = [drawn EXCEPT !.last = reader.page, !.count = count, !.stray = stray]
    BY <1>3 DEF Observe
  <2> HIDE DEF count, stray, drawn, seen
  <2> QED
    BY <1>3, <2>1, <2>2 DEF count, stray, Reader
<1> DEFINE kept == Reads /\ UNCHANGED <<step, going>>
<1>6. CASE SaveIsCut
  BY <1>1, <1>6, SaveCutKeeps
<1>7. CASE kept /\ reader' = drawn /\ UNCHANGED <<file, behind, missed>>
  <2> HIDE DEF drawn, seen, more
  <2>1. TypeOK'
    BY <1>3, <1>7 DEF TypeOK, Reads
  <2>2. DebounceInv'
    BY <1>3, <1>7 DEF DebounceInv
  <2>3. LeavingInv'
    BY <1>7 DEF LeavingInv, Reads
  <2>4. PlaceInv'
    BY <1>7 DEF PlaceInv, Reads
  <2>5. StateInv'
    BY <1>7 DEF StateInv, Reads
  <2>6. OwedInv'
    BY <1>7 DEF OwedInv, Reads
  <2>7. OpenedInv'
    BY <1>7 DEF OpenedInv, Reads
  <2> QED
    BY <2>1, <2>2, <2>3, <2>4, <2>5, <2>6, <2>7
<1>8. CASE kept /\ ~(Changed(drawn) /\ Due(seen)) /\ reader' = seen /\ behind' = more /\ UNCHANGED <<file, missed>>
  <2>1. moved => seen.count < Interval
    BY <1>1, <1>3, <1>5, <1>8, IntervalAssumption DEF Due
  <2> HIDE DEF drawn, seen, more
  <2>2. behind' <= reader'.count /\ reader'.count < Interval + missed
    BY <1>1, <1>2, <1>4, <1>5, <1>8, <2>1, IntervalAssumption
  <2>3. reader'.count = 0 /\ ~reader'.stray => Loadable(file) = reader'.last
    <3>1. CASE moved
      BY <1>1, <1>5, <1>8, <3>1
    <3>2. CASE reader.last = NoPage
      BY <1>5, <1>8, <3>2
    <3>3. CASE reader.last # NoPage /\ ~moved
      BY <1>1, <1>5, <1>8, <3>3 DEF DebounceInv
    <3> QED
      BY <3>1, <3>2, <3>3
  <2>4. behind' \in 0 .. (Interval + MaxMissed)
    <3>1. behind' \in Nat /\ reader'.count \in Nat
      BY <1>1, <1>4, <1>5, <1>8
    <3> QED
      BY <1>1, <2>2, <3>1, IntervalAssumption
  <2>5. TypeOK'
    BY <1>5, <1>8, <2>4 DEF TypeOK, Reads
  <2>6. DebounceInv'
    BY <1>1, <1>5, <1>8, <2>2, <2>3, PagesAssumption DEF DebounceInv
  <2>7. LeavingInv'
    BY <1>8 DEF LeavingInv, Reads
  <2>8. PlaceInv'
    BY <1>8 DEF PlaceInv, Reads
  <2>9. StateInv'
    BY <1>8 DEF StateInv, Reads
  <2>10. OwedInv'
    BY <1>8 DEF OwedInv, Reads
  <2>11. OpenedInv'
    BY <1>8 DEF OpenedInv, Reads
  <2> QED
    BY <2>5, <2>6, <2>7, <2>8, <2>9, <2>10, <2>11
<1>9. CASE kept /\ Saves(seen.page) /\ reader' = MarkPersisted(seen, seen.page)
  <2> HIDE DEF drawn, seen, more
  <2>1. /\ file' \in FileType /\ Loadable(file)' = reader.page /\ behind' = 0 /\ missed' = 0
    BY <1>1, <1>5, <1>9, SavesEffect
  <2>2. reader' \in Reader /\ (reader'.note = "none" <=> reader.note = "none") /\ reader'.origin = reader.origin
        /\ reader'.last = reader.page /\ reader'.count = 0
    BY <1>1, <1>5, <1>9, MarkedType
  <2>3. TypeOK'
    BY <1>9, <2>1, <2>2, IntervalAssumption DEF TypeOK, Reads, FileType
  <2>4. DebounceInv'
    BY <2>1, <2>2, IntervalAssumption DEF DebounceInv
  <2>5. LeavingInv'
    BY <1>9 DEF LeavingInv, Reads
  <2>6. PlaceInv'
    BY <1>9 DEF PlaceInv, Reads, StateInv
  <2>7. StateInv'
    BY <1>9 DEF StateInv, Reads
  <2>8. OwedInv'
    BY <1>9 DEF OwedInv, Reads
  <2>9. OpenedInv'
    BY <1>9 DEF OpenedInv, Reads
  <2> QED
    BY <2>3, <2>4, <2>5, <2>6, <2>7, <2>8, <2>9
<1>10. CASE kept /\ Changed(drawn) /\ SaveFails /\ reader' = seen /\ behind' = more
  <2>1. moved
    BY <1>3, <1>10
  <2> HIDE DEF drawn, seen, more
  <2>2. file' \in FileType /\ missed' = missed + 1 /\ missed' \in 0 .. MaxMissed
    BY <1>1, <1>10, SaveFailsEffect
  <2>3. behind' = behind + 1 /\ reader'.count = reader.count + 1
    BY <1>4, <1>5, <1>10, <2>1
  <2>4. /\ behind' <= reader'.count /\ reader'.count < Interval + missed' /\ reader'.count # 0
        /\ behind' \in 0 .. (Interval + MaxMissed)
    BY <1>1, <1>2, <2>2, <2>3, IntervalAssumption
  <2>5. TypeOK'
    BY <1>5, <1>10, <2>2, <2>4 DEF TypeOK, Reads, FileType
  <2>6. DebounceInv'
    BY <1>1, <1>5, <1>10, <2>4, PagesAssumption DEF DebounceInv
  <2>7. LeavingInv'
    BY <1>10 DEF LeavingInv, Reads
  <2>8. PlaceInv'
    BY <1>10 DEF PlaceInv, Reads, StateInv
  <2>9. StateInv'
    BY <1>10 DEF StateInv, Reads
  <2>10. OwedInv'
    BY <1>10 DEF OwedInv, Reads
  <2>11. OpenedInv'
    BY <1>10 DEF OpenedInv, Reads
  <2> QED
    BY <2>5, <2>6, <2>7, <2>8, <2>9, <2>10, <2>11
<1> QED
  BY <1>6, <1>7, <1>8, <1>9, <1>10 DEF Draw

\* A device before its first reading.
LEMMA InitIInv == Init => IInv
<1> SUFFICES ASSUME Init
             PROVE  IInv
  OBVIOUS
<1>1. /\ app \in AppState /\ card \in AppState \cup {Torn} /\ reader \in Reader /\ left \in PlaceType
      /\ left.at = NoPage /\ reader.count = 0 /\ reader.note = "none" /\ app.loads = 0
  BY DefaultsFacts, ClosedFacts, NowhereFacts DEF Init
<1>2. TypeOK
  <2>1. behind \in 0 .. (Interval + MaxMissed) /\ missed \in 0 .. MaxMissed
    BY IntervalAssumption DEF Init
  <2> QED
    BY <1>1, <2>1 DEF Init, TypeOK, PlaceType
<1>3. DebounceInv /\ LeavingInv /\ PlaceInv
  BY <1>1 DEF Init, DebounceInv, LeavingInv, PlaceInv
<1>4. StateInv /\ OwedInv /\ OpenedInv
  BY DEF Init, StateInv, OwedInv, OpenedInv
<1> QED
  BY <1>2, <1>3, <1>4 DEF IInv

\* Nothing changes.
LEMMA StutterKeeps == IInv /\ UNCHANGED vars => IInv'
<1> SUFFICES ASSUME IInv, UNCHANGED vars
             PROVE  IInv'
  OBVIOUS
<1>1. /\ file' = file /\ card' = card /\ app' = app /\ silent' = silent /\ step' = step /\ going' = going
      /\ reader' = reader /\ left' = left /\ behind' = behind /\ missed' = missed /\ unsaved' = unsaved
      /\ owed' = owed /\ opened' = opened
  BY DEF vars, history
<1>2. TypeOK'
  BY <1>1 DEF IInv, TypeOK
<1>3. DebounceInv' /\ LeavingInv' /\ PlaceInv'
  BY <1>1 DEF IInv, DebounceInv, LeavingInv, PlaceInv, Stored
<1>4. StateInv' /\ OwedInv' /\ OpenedInv'
  BY <1>1 DEF IInv, StateInv, OwedInv, OpenedInv, RoutesToReader
<1> QED
  BY <1>2, <1>3, <1>4 DEF IInv

\* Every step keeps the invariant.
LEMMA NextIInv == IInv /\ [Next]_vars => IInv'
<1>1. ASSUME IInv, Next
      PROVE  IInv'
  <2>1. CASE Boot \/ Rearm \/ RouteHome \/ RouteSilent \/ RouteReader \/ OpenBook \/ Enter \/ EnterDirect
    BY <1>1, <2>1, BootKeeps, RearmKeeps, RouteHomeKeeps, RouteSilentKeeps, RouteReaderKeeps, OpenBookKeeps,
       EnterKeeps, EnterDirectKeeps
  <2>2. CASE Turn \/ FollowNote \/ LeaveNote \/ Draw
    BY <1>1, <2>2, TurnKeeps, FollowNoteKeeps, LeaveNoteKeeps, DrawKeeps
  <2>3. CASE Leave \/ Sleep \/ StartSync \/ Flush \/ ClearCount \/ SaveOrigin \/ Left
    BY <1>1, <2>3, LeaveKeeps, SleepKeeps, StartSyncKeeps, FlushKeeps, ClearCountKeeps, SaveOriginKeeps,
       LeftKeeps
  <2>5. CASE OpenFileTransfer \/ DeleteCache
    BY <1>1, <2>5, SaveAndLeaveKeeps DEF OpenFileTransfer, DeleteCache
  <2>4. CASE TakePlace \/ RestartToReader \/ SleepElsewhere \/ PowerLoss
    BY <1>1, <2>4, TakePlaceKeeps, RestartToReaderKeeps, SleepElsewhereKeeps, PowerLossKeeps
  <2> QED
    BY <1>1, <2>1, <2>2, <2>3, <2>4, <2>5 DEF Next
<1> QED
  BY <1>1, StutterKeeps

\* The inductive invariant holds in every reachable state, for every set of positions, every interval
\* of the debouncer and every number of saves that fail.
THEOREM Invariance == Spec => []IInv
  BY InitIInv, NextIInv, PTL DEF Spec

\* Every variable keeps its type.
THEOREM TypeCorrect == Spec => []TypeOK
<1>1. IInv => TypeOK
  BY DEF IInv
<1> QED
  BY <1>1, Invariance, PTL

\* An interruption of the reader costs fewer page changes than PAGE_CHANGE_INTERVAL, plus one for
\* each save that failed since the last good one.
THEOREM LossIsBounded == Spec => []LossBounded
<1>1. IInv => LossBounded
  <2> SUFFICES ASSUME IInv, step = "reader"
               PROVE  behind < Interval + missed
    BY DEF LossBounded
  <2>1. reader.count \in Nat /\ behind \in Nat /\ missed \in Nat
    BY CountType DEF IInv
  <2>2. behind <= reader.count /\ reader.count < Interval + missed
    BY DEF IInv, DebounceInv
  <2> QED
    BY <2>1, <2>2, IntervalAssumption
<1> QED
  BY <1>1, Invariance, PTL

\* A reader that was left in order opens again where it was, through sleep, silent restarts, syncs
\* and later losses of power.
THEOREM PlaceIsKept == Spec => []PlaceKept
<1>1. IInv => PlaceKept
  BY DEF IInv, PlaceInv, PlaceKept
<1> QED
  BY <1>1, Invariance, PTL

\* Sleep in the reader, and a sync, lead back to the reader.
THEOREM ReaderComesBack == Spec => []ComesBack
<1>1. IInv => ComesBack
  BY DEF IInv, OwedInv, ComesBack
<1> QED
  BY <1>1, Invariance, PTL

\* A boot that finds a start it counted before does not route to the reader.
LEMMA OpenedGoesHome == IInv /\ opened /\ step = "route" => ~RoutesToReader
<1> SUFFICES ASSUME IInv, opened, step = "route", RoutesToReader
             PROVE  FALSE
  OBVIOUS
<1> QED
  BY DEF IInv, OpenedInv, RoutesToReader

\* No boot opens the reader when the previous start was not followed by an exit.
THEOREM NoLoop == Spec => NoBootLoop
<1>1. ASSUME IInv, [Next]_vars
      PROVE  [step = "route" /\ step' = "enter" /\ ~silent => ~opened]_vars
  <2> SUFFICES ASSUME Next, step = "route", step' = "enter", opened
               PROVE  FALSE
    BY <1>1
  <2>1. RoutesToReader
    <3>1. ASSUME RouteHome \/ PowerLoss
          PROVE  FALSE
      BY <3>1 DEF RouteHome, PowerLoss, LosePower
    <3>2. ASSUME RouteSilent \/ RouteReader
          PROVE  RoutesToReader
      BY <3>2 DEF RouteSilent, RouteReader
    <3> QED
      BY <3>1, <3>2 DEF Next, Boot, Rearm, OpenBook, Enter, EnterDirect, Turn, FollowNote, LeaveNote, Draw,
         Leave, Sleep, StartSync, OpenFileTransfer, DeleteCache, SaveAndLeave, Flush, ClearCount, SaveOrigin,
         ExitSave, Left, TakePlace, RestartToReader, SleepElsewhere
  <2> QED
    BY <1>1, <2>1, OpenedGoesHome
<1> QED
  BY <1>1, Invariance, PTL DEF Spec, NoBootLoop

=============================================================================
