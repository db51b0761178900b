--------------------------- MODULE ReadingSession ---------------------------
(***************************************************************************)
(* Who holds a copy of the reading statistics and who writes it back: the  *)
(* book's and the global record on the card, the copies of the reader, and *)
(* the copies of the statistics screen, which shows the running session    *)
(* and lets the user edit dates and completion.  Callbacks of the main     *)
(* task are atomic; the power may go between them and inside one that      *)
(* saves.  A book's record is written in place, so a cut in its save costs *)
(* the record; the save of the global one is atomic over a valid file (see *)
(* RotatedFile), and no property here speaks of totals after a cut.  Calls *)
(* of the card that fail are left out: save() of a book tells nobody.  One *)
(* session counter, page counter and date stand for the others.            *)
(***************************************************************************)
EXTENDS FiniteSets, FiniteSetsExt, Naturals

CONSTANTS
  Books,
  Format,        \* "epub" or "xtc": the reader in use
  CountedFrom,   \* seconds from which a session counts: 10 in the code
  Dates,         \* what the user may enter
  NoDate,        \* no date entered
  MaxSeconds,    \* bound: seconds read, of a book and of all
  MaxPages,      \* bound: pages turned of all books
  MaxFinished,   \* bound: completedBooks
  MaxFaults      \* bound: power losses and resets of the totals

ASSUME BooksAssumption  == IsFiniteSet(Books)
ASSUME FormatAssumption == Format \in {"epub", "xtc"}
ASSUME CountedAssumption == CountedFrom \in Nat \ {0}
ASSUME DatesAssumption  == NoDate \in Dates
ASSUME BoundsAssumption == MaxSeconds \in Nat /\ MaxPages \in Nat /\ MaxFinished \in Nat /\ MaxFaults \in Nat

VARIABLES
  book,          \* stats_v6.bin of each book
  global,        \* global_stats.bin
  screen,        \* "home", "reader", "stats" over the reader, "homeStats", "off"
  open,          \* the book of the reader or the screen
  stats,         \* the reader's copy of book[open]
  globalStats,   \* the reader's copy of global
  session,       \* sessionReadingSeconds
  shown,         \* the statistics screen's [stats, globalStats, didChangeStats]
  atOpen,        \* history: the book's record when the reader opened it
  turned,        \* history: pages turned since
  removed,       \* history: totals of the records the user deleted
  faults         \* history: power losses and resets of the totals

reader == <<stats, globalStats, session>>
files  == <<book, global>>
opened == <<atOpen, turned>>
vars   == <<files, screen, open, reader, shown, opened, removed, faults>>

Total == [secs : Nat, pages : Nat]
Stats == [secs : Nat, pages : Nat, done : BOOLEAN, dates : Dates]
GlobalStats == [secs : Nat, pages : Nat, completedBooks : Nat]

NewStats  == [secs |-> 0, pages |-> 0, done |-> FALSE, dates |-> NoDate]
NewGlobal == [secs |-> 0, pages |-> 0, completedBooks |-> 0]
NewTotal  == [secs |-> 0, pages |-> 0]
NotShown  == [stats |-> NewStats, globalStats |-> NewGlobal, didChangeStats |-> FALSE]

\* the reader is gone, and its history with it
NoReader ==
  /\ stats' = NewStats /\ globalStats' = NewGlobal /\ session' = 0
  /\ atOpen' = NewStats /\ turned' = 0

\* Mutant: the count goes below zero.
CountedUnchecked(g, was, is) ==
  IF is /\ ~was THEN [g EXCEPT !.completedBooks = @ + 1]
  ELSE IF was /\ ~is THEN [g EXCEPT !.completedBooks = @ - 1]
  ELSE g

\* global record after a completion flag goes from was to is
Counted(g, was, is) ==
  IF is /\ ~was THEN [g EXCEPT !.completedBooks = @ + 1]
  ELSE IF was /\ ~is /\ g.completedBooks > 0 THEN [g EXCEPT !.completedBooks = @ - 1]
  ELSE g

\* totals of the deleted records, kept for as long as TotalsAgree speaks of them
WithRemoved(rec) ==
  IF faults = 0 THEN [secs |-> removed.secs + rec.secs, pages |-> removed.pages + rec.pages]
  ELSE removed

\* save() of both files, the book's first
SaveBoth(rec, glob) == book' = [book EXCEPT ![open] = rec] /\ global' = glob

PowerGone ==
  /\ screen' = "off"
  /\ NoReader
  /\ shown' = NotShown
  /\ faults < MaxFaults /\ faults' = faults + 1
  /\ removed' = NewTotal
  /\ UNCHANGED open

\* The power goes while rec is saved for b: inside the file, which save() has
\* truncated and load() will take for a new book's, or between the two files.
SaveCut(b, rec, glob) ==
  /\ book' \in {[book EXCEPT ![b] = NewStats], [book EXCEPT ![b] = rec]}
  /\ global' = glob
  /\ PowerGone

-----------------------------------------------------------------------------
(* The reader.                                                             *)

OnEnter(b) ==
  /\ screen = "home"
  /\ screen' = "reader"
  /\ open' = b
  /\ stats' = book[b]
  /\ globalStats' = global
  /\ session' = 0
  /\ atOpen' = book[b]
  /\ turned' = 0
  /\ UNCHANGED <<files, shown, removed, faults>>

\* recordCurrentPageReadingTime(), and the page counts if it was shown for long
\* enough and left forwards
ReadPage(forwards) ==
  /\ screen = "reader"
  /\ stats.secs + session < MaxSeconds /\ globalStats.secs + session < MaxSeconds
  /\ session' = session + 1
  /\ \/ /\ forwards
        /\ globalStats.pages < MaxPages
        /\ stats' = [stats EXCEPT !.pages = @ + 1]
        /\ globalStats' = [globalStats EXCEPT !.pages = @ + 1]
        /\ turned' = turned + 1
     \/ ~forwards /\ UNCHANGED <<stats, globalStats, turned>>
  /\ UNCHANGED <<files, screen, open, shown, atOpen, removed, faults>>

SetBookCompleted ==
  LET now == ~stats.done IN
  /\ screen = "reader"
  /\ now => globalStats.completedBooks < MaxFinished
  /\ stats' = [stats EXCEPT !.done = now]
  /\ globalStats' = Counted(globalStats, stats.done, now)
  /\ SaveBoth(stats', globalStats')
  /\ UNCHANGED <<screen, open, session, shown, opened, removed, faults>>

\* the book's file alone: a dismissed prompt, the cache cleared, the pace reset
SaveStats ==
  /\ screen = "reader"
  /\ book' = [book EXCEPT ![open] = stats]
  /\ UNCHANGED <<global, screen, open, reader, shown, opened, removed, faults>>

\* Mutant: the file goes, the reader's copy stays.
DeleteFileOnly ==
  /\ screen = "reader"
  /\ book' = [book EXCEPT ![open] = NewStats]
  /\ atOpen' = NewStats
  /\ turned' = 0
  /\ removed' = WithRemoved(stats)
  /\ session' = 0
  /\ UNCHANGED <<global, screen, open, stats, globalStats, shown, faults>>

\* resetCurrentBookStatsAfterDelete()
DeleteStats ==
  /\ screen = "reader"
  /\ book' = [book EXCEPT ![open] = NewStats]
  /\ stats' = NewStats
  /\ session' = 0
  /\ atOpen' = NewStats
  /\ turned' = 0
  /\ removed' = WithRemoved(stats)
  /\ UNCHANGED <<global, screen, open, globalStats, shown, faults>>

\* sessions too short to count add nothing
SessionTime == IF session >= CountedFrom THEN session ELSE 0

CommittedStats  == [stats EXCEPT !.secs = @ + SessionTime]
CommittedGlobal == [globalStats EXCEPT !.secs = @ + SessionTime]

\* onExit() of the reader, under whatever replaces it
OnExit ==
  /\ SaveBoth(CommittedStats, CommittedGlobal)
  /\ screen' = "home"
  /\ NoReader
  /\ shown' = NotShown
  /\ UNCHANGED <<open, removed, faults>>

\* from the book to home, to another book, to sleep
LeaveReader == screen = "reader" /\ OnExit

-----------------------------------------------------------------------------
(* The statistics screen.                                                  *)

\* Mutant: the running session goes into the reader's copy itself.
ShowWithDoubleSession ==
  /\ screen = "reader"
  /\ screen' = "stats"
  /\ stats' = [stats EXCEPT !.secs = @ + session]
  /\ shown' = [stats |-> stats', globalStats |-> globalStats, didChangeStats |-> FALSE]
  /\ UNCHANGED <<files, open, globalStats, session, opened, removed, faults>>

\* displayStats includes the running session
OpenReadingStats ==
  /\ screen = "reader"
  /\ screen' = "stats"
  /\ shown' = [stats |-> [stats EXCEPT !.secs = @ + session],
               globalStats |-> globalStats, didChangeStats |-> FALSE]
  /\ UNCHANGED <<files, open, reader, opened, removed, faults>>

OpenFromHome(b) ==
  /\ screen = "home"
  /\ screen' = "homeStats"
  /\ open' = b
  /\ shown' = [stats |-> book[b], globalStats |-> global, didChangeStats |-> FALSE]
  /\ UNCHANGED <<files, reader, opened, removed, faults>>

\* a date, and with the date of finishing the completion
Edit(date, done) ==
  /\ screen \in {"stats", "homeStats"}
  /\ date # shown.stats.dates
  /\ done => shown.globalStats.completedBooks < MaxFinished
  /\ shown' = [stats |-> [shown.stats EXCEPT !.dates = date, !.done = done],
               globalStats |-> Counted(shown.globalStats, shown.stats.done, done),
               didChangeStats |-> TRUE]
  /\ UNCHANGED <<files, screen, open, reader, opened, removed, faults>>

\* Back from the editing page
SaveEdits ==
  /\ screen \in {"stats", "homeStats"}
  /\ shown.didChangeStats
  /\ SaveBoth(shown.stats, shown.globalStats)
  /\ shown' = [shown EXCEPT !.didChangeStats = FALSE]
  /\ UNCHANGED <<screen, open, reader, opened, removed, faults>>

\* Mutant: the EPUB reader loads the files, like the XTC reader.
ReturnByReload ==
  /\ screen = "stats"
  /\ ~shown.didChangeStats
  /\ screen' = "reader"
  /\ shown' = NotShown
  /\ stats' = book[open]
  /\ globalStats' = global
  /\ UNCHANGED <<files, open, session, opened, removed, faults>>

\* Mutant: the edits of the book are imported, those of the totals are not.
ReturnWithoutCount ==
  /\ screen = "stats"
  /\ ~shown.didChangeStats
  /\ screen' = "reader"
  /\ shown' = NotShown
  /\ stats' = [stats EXCEPT !.done = book[open].done, !.dates = book[open].dates]
  /\ UNCHANGED <<files, open, globalStats, session, opened, removed, faults>>

\* Mutant: the return keeps the reader's copy as it is.
ReturnWithoutImport ==
  /\ screen = "stats"
  /\ ~shown.didChangeStats
  /\ screen' = "reader"
  /\ shown' = NotShown
  /\ UNCHANGED <<files, open, reader, opened, removed, faults>>

\* Confirm on a page that does not edit: the editing page was left, and saved,
\* before.  The EPUB reader imports the edits, the XTC reader loads the files.
HandleBookStatsReturn ==
  /\ screen = "stats"
  /\ ~shown.didChangeStats
  /\ screen' = "reader"
  /\ shown' = NotShown
  /\ \/ /\ Format = "epub"
        /\ stats' = [stats EXCEPT !.done = book[open].done, !.dates = book[open].dates]
        /\ globalStats' = [globalStats EXCEPT !.completedBooks = global.completedBooks]
     \/ /\ Format = "xtc"
        /\ stats' = book[open]
        /\ globalStats' = global
  /\ UNCHANGED <<files, open, session, opened, removed, faults>>

\* Back, a power-button screen or sleep: the screen saves what was not saved,
\* then the reader below it saves its copies.
ReplaceBoth == screen = "stats" /\ OnExit

\* the same over Home, which holds no copy that it would save
LeaveToHome ==
  /\ screen = "homeStats"
  /\ \/ shown.didChangeStats /\ SaveBoth(shown.stats, shown.globalStats)
     \/ ~shown.didChangeStats /\ UNCHANGED files
  /\ screen' = "home"
  /\ shown' = NotShown
  /\ UNCHANGED <<open, reader, opened, removed, faults>>

-----------------------------------------------------------------------------
(* The menus of Home and of the settings.                                  *)

ToggleFinished(b) ==
  LET now == ~book[b].done IN
  /\ screen = "home"
  /\ now => global.completedBooks < MaxFinished
  /\ book' = [book EXCEPT ![b].done = now]
  /\ global' = Counted(global, book[b].done, now)
  /\ UNCHANGED <<screen, open, reader, shown, opened, removed, faults>>

DeleteFromHome(b) ==
  /\ screen = "home"
  /\ book' = [book EXCEPT ![b] = NewStats]
  /\ removed' = WithRemoved(book[b])
  /\ UNCHANGED <<global, screen, open, reader, shown, opened, faults>>

ResetLocal ==
  /\ screen = "home"
  /\ global' = NewGlobal
  /\ faults < MaxFaults /\ faults' = faults + 1
  /\ removed' = NewTotal
  /\ UNCHANGED <<book, screen, open, reader, shown, opened>>

-----------------------------------------------------------------------------

PowerLoss == screen # "off" /\ UNCHANGED files /\ PowerGone

\* The power goes inside one of the callbacks that save: onExit() of the reader,
\* the mark of a finished book there and on Home, the edits of the statistics
\* screen, and the reader's onExit() that follows them.
PowerLossInSave ==
  \/ screen \in {"reader", "stats"} /\ SaveCut(open, CommittedStats, global)
  \/ screen = "reader" /\ SaveCut(open, [stats EXCEPT !.done = ~stats.done], global)
  \/ screen = "home" /\ \E b \in Books : SaveCut(b, [book[b] EXCEPT !.done = ~book[b].done], global)
  \/ /\ screen \in {"stats", "homeStats"}
     /\ shown.didChangeStats
     /\ SaveCut(open, shown.stats, global)
  \/ /\ screen = "stats"
     /\ shown.didChangeStats
     /\ SaveCut(open, CommittedStats, shown.globalStats)

PowerOn ==
  /\ screen = "off"
  /\ screen' = "home"
  /\ UNCHANGED <<files, open, reader, shown, opened, removed, faults>>

Init ==
  /\ book = [b \in Books |-> NewStats]
  /\ global = NewGlobal
  /\ screen = "home"
  /\ open \in Books
  /\ stats = NewStats /\ globalStats = NewGlobal /\ session = 0
  /\ shown = NotShown
  /\ atOpen = NewStats
  /\ turned = 0
  /\ removed = NewTotal
  /\ faults = 0

Next ==
  \/ \E b \in Books : OnEnter(b) \/ OpenFromHome(b) \/ ToggleFinished(b) \/ DeleteFromHome(b)
  \/ \E forwards \in BOOLEAN : ReadPage(forwards)
  \/ \E date \in Dates, done \in BOOLEAN : Edit(date, done)
  \/ SetBookCompleted \/ SaveStats \/ DeleteStats \/ LeaveReader
  \/ OpenReadingStats \/ SaveEdits \/ HandleBookStatsReturn \/ ReplaceBoth \/ LeaveToHome
  \/ ResetLocal \/ PowerLoss \/ PowerLossInSave \/ PowerOn

Spec == Init /\ [][Next]_vars

-----------------------------------------------------------------------------

\* The type of every variable of the model.
TypeOK ==
  /\ book \in [Books -> Stats]
  /\ global \in GlobalStats
  /\ screen \in {"home", "reader", "stats", "homeStats", "off"}
  /\ open \in Books
  /\ stats \in Stats /\ globalStats \in GlobalStats /\ session \in Nat
  /\ shown \in [stats : Stats, globalStats : GlobalStats, didChangeStats : BOOLEAN]
  /\ atOpen \in Stats
  /\ turned \in Nat
  /\ removed \in Total
  /\ faults \in Nat

LeftBook == screen \in {"reader", "stats"} /\ screen' = "home"

\* However often the statistics screen saved a record that already includes
\* the running session, leaving the book adds the session exactly once
\* (onExit(), commitReadingStats()).
TimeCountedOnce ==
  [][LeftBook => book'[open].secs = atOpen.secs + SessionTime]_vars

\* The same for any reader and any session, however short: the record never
\* gains more time than was read.
NeverMoreThanRead == [][LeftBook => book'[open].secs <= atOpen.secs + session]_vars

\* Leaving the book has every page turned since it was opened on the card,
\* whatever screens were visited between (onExit(), commitReadingStats()).
PageTurnsKept ==
  [][LeftBook => book'[open].pages = atOpen.pages + turned]_vars

\* the record holds all that was read before the session, and of the session no
\* more than was read
WithinSession(rec) ==
  /\ rec.secs \in atOpen.secs..(atOpen.secs + session)
  /\ rec.pages \in atOpen.pages..(atOpen.pages + turned)

\* What a power cut costs: the record of at most one book.  save() was writing
\* it and it starts anew (BookReadingStats::load()), or it lies between what it
\* was when the book was opened and what has been read since; no other book has
\* changed, and none has more than was read.
CutCostsOneRecord ==
  [][screen # "off" /\ screen' = "off" =>
       \E b \in Books :
         /\ \A c \in Books \ {b} : book'[c] = book[c]
         /\ \/ book'[b] = NewStats
            \/ screen \in {"reader", "stats"} /\ b = open /\ WithinSession(book'[b])
            \/ /\ screen \in {"home", "homeStats"}
               /\ book'[b].secs = book[b].secs /\ book'[b].pages = book[b].pages]_vars

Seconds == [b \in Books |-> book[b].secs]
Pages   == [b \in Books |-> book[b].pages]
SumOver(f) == MapThenSumSet(LAMBDA b : f[b], Books)

\* The totals of the device are those of its books, the deleted ones included,
\* although the two files are written from copies taken at different times.
TotalsAgree ==
  faults = 0 /\ screen = "home" =>
    /\ global.secs = removed.secs + SumOver(Seconds)
    /\ global.pages = removed.pages + SumOver(Pages)

\* completedBooks counts every book that is marked finished; Home, the reader
\* and the statistics screen each write it back from a copy of their own.
FinishedCounted == faults = 0 => Cardinality({b \in Books : book[b].done}) <= global.completedBooks

\* Back in the reader, its copies hold what the statistics screen saved
\* (handleBookStatsReturn()).
ReaderIsCurrent ==
  screen = "reader" =>
    /\ stats.done = book[open].done
    /\ stats.dates = book[open].dates
    /\ globalStats.completedBooks = global.completedBooks

\* "keep live counters in memory and import only edits" (applyBookStatsEdits-
\* FromDisk()): the dates the statistics screen showed last are on the card
\* once the book is left.
EditsKept == [][LeftBook /\ screen = "stats" => book'[open].dates = shown.stats.dates]_vars

-----------------------------------------------------------------------------
(* The invariants that the proofs use: the first for both readers, the     *)
(* second for the EPUB reader.                                             *)

\* the finished books once the mark of b is as given
MarkedWith(b, done) == {c \in Books : IF c = b THEN done ELSE book[c].done}

\* The copies may be saved in any order without losing a finished book: each
\* pair of them counts the books that are marked once it is on the card.
CopiesCount ==
  faults = 0 =>
    /\ screen \in {"reader", "stats"} =>
         Cardinality(MarkedWith(open, stats.done)) <= globalStats.completedBooks
    /\ screen \in {"stats", "homeStats"} =>
         Cardinality(MarkedWith(open, shown.stats.done)) <= shown.globalStats.completedBooks

CountInv == TypeOK /\ ReaderIsCurrent /\ FinishedCounted /\ CopiesCount

\* While a book is open its record on the card is one that a cut between two
\* callbacks may leave.
CardWithinSession == screen \in {"reader", "stats"} => WithinSession(book[open])

\* The reader's copy has the pages of the session and none of its time, the
\* copy on show has both.
CopiesFollow ==
  /\ screen \in {"reader", "stats"} =>
       stats.secs = atOpen.secs /\ stats.pages = atOpen.pages + turned
  /\ screen = "stats" =>
       shown.stats.secs = stats.secs + session /\ shown.stats.pages = stats.pages
  /\ screen = "homeStats" =>
       /\ shown.stats.secs = book[open].secs /\ shown.stats.pages = book[open].pages
       /\ shown.globalStats.secs = global.secs /\ shown.globalStats.pages = global.pages

\* The totals agree at Home, and under the reader they will once its copies
\* have replaced what the card has.
TotalsFollow ==
  faults = 0 =>
    /\ screen # "off"
    /\ screen \in {"home", "homeStats"} =>
         /\ global.secs = removed.secs + SumOver(Seconds)
         /\ global.pages = removed.pages + SumOver(Pages)
    /\ screen \in {"reader", "stats"} =>
         /\ globalStats.secs + book[open].secs = removed.secs + SumOver(Seconds) + stats.secs
         /\ globalStats.pages + book[open].pages = removed.pages + SumOver(Pages) + stats.pages

SessionInv == TypeOK /\ CardWithinSession /\ CopiesFollow /\ TotalsFollow

=============================================================================
