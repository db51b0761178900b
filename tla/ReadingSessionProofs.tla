------------------------ MODULE ReadingSessionProofs ------------------------
(***************************************************************************)
(* Theorems about ReadingSession, for any set of books and any sequence of *)
(* reading, edits, deletions and power losses.  The sum over the books is  *)
(* a fold of the community modules; what it does when one book changes is  *)
(* proved first, by descent through the subsets of Books.                  *)
(***************************************************************************)
EXTENDS ReadingSession, FiniteSetTheorems, TLAPS

-----------------------------------------------------------------------------
(* The sum over the books.                                                 *)

\* The element of T that the fold of the community modules takes next, and what
\* is left then.
AnyOf(T) == CHOOSE b \in T : TRUE

Rest(T) == T \ {AnyOf(T)}

\* g gives the sum of f over every subset of S, one element after the other
IsSum(g, f, S) ==
  g = [T \in SUBSET S |-> IF T = {} THEN 0 ELSE f[AnyOf(T)] + g[Rest(T)]]

\* Induction over the sets of books: no set of them is bad when each bad one
\* has a smaller bad one within it.
LEMMA NoDescent ==
  ASSUME NEW Bad \in SUBSET SUBSET Books,
         \A T \in Bad : \E U \in SUBSET T : U # T /\ U \in Bad
  PROVE  Bad = {}
<1>1. IsWellFoundedOn(StrictSubsetOrdering(Books), SUBSET Books)
  <2>1. FiniteSubsetsOf(Books) = SUBSET Books
    BY BooksAssumption, FS_FiniteSubsetsOfFinite
  <2> QED
    BY <2>1, FS_StrictSubsetOrderingWellFounded
<1>2. SUFFICES ASSUME Bad # {}
               PROVE  FALSE
  OBVIOUS
<1>3. PICK T \in Bad : \A U \in Bad : <<U, T>> \notin StrictSubsetOrdering(Books)
  BY <1>1, <1>2, WFMin
<1> QED
  BY <1>3 DEF StrictSubsetOrdering

\* What is left is smaller.
LEMMA RestSmaller ==
  ASSUME NEW T, T # {}
  PROVE  AnyOf(T) \in T /\ Rest(T) \in SUBSET T /\ Rest(T) # T
BY DEF AnyOf, Rest

\* The defining equation at one set of books.
LEMMA SumStep ==
  ASSUME NEW f, NEW g, NEW S, IsSum(g, f, S), NEW T \in SUBSET S
  PROVE  g[T] = IF T = {} THEN 0 ELSE f[AnyOf(T)] + g[Rest(T)]
BY DEF IsSum

\* A sum does not depend on the set it was defined over.
LEMMA SumUnique ==
  ASSUME NEW f, NEW S \in SUBSET Books, NEW R \in SUBSET S,
         NEW g, NEW h, IsSum(g, f, S), IsSum(h, f, R)
  PROVE  g[R] = h[R]
<1> DEFINE Bad == {T \in SUBSET R : g[T] # h[T]}
<1>1. ASSUME NEW T \in Bad
      PROVE  \E U \in SUBSET T : U # T /\ U \in Bad
  <2>1. T # {} /\ f[AnyOf(T)] + g[Rest(T)] # f[AnyOf(T)] + h[Rest(T)]
    BY SumStep
  <2>2. Rest(T) \in SUBSET R /\ Rest(T) \in SUBSET T /\ Rest(T) # T /\ g[Rest(T)] # h[Rest(T)]
    BY <2>1, RestSmaller
  <2> QED
    BY <2>2
<1>2. Bad \in SUBSET SUBSET Books
  OBVIOUS
<1> HIDE DEF Bad
<1>3. Bad = {}
  BY <1>1, <1>2, NoDescent
<1> QED
  BY <1>3 DEF Bad

\* The sum of any f is defined on every set of books.
LEMMA SumExists ==
  ASSUME NEW f
  PROVE  \E g : IsSum(g, f, Books)
<1> DEFINE Bad == {T \in SUBSET Books : ~ \E g : IsSum(g, f, T)}
<1>1. ASSUME NEW S \in Bad, \A U \in SUBSET S : U # S => U \notin Bad
      PROVE  FALSE
  <2> DEFINE Of(U) == CHOOSE g : IsSum(g, f, U)
             g == [T \in SUBSET S |-> IF T = {} THEN 0 ELSE f[AnyOf(T)] + Of(Rest(T))[Rest(T)]]
  <2>1. \A U \in SUBSET S : U # S => IsSum(Of(U), f, U)
    BY <1>1
  <2>2. ASSUME NEW T \in SUBSET S, T # {}
        PROVE  Rest(T) \in SUBSET S /\ Rest(T) # S
    BY <2>2, RestSmaller
  <2> HIDE DEF Of
  <2>3. ASSUME NEW U \in SUBSET S, U # S
        PROVE  g[U] = Of(U)[U]
    <3>1. CASE U = {}
      BY <3>1, <2>1, <2>3, SumStep
    <3>2. CASE U # {}
      <4>1. g[U] = f[AnyOf(U)] + Of(Rest(U))[Rest(U)]
        BY <3>2
      <4>2. Of(U)[U] = f[AnyOf(U)] + Of(U)[Rest(U)]
        BY <2>1, <2>3, <3>2, SumStep
      <4>3. IsSum(Of(U), f, U) /\ IsSum(Of(Rest(U)), f, Rest(U))
        BY <2>1, <2>2, <2>3, <3>2
      <4>4. Rest(U) \in SUBSET U /\ U \in SUBSET Books
        BY RestSmaller, <3>2
      <4>5. Of(U)[Rest(U)] = Of(Rest(U))[Rest(U)]
        BY <4>3, <4>4, SumUnique
      <4> QED
        BY <4>1, <4>2, <4>5
    <3> QED
      BY <3>1, <3>2
  <2>4. ASSUME NEW T \in SUBSET S
        PROVE  g[T] = IF T = {} THEN 0 ELSE f[AnyOf(T)] + g[Rest(T)]
    <3>1. g[T] = IF T = {} THEN 0 ELSE f[AnyOf(T)] + Of(Rest(T))[Rest(T)]
      OBVIOUS
    <3> HIDE DEF g
    <3> QED
      BY <3>1, <2>2, <2>3
  <2>5. IsSum(g, f, S)
    BY <2>4 DEF IsSum
  <2> QED
    BY <2>5
<1>2. Bad = {}
  <2> HIDE DEF Bad
  <2> QED
    BY <1>1, NoDescent DEF Bad
<1> QED
  BY <1>2

\* SumOver() is that sum, at all books.
LEMMA SumDefined ==
  ASSUME NEW f
  PROVE  \E g : IsSum(g, f, Books) /\ SumOver(f) = g[Books]
<1> DEFINE it == CHOOSE g : IsSum(g, f, Books)
<1>1. SumOver(f) = it[Books]
  BY DEF SumOver, MapThenSumSet, MapThenFoldSet, AnyOf, Rest, IsSum
<1> QED
  BY <1>1, SumExists

\* Numbers sum to a number.
LEMMA SumType ==
  ASSUME NEW f \in [Books -> Nat]
  PROVE  SumOver(f) \in Nat
<1>1. PICK g : IsSum(g, f, Books) /\ SumOver(f) = g[Books]
  BY SumDefined
<1> DEFINE Bad == {T \in SUBSET Books : g[T] \notin Nat}
<1>2. Bad \in SUBSET SUBSET Books
  OBVIOUS
<1>3. ASSUME NEW T \in Bad
      PROVE  \E U \in SUBSET T : U # T /\ U \in Bad
  <2>1. T # {} /\ g[T] = f[AnyOf(T)] + g[Rest(T)]
    BY <1>1, SumStep
  <2>2. f[AnyOf(T)] \in Nat /\ Rest(T) \in SUBSET T /\ Rest(T) # T
    BY <2>1, RestSmaller
  <2> QED
    BY <2>1, <2>2
<1>4. Bad = {}
  <2> HIDE DEF Bad
  <2> QED
    BY <1>3, <1>2, NoDescent
<1> QED
  BY <1>1, <1>4

\* Zeros sum to zero.
LEMMA SumOfZeros ==
  ASSUME NEW f, \A b \in Books : f[b] = 0
  PROVE  SumOver(f) = 0
<1>1. PICK g : IsSum(g, f, Books) /\ SumOver(f) = g[Books]
  BY SumDefined
<1> DEFINE Bad == {T \in SUBSET Books : g[T] # 0}
<1>2. ASSUME NEW T \in Bad
      PROVE  \E U \in SUBSET T : U # T /\ U \in Bad
  BY <1>1, SumStep, RestSmaller
<1> QED
  BY <1>1, <1>2, NoDescent

\* A sum changes by what one of its terms does.
LEMMA SumOfChanged ==
  ASSUME NEW f \in [Books -> Nat], NEW b \in Books, NEW n \in Nat
  PROVE  SumOver([f EXCEPT ![b] = n]) + f[b] = SumOver(f) + n
<1> DEFINE h == [f EXCEPT ![b] = n]
<1>1. PICK g : IsSum(g, f, Books) /\ SumOver(f) = g[Books]
  BY SumDefined
<1>2. PICK k : IsSum(k, h, Books) /\ SumOver(h) = k[Books]
  BY SumDefined
<1> DEFINE Holds(T) == /\ g[T] \in Nat /\ k[T] \in Nat
                       /\ k[T] + (IF b \in T THEN f[b] ELSE 0) = g[T] + (IF b \in T THEN n ELSE 0)
           Bad == {T \in SUBSET Books : ~Holds(T)}
<1>3. ASSUME NEW T \in Bad
      PROVE  \E U \in SUBSET T : U # T /\ U \in Bad
  <2> HIDE DEF h
  <2>1. T # {} /\ g[T] = f[AnyOf(T)] + g[Rest(T)] /\ k[T] = h[AnyOf(T)] + k[Rest(T)]
    BY <1>1, <1>2, SumStep
  <2>2. AnyOf(T) \in T /\ Rest(T) \in SUBSET T /\ Rest(T) # T
    BY <2>1, RestSmaller
  <2>3. h[AnyOf(T)] = IF AnyOf(T) = b THEN n ELSE f[AnyOf(T)]
    BY DEF h
  <2>4. b \in Rest(T) <=> b \in T /\ AnyOf(T) # b
    BY DEF Rest
  <2>5. Rest(T) \in Bad
    BY <2>1, <2>2, <2>3, <2>4
  <2> QED
    BY <2>2, <2>5
<1>4. Bad = {}
  BY <1>3, NoDescent
<1> QED
  BY <1>1, <1>2, <1>4

-----------------------------------------------------------------------------
(* Records and the variables' types.                                       *)

\* The fields of a book's record.
LEMMA StatsFields ==
  ASSUME NEW s \in Stats
  PROVE  s.secs \in Nat /\ s.pages \in Nat /\ s.done \in BOOLEAN /\ s.dates \in Dates
BY DEF Stats

\* The fields of the global record.
LEMMA GlobalFields ==
  ASSUME NEW g \in GlobalStats
  PROVE  g.secs \in Nat /\ g.pages \in Nat /\ g.completedBooks \in Nat
BY DEF GlobalStats

\* Counting keeps a book's record a record.
LEMMA StatsCounts ==
  ASSUME NEW s \in Stats, NEW n \in Nat
  PROVE  [s EXCEPT !.secs = @ + n] \in Stats /\ [s EXCEPT !.pages = @ + n] \in Stats
<1> DEFINE secs == s.secs + n
           pages == s.pages + n
<1>1. secs \in Nat /\ pages \in Nat
  BY StatsFields
<1> HIDE DEF secs, pages
<1>2. [s EXCEPT !.secs = secs] \in Stats /\ [s EXCEPT !.pages = pages] \in Stats
  BY <1>1 DEF Stats
<1> QED
  BY <1>2 DEF secs, pages

\* So does editing it.
LEMMA StatsEdits ==
  ASSUME NEW s \in Stats, NEW done \in BOOLEAN, NEW date \in Dates
  PROVE  /\ [s EXCEPT !.done = done] \in Stats
         /\ [s EXCEPT !.dates = date, !.done = done] \in Stats
         /\ [s EXCEPT !.done = done, !.dates = date] \in Stats
BY DEF Stats

\* The same for the global record.
LEMMA GlobalUpdates ==
  ASSUME NEW g \in GlobalStats, NEW n \in Nat
  PROVE  /\ [g EXCEPT !.secs = @ + n] \in GlobalStats
         /\ [g EXCEPT !.pages = @ + n] \in GlobalStats
         /\ [g EXCEPT !.completedBooks = n] \in GlobalStats
BY DEF GlobalStats

\* A counted completion changes completedBooks and nothing else.
LEMMA CountedType ==
  ASSUME NEW g \in GlobalStats, NEW was \in BOOLEAN, NEW is \in BOOLEAN
  PROVE  /\ Counted(g, was, is) \in GlobalStats
         /\ Counted(g, was, is).secs = g.secs
         /\ Counted(g, was, is).pages = g.pages
BY DEF GlobalStats, Counted

\* The records of a new book and of a new device.
LEMMA NewTypes ==
  /\ NewStats \in Stats /\ NewGlobal \in GlobalStats /\ NewTotal \in Total
  /\ NotShown \in [stats : Stats, globalStats : GlobalStats, didChangeStats : BOOLEAN]
<1>1. NewStats \in Stats
  BY DatesAssumption DEF NewStats, Stats
<1>2. NewGlobal \in GlobalStats
  BY DEF NewGlobal, GlobalStats
<1>3. NewTotal \in Total
  BY DEF NewTotal, Total
<1>4. NotShown \in [stats : Stats, globalStats : GlobalStats, didChangeStats : BOOLEAN]
  BY <1>1, <1>2 DEF NotShown
<1> QED
  BY <1>1, <1>2, <1>3, <1>4

\* What OnExit() commits are records, with the time of the session once.
LEMMA CommittedTypes ==
  ASSUME TypeOK
  PROVE  /\ SessionTime \in 0..session
         /\ CommittedStats \in Stats /\ CommittedGlobal \in GlobalStats
         /\ CommittedStats.secs = stats.secs + SessionTime
         /\ CommittedStats.pages = stats.pages
         /\ CommittedStats.done = stats.done
         /\ CommittedGlobal.secs = globalStats.secs + SessionTime
         /\ CommittedGlobal.pages = globalStats.pages
         /\ CommittedGlobal.completedBooks = globalStats.completedBooks
<1>1. SessionTime \in 0..session /\ SessionTime \in Nat /\ stats \in Stats /\ globalStats \in GlobalStats
  BY DEF TypeOK, SessionTime
<1> DEFINE time == SessionTime
<1> HIDE DEF time
<1> QED
  BY <1>1 DEF CommittedStats, CommittedGlobal, Stats, GlobalStats

\* Saving both files keeps their types.
LEMMA SaveTypes ==
  ASSUME TypeOK, NEW rec \in Stats, NEW glob \in GlobalStats
  PROVE  /\ SaveBoth(rec, glob) => book' \in [Books -> Stats] /\ global' \in GlobalStats
         /\ [book EXCEPT ![open] = rec] \in [Books -> Stats]
BY DEF SaveBoth, TypeOK

\* Where the power goes, the reader and what is on show are gone.
LEMMA PowerGoneTypes ==
  ASSUME TypeOK, PowerGone, book' \in [Books -> Stats], global' \in GlobalStats
  PROVE  TypeOK'
BY NewTypes DEF PowerGone, NoReader, TypeOK

\* The initial state has the types.
LEMMA InitTypes == Init => TypeOK
BY NewTypes DEF Init, TypeOK

\* Every step keeps them.
LEMMA NextTypes ==
  ASSUME TypeOK, [Next]_vars
  PROVE  TypeOK'
<1> DEFINE ShownType == [stats : Stats, globalStats : GlobalStats, didChangeStats : BOOLEAN]
<1>1. /\ book \in [Books -> Stats] /\ global \in GlobalStats /\ open \in Books
      /\ screen \in {"home", "reader", "stats", "homeStats", "off"}
      /\ stats \in Stats /\ globalStats \in GlobalStats /\ session \in Nat
      /\ shown \in ShownType /\ atOpen \in Stats /\ turned \in Nat /\ removed \in Total
      /\ faults \in Nat
  BY DEF TypeOK
<1>2. shown.stats \in Stats /\ shown.globalStats \in GlobalStats /\ shown.didChangeStats \in BOOLEAN
  BY <1>1
<1>3. /\ stats.done \in BOOLEAN /\ shown.stats.done \in BOOLEAN
      /\ book[open].done \in BOOLEAN /\ book[open].dates \in Dates
      /\ global.completedBooks \in Nat
  BY <1>1, StatsFields, GlobalFields
<1>4. ASSUME NEW s \in Stats
      PROVE  WithRemoved(s) \in Total
  <2>1. s.secs \in Nat /\ s.pages \in Nat
    BY StatsFields
  <2> QED
    BY <1>1, <2>1 DEF WithRemoved, Total
<1>5. ASSUME NEW s \in Stats, NEW g \in GlobalStats, NEW changed \in BOOLEAN
      PROVE  [stats |-> s, globalStats |-> g, didChangeStats |-> changed] \in ShownType
  OBVIOUS
<1> HIDE DEF ShownType
<1>6. ASSUME NEW b \in Books, OnEnter(b)
      PROVE  TypeOK'
  BY <1>6 DEF OnEnter, files, TypeOK
<1>7. ASSUME NEW b \in Books, OpenFromHome(b)
      PROVE  TypeOK'
  BY <1>7 DEF OpenFromHome, files, reader, opened, TypeOK
<1>8. ASSUME NEW b \in Books, ToggleFinished(b)
      PROVE  TypeOK'
  <2>1. book[b] \in Stats
    BY <1>1
  <2>2. book[b].done \in BOOLEAN /\ book[b].dates \in Dates
    BY <2>1, StatsFields
  <2>3. [book[b] EXCEPT !.done = ~book[b].done] \in Stats
    BY <2>1, <2>2, StatsEdits
  <2>4. book' \in [Books -> Stats]
    <3>1. book' = [book EXCEPT ![b] = [book[b] EXCEPT !.done = ~book[b].done]]
      BY <1>8 DEF ToggleFinished
    <3> QED
      BY <1>1, <2>3, <3>1
  <2>5. global' \in GlobalStats
    BY <1>1, <1>8, <2>2, CountedType DEF ToggleFinished
  <2> QED
    BY <1>8, <2>4, <2>5 DEF ToggleFinished, reader, opened, TypeOK
<1>9. ASSUME NEW b \in Books, DeleteFromHome(b)
      PROVE  TypeOK'
  <2>1. book' \in [Books -> Stats] /\ removed' \in Total
    BY <1>1, <1>4, <1>9, NewTypes DEF DeleteFromHome
  <2> QED
    BY <1>9, <2>1 DEF DeleteFromHome, reader, opened, TypeOK
<1>10. ASSUME NEW forwards \in BOOLEAN, ReadPage(forwards)
       PROVE  TypeOK'
  <2>1. stats' \in Stats /\ globalStats' \in GlobalStats
    BY <1>1, <1>10, StatsCounts, GlobalUpdates DEF ReadPage
  <2> QED
    BY <1>10, <2>1 DEF ReadPage, files, TypeOK
<1>11. ASSUME NEW date \in Dates, NEW done \in BOOLEAN, Edit(date, done)
       PROVE  TypeOK'
  <2>1. shown' \in ShownType
    BY <1>2, <1>3, <1>5, <1>11, StatsEdits, CountedType DEF Edit
  <2> QED
    BY <1>11, <2>1 DEF Edit, files, reader, opened, TypeOK, ShownType
<1>12. CASE SetBookCompleted
  <2>1. stats' \in Stats /\ globalStats' \in GlobalStats
    BY <1>1, <1>12, StatsFields, StatsEdits, CountedType DEF SetBookCompleted
  <2>2. book' \in [Books -> Stats] /\ global' \in GlobalStats
    BY <1>12, <2>1, SaveTypes DEF SetBookCompleted
  <2> QED
    BY <1>12, <2>1, <2>2 DEF SetBookCompleted, opened, TypeOK
<1>13. CASE SaveStats
  BY <1>13 DEF SaveStats, reader, opened, TypeOK
<1>14. CASE DeleteStats
  <2>1. book' \in [Books -> Stats] /\ removed' \in Total
    BY <1>1, <1>4, <1>14, NewTypes DEF DeleteStats
  <2> QED
    BY <1>14, <2>1 DEF DeleteStats, TypeOK
<1>15. CASE OnExit
  <2>1. book' \in [Books -> Stats] /\ global' \in GlobalStats
    BY <1>15, CommittedTypes, SaveTypes DEF OnExit
  <2> QED
    BY <1>15, <2>1, NewTypes DEF OnExit, NoReader, TypeOK
<1>16. CASE OpenReadingStats
  <2>1. shown' \in ShownType
    BY <1>1, <1>5, <1>16, StatsCounts DEF OpenReadingStats
  <2> QED
    BY <1>16, <2>1 DEF OpenReadingStats, files, reader, opened, TypeOK, ShownType
<1>17. CASE SaveEdits
  <2>1. book' \in [Books -> Stats] /\ global' \in GlobalStats
    BY <1>2, <1>17, SaveTypes DEF SaveEdits
  <2> QED
    BY <1>17, <2>1 DEF SaveEdits, reader, opened, TypeOK
<1>18. CASE HandleBookStatsReturn
  <2>1. /\ [stats EXCEPT !.done = book[open].done, !.dates = book[open].dates] \in Stats
        /\ [globalStats EXCEPT !.completedBooks = global.completedBooks] \in GlobalStats
    BY <1>1, <1>3, StatsEdits, GlobalUpdates
  <2>2. stats' \in Stats /\ globalStats' \in GlobalStats
    BY <1>1, <1>18, <2>1 DEF HandleBookStatsReturn
  <2> QED
    BY <1>18, <2>2, NewTypes DEF HandleBookStatsReturn, files, opened, TypeOK
<1>19. CASE LeaveToHome
  <2>1. book' \in [Books -> Stats] /\ global' \in GlobalStats
    BY <1>1, <1>2, <1>19, SaveTypes DEF LeaveToHome, files
  <2> QED
    BY <1>19, <2>1, NewTypes DEF LeaveToHome, reader, opened, TypeOK
<1>20. CASE ResetLocal
  BY <1>20, NewTypes DEF ResetLocal, reader, opened, TypeOK
<1>21. CASE PowerLoss
  BY <1>1, <1>21, PowerGoneTypes DEF PowerLoss, files
<1>22. CASE PowerLossInSave
  <2>1. [stats EXCEPT !.done = ~stats.done] \in Stats
    BY <1>1, StatsFields, StatsEdits
  <2>2. \A b \in Books : [book[b] EXCEPT !.done = ~book[b].done] \in Stats
    BY <1>1, StatsFields, StatsEdits
  <2>3. \E b \in Books, rec \in Stats, glob \in GlobalStats : SaveCut(b, rec, glob)
    BY <1>1, <1>2, <1>22, <2>1, <2>2, CommittedTypes DEF PowerLossInSave
  <2>4. book' \in [Books -> Stats] /\ global' \in GlobalStats /\ PowerGone
    BY <1>1, <2>3, NewTypes DEF SaveCut
  <2> QED
    BY <2>4, PowerGoneTypes
<1>23. CASE PowerOn
  BY <1>23 DEF PowerOn, files, reader, opened, TypeOK
<1>24. CASE UNCHANGED vars
  BY <1>24 DEF vars, files, reader, opened, TypeOK
<1> QED
  BY <1>6, <1>7, <1>8, <1>9, <1>10, <1>11, <1>12, <1>13, <1>14, <1>15, <1>16, <1>17, <1>18, <1>19, <1>20,
     <1>21, <1>22, <1>23, <1>24 DEF Next, LeaveReader, ReplaceBoth

\* Every variable keeps its type.
THEOREM TypeCorrect == Spec => []TypeOK
<1>1. TypeOK /\ [Next]_vars => TypeOK'
  BY NextTypes
<1> QED
  BY <1>1, InitTypes, PTL DEF Spec

-----------------------------------------------------------------------------
(* Finished books and completedBooks.                                      *)

\* A mark that stays changes no count.
LEMMA MarksNow ==
  ASSUME NEW b \in Books
  PROVE  MarkedWith(b, book[b].done) = {c \in Books : book[c].done}
BY DEF MarkedWith

\* Saving a record marks its book as the record says, and no other.
LEMMA MarksSaved ==
  ASSUME TypeOK, NEW b \in Books, NEW rec, book' = [book EXCEPT ![b] = rec]
  PROVE  /\ {c \in Books : book[c].done}' = MarkedWith(b, rec.done)
         /\ \A done : MarkedWith(b, done)' = MarkedWith(b, done)
BY DEF MarkedWith, TypeOK

\* Marking a book counts one more.
LEMMA MarksCount ==
  ASSUME NEW b \in Books
  PROVE  /\ Cardinality(MarkedWith(b, FALSE)) \in Nat
         /\ Cardinality(MarkedWith(b, TRUE)) = Cardinality(MarkedWith(b, FALSE)) + 1
<1>1. MarkedWith(b, FALSE) \in SUBSET Books /\ b \notin MarkedWith(b, FALSE)
  BY DEF MarkedWith
<1>2. MarkedWith(b, TRUE) = MarkedWith(b, FALSE) \cup {b}
  BY DEF MarkedWith
<1>3. IsFiniteSet(MarkedWith(b, FALSE))
  BY <1>1, BooksAssumption, FS_Subset
<1> QED
  BY <1>1, <1>2, <1>3, FS_CardinalityType, FS_AddElement

\* Counted() follows the mark: what covered the books before covers them after.
LEMMA CountedCovers ==
  ASSUME NEW b \in Books, NEW g \in GlobalStats, NEW was \in BOOLEAN, NEW is \in BOOLEAN,
         Cardinality(MarkedWith(b, was)) <= g.completedBooks
  PROVE  Cardinality(MarkedWith(b, is)) <= Counted(g, was, is).completedBooks
<1> DEFINE unmarked == Cardinality(MarkedWith(b, FALSE))
           marked == Cardinality(MarkedWith(b, TRUE))
<1>1. unmarked \in Nat /\ marked = unmarked + 1 /\ g.completedBooks \in Nat
  BY MarksCount, GlobalFields
<1>2. CASE is /\ ~was
  <2>1. Counted(g, was, is).completedBooks = g.completedBooks + 1
    BY <1>2 DEF Counted
  <2>2. was = FALSE /\ is = TRUE
    BY <1>2
  <2>3. unmarked <= g.completedBooks
    BY <2>2
  <2> HIDE DEF unmarked, marked
  <2>4. marked <= Counted(g, was, is).completedBooks
    BY <1>1, <2>1, <2>3
  <2> QED
    BY <2>2, <2>4 DEF marked
<1>3. CASE was /\ ~is
  <2>1. was = TRUE /\ is = FALSE
    BY <1>3
  <2>2. marked <= g.completedBooks
    BY <2>1
  <2> HIDE DEF unmarked, marked
  <2>3. g.completedBooks > 0
    BY <1>1, <2>2
  <2>4. Counted(g, was, is).completedBooks = g.completedBooks - 1
    BY <1>3, <2>3 DEF Counted
  <2>5. unmarked <= Counted(g, was, is).completedBooks
    BY <1>1, <2>4, <2>2
  <2> QED
    BY <2>1, <2>5 DEF unmarked
<1>4. CASE was = is
  BY <1>4 DEF Counted
<1> QED
  BY <1>2, <1>3, <1>4

\* The initial state satisfies the invariant.
LEMMA InitCount == Init => CountInv
<1> SUFFICES ASSUME Init
             PROVE  CountInv
  OBVIOUS
<1>1. {b \in Books : book[b].done} = {}
  BY DEF Init, NewStats
<1>2. global.completedBooks = 0
  BY DEF Init, NewGlobal
<1>3. FinishedCounted
  BY <1>1, <1>2, FS_EmptySet DEF FinishedCounted
<1>4. ReaderIsCurrent /\ CopiesCount
  BY DEF Init, ReaderIsCurrent, CopiesCount
<1> QED
  BY <1>3, <1>4, InitTypes DEF CountInv

\* What covers the books with a mark covers them without it.
LEMMA UnmarkedCovers ==
  ASSUME NEW b \in Books, NEW done \in BOOLEAN, NEW n \in Nat,
         Cardinality(MarkedWith(b, done)) <= n
  PROVE  Cardinality(MarkedWith(b, FALSE)) <= n
<1> DEFINE unmarked == Cardinality(MarkedWith(b, FALSE))
           marked == Cardinality(MarkedWith(b, TRUE))
<1>1. unmarked \in Nat /\ marked = unmarked + 1
  BY MarksCount
<1>2. unmarked <= n \/ marked <= n
  BY Zenon
<1> HIDE DEF unmarked, marked
<1>3. unmarked <= n
  BY <1>1, <1>2
<1> QED
  BY <1>3 DEF unmarked

\* Every step keeps the invariant.
LEMMA NextCount ==
  ASSUME CountInv, [Next]_vars
  PROVE  CountInv'
<1>1. TypeOK /\ TypeOK' /\ ReaderIsCurrent /\ FinishedCounted /\ CopiesCount
  BY NextTypes DEF CountInv
<1>2. /\ open \in Books /\ book \in [Books -> Stats] /\ stats \in Stats /\ globalStats \in GlobalStats
      /\ shown.stats \in Stats /\ shown.globalStats \in GlobalStats /\ global \in GlobalStats
      /\ session \in Nat
  BY <1>1 DEF TypeOK
<1>3. /\ stats.done \in BOOLEAN /\ shown.stats.done \in BOOLEAN
      /\ stats.dates \in Dates /\ shown.stats.dates \in Dates
      /\ global.completedBooks \in Nat /\ globalStats.completedBooks \in Nat
      /\ shown.globalStats.completedBooks \in Nat
  BY <1>2, StatsFields, GlobalFields
<1>4. ASSUME NEW b \in Books
      PROVE  book[b] \in Stats /\ book[b].done \in BOOLEAN
  <2>1. book[b] \in Stats
    BY <1>2
  <2> QED
    BY <2>1, StatsFields
<1> SUFFICES ReaderIsCurrent' /\ FinishedCounted' /\ CopiesCount'
  BY <1>1 DEF CountInv
<1>5. ASSUME UNCHANGED <<book, open>>
      PROVE  /\ {c \in Books : book[c].done}' = {c \in Books : book[c].done}
             /\ \A b \in Books, done \in BOOLEAN : MarkedWith(b, done)' = MarkedWith(b, done)
  BY <1>5 DEF MarkedWith
<1>6. ASSUME faults' # 0, screen' # "reader"
      PROVE  ReaderIsCurrent' /\ FinishedCounted' /\ CopiesCount'
  BY <1>6 DEF ReaderIsCurrent, FinishedCounted, CopiesCount
<1>7. ASSUME NEW b \in Books, OnEnter(b)
      PROVE  ReaderIsCurrent' /\ FinishedCounted' /\ CopiesCount'
  <2>1. ReaderIsCurrent' /\ FinishedCounted'
    BY <1>1, <1>7 DEF OnEnter, files, ReaderIsCurrent, FinishedCounted
  <2>2. MarkedWith(open, stats.done)' = {c \in Books : book[c].done}
    BY <1>7 DEF OnEnter, files, MarkedWith
  <2>3. CopiesCount'
    BY <1>1, <1>7, <2>2 DEF OnEnter, FinishedCounted, CopiesCount
  <2> QED
    BY <2>1, <2>3
<1>8. ASSUME NEW b \in Books, OpenFromHome(b)
      PROVE  ReaderIsCurrent' /\ FinishedCounted' /\ CopiesCount'
  <2>1. ReaderIsCurrent' /\ FinishedCounted'
    BY <1>1, <1>8 DEF OpenFromHome, files, ReaderIsCurrent, FinishedCounted
  <2>2. MarkedWith(open, shown.stats.done)' = {c \in Books : book[c].done}
    BY <1>8 DEF OpenFromHome, files, MarkedWith
  <2>3. CopiesCount'
    BY <1>1, <1>8, <2>2 DEF OpenFromHome, FinishedCounted, CopiesCount
  <2> QED
    BY <2>1, <2>3
<1>9. ASSUME NEW b \in Books, ToggleFinished(b)
      PROVE  ReaderIsCurrent' /\ FinishedCounted' /\ CopiesCount'
  <2>1. book' = [book EXCEPT ![b] = [book[b] EXCEPT !.done = ~book[b].done]]
    BY <1>9 DEF ToggleFinished
  <2>2. [book[b] EXCEPT !.done = ~book[b].done].done = ~book[b].done
    OBVIOUS
  <2>3. {c \in Books : book[c].done}' = MarkedWith(b, ~book[b].done)
    BY <1>1, <2>1, <2>2, MarksSaved
  <2>4. faults = 0 => Cardinality(MarkedWith(b, ~book[b].done)) <= global'.completedBooks
    BY <1>1, <1>2, <1>4, <1>9, MarksNow, CountedCovers DEF ToggleFinished, FinishedCounted
  <2>5. screen' = "home" /\ faults' = faults
    BY <1>9 DEF ToggleFinished
  <2> QED
    BY <2>3, <2>4, <2>5 DEF ReaderIsCurrent, FinishedCounted, CopiesCount
<1>10. ASSUME NEW b \in Books, DeleteFromHome(b)
      PROVE  ReaderIsCurrent' /\ FinishedCounted' /\ CopiesCount'
  <2>1. {c \in Books : book[c].done}' = MarkedWith(b, FALSE)
    BY <1>1, <1>10, MarksSaved DEF DeleteFromHome, NewStats
  <2>2. faults = 0 => Cardinality(MarkedWith(b, FALSE)) <= global.completedBooks
    <3>1. faults = 0 => Cardinality(MarkedWith(b, book[b].done)) <= global.completedBooks
      <4>1. MarkedWith(b, book[b].done) = {c \in Books : book[c].done}
        BY MarksNow
      <4> QED
        BY <1>1, <4>1, Zenon DEF FinishedCounted
    <3>2. global.completedBooks \in Nat /\ book[b].done \in BOOLEAN
      BY <1>3, <1>4
    <3> QED
      BY <3>1, <3>2, UnmarkedCovers
  <2>3. screen' = "home" /\ faults' = faults /\ global' = global
    BY <1>10 DEF DeleteFromHome
  <2> QED
    BY <2>1, <2>2, <2>3 DEF ReaderIsCurrent, FinishedCounted, CopiesCount
<1>11. ASSUME NEW forwards \in BOOLEAN, ReadPage(forwards)
       PROVE  ReaderIsCurrent' /\ FinishedCounted' /\ CopiesCount'
  <2>1. /\ stats'.done = stats.done /\ stats'.dates = stats.dates
        /\ globalStats'.completedBooks = globalStats.completedBooks
    BY <1>2, <1>11 DEF ReadPage, Stats, GlobalStats
  <2>2. UNCHANGED <<book, global, open, screen, faults>> /\ screen = "reader"
    BY <1>11 DEF ReadPage, files
  <2> QED
    BY <1>1, <1>2, <1>3, <1>5, <2>1, <2>2 DEF ReaderIsCurrent, FinishedCounted, CopiesCount
<1>12. ASSUME NEW date \in Dates, NEW done \in BOOLEAN, Edit(date, done)
       PROVE  ReaderIsCurrent' /\ FinishedCounted' /\ CopiesCount'
  <2>1. /\ shown'.stats.done = done
        /\ shown'.globalStats = Counted(shown.globalStats, shown.stats.done, done)
    BY <1>2, <1>12 DEF Edit, Stats
  <2>2. UNCHANGED <<book, global, open, screen, faults, stats, globalStats>>
    BY <1>12 DEF Edit, files, reader
  <2>3. faults = 0 => Cardinality(MarkedWith(open, done)) <= shown'.globalStats.completedBooks
    BY <1>1, <1>2, <1>3, <1>12, CountedCovers DEF Edit, CopiesCount
  <2> QED
    BY <1>1, <1>2, <1>3, <1>5, <2>1, <2>2, <2>3 DEF ReaderIsCurrent, FinishedCounted, CopiesCount
<1>13. CASE SetBookCompleted
  <2>1. /\ stats' = [stats EXCEPT !.done = ~stats.done] /\ stats'.done = ~stats.done
        /\ globalStats' = Counted(globalStats, stats.done, ~stats.done)
        /\ screen = "reader" /\ global' = globalStats' /\ book' = [book EXCEPT ![open] = stats']
        /\ UNCHANGED <<screen, open, faults>>
    BY <1>13 DEF SetBookCompleted, SaveBoth
  <2>2. faults = 0 => Cardinality(MarkedWith(open, stats'.done)) <= globalStats'.completedBooks
    BY <1>1, <1>2, <1>3, <2>1, CountedCovers DEF CopiesCount
  <2>3. book'[open] = stats'
    BY <1>2, <2>1
  <2>4. /\ {c \in Books : book[c].done}' = MarkedWith(open, stats'.done)
        /\ MarkedWith(open, stats.done)' = MarkedWith(open, stats'.done)
    BY <1>1, <1>2, <2>1, MarksSaved
  <2> QED
    BY <2>1, <2>2, <2>3, <2>4 DEF ReaderIsCurrent, FinishedCounted, CopiesCount
<1>14. CASE SaveStats
  <2>1. /\ screen = "reader" /\ book' = [book EXCEPT ![open] = stats]
        /\ UNCHANGED <<global, screen, open, stats, globalStats, faults>>
    BY <1>14 DEF SaveStats, reader
  <2>2. /\ {c \in Books : book[c].done}' = MarkedWith(open, stats.done)
        /\ MarkedWith(open, stats.done)' = MarkedWith(open, stats.done)
    BY <1>1, <1>2, <2>1, MarksSaved
  <2>3. book'[open] = stats
    BY <1>2, <2>1
  <2> QED
    BY <1>1, <2>1, <2>2, <2>3 DEF ReaderIsCurrent, FinishedCounted, CopiesCount
<1>15. CASE DeleteStats
  <2>1. /\ screen = "reader" /\ book' = [book EXCEPT ![open] = NewStats] /\ stats' = NewStats
        /\ UNCHANGED <<global, screen, open, globalStats, faults>> /\ NewStats.done = FALSE
    BY <1>15 DEF DeleteStats, NewStats
  <2>2. /\ {c \in Books : book[c].done}' = MarkedWith(open, FALSE)
        /\ MarkedWith(open, stats.done)' = MarkedWith(open, FALSE)
    BY <1>1, <1>2, <2>1, MarksSaved
  <2>3. faults = 0 => Cardinality(MarkedWith(open, FALSE)) <= globalStats.completedBooks
    <3>1. faults = 0 => Cardinality(MarkedWith(open, stats.done)) <= globalStats.completedBooks
      BY <1>1, <2>1, Zenon DEF CopiesCount
    <3>2. globalStats.completedBooks \in Nat /\ stats.done \in BOOLEAN
      BY <1>3
    <3> QED
      BY <1>2, <3>1, <3>2, UnmarkedCovers
  <2>4. book'[open] = NewStats
    BY <1>2, <2>1
  <2> QED
    BY <1>1, <2>1, <2>2, <2>3, <2>4 DEF ReaderIsCurrent, FinishedCounted, CopiesCount
<1>16. CASE screen \in {"reader", "stats"} /\ OnExit
  <2>1. /\ book' = [book EXCEPT ![open] = CommittedStats] /\ global' = CommittedGlobal
        /\ screen' = "home" /\ faults' = faults
    BY <1>16 DEF OnExit, SaveBoth
  <2>2. {c \in Books : book[c].done}' = MarkedWith(open, stats.done)
    <3>1. {c \in Books : book[c].done}' = MarkedWith(open, CommittedStats.done)
      BY <1>1, <1>2, <2>1, MarksSaved
    <3>2. CommittedStats.done = stats.done
      BY <1>1, CommittedTypes
    <3> QED
      BY <3>1, <3>2
  <2>3. global'.completedBooks = globalStats.completedBooks
    BY <1>1, <2>1, CommittedTypes
  <2> QED
    BY <1>1, <1>16, <2>1, <2>2, <2>3 DEF ReaderIsCurrent, FinishedCounted, CopiesCount
<1>17. CASE OpenReadingStats
  <2>1. shown'.stats.done = stats.done /\ shown'.globalStats = globalStats
    BY <1>2, <1>17 DEF OpenReadingStats, Stats
  <2>2. /\ screen = "reader" /\ screen' = "stats"
        /\ UNCHANGED <<book, global, open, stats, globalStats, faults>>
    BY <1>17 DEF OpenReadingStats, files, reader
  <2> QED
    BY <1>1, <1>2, <1>3, <1>5, <2>1, <2>2 DEF ReaderIsCurrent, FinishedCounted, CopiesCount
<1>18. CASE SaveEdits
  <2>1. /\ book' = [book EXCEPT ![open] = shown.stats] /\ global' = shown.globalStats
        /\ screen \in {"stats", "homeStats"}
        /\ UNCHANGED <<screen, open, stats, globalStats, faults>>
    BY <1>18 DEF SaveEdits, SaveBoth, reader
  <2>2. shown'.stats = shown.stats /\ shown'.globalStats = shown.globalStats
    BY <1>18 DEF SaveEdits
  <2>3. /\ {c \in Books : book[c].done}' = MarkedWith(open, shown.stats.done)
        /\ MarkedWith(open, shown.stats.done)' = MarkedWith(open, shown.stats.done)
        /\ MarkedWith(open, stats.done)' = MarkedWith(open, stats.done)
    BY <1>1, <1>2, <2>1, <2>2, MarksSaved
  <2> QED
    BY <1>1, <2>1, <2>2, <2>3 DEF ReaderIsCurrent, FinishedCounted, CopiesCount
<1>19. CASE HandleBookStatsReturn
  <2>1. /\ stats'.done = book[open].done /\ stats'.dates = book[open].dates
        /\ globalStats'.completedBooks = global.completedBooks
    BY <1>2, <1>19 DEF HandleBookStatsReturn, Stats, GlobalStats
  <2>2. UNCHANGED <<book, global, open, faults>> /\ screen' = "reader"
    BY <1>19 DEF HandleBookStatsReturn, files
  <2>3. MarkedWith(open, stats.done)' = {c \in Books : book[c].done}
    BY <1>2, <1>4, <1>5, <2>1, <2>2, MarksNow
  <2> QED
    BY <1>1, <2>1, <2>2, <2>3 DEF ReaderIsCurrent, FinishedCounted, CopiesCount
<1>20. CASE LeaveToHome
  <2>1. screen = "homeStats" /\ screen' = "home" /\ faults' = faults
    BY <1>20 DEF LeaveToHome
  <2>2. FinishedCounted'
    <3>1. CASE UNCHANGED files
      BY <1>1, <2>1, <3>1 DEF files, FinishedCounted
    <3>2. CASE SaveBoth(shown.stats, shown.globalStats)
      <4>1. {c \in Books : book[c].done}' = MarkedWith(open, shown.stats.done)
        BY <1>1, <1>2, <3>2, MarksSaved DEF SaveBoth
      <4> QED
        BY <1>1, <2>1, <3>2, <4>1 DEF SaveBoth, FinishedCounted, CopiesCount
    <3> QED
      BY <1>20, <3>1, <3>2 DEF LeaveToHome
  <2> QED
    BY <2>1, <2>2 DEF ReaderIsCurrent, CopiesCount
<1>21. CASE ResetLocal \/ PowerLoss \/ PowerLossInSave
  <2>1. faults \in Nat
    BY <1>1 DEF TypeOK
  <2>2. faults' = faults + 1 /\ screen' # "reader"
    BY <1>21 DEF ResetLocal, PowerLoss, PowerLossInSave, SaveCut, PowerGone
  <2> QED
    BY <1>6, <2>1, <2>2
<1>22. CASE PowerOn
  BY <1>1, <1>22 DEF PowerOn, files, ReaderIsCurrent, FinishedCounted, CopiesCount
<1>23. CASE UNCHANGED vars
  <2>1. UNCHANGED <<book, global, open, screen, faults, stats, globalStats, shown>>
    BY <1>23 DEF vars, files, reader
  <2> QED
    BY <1>1, <1>2, <1>3, <1>5, <2>1 DEF ReaderIsCurrent, FinishedCounted, CopiesCount
<1> QED
  BY <1>7, <1>8, <1>9, <1>10, <1>11, <1>12, <1>13, <1>14, <1>15, <1>16, <1>17, <1>18, <1>19, <1>20, <1>21,
     <1>22, <1>23 DEF Next, LeaveReader, ReplaceBoth

\* The invariant holds for either reader.
LEMMA CountInvariance == Spec => []CountInv
<1>1. CountInv /\ [Next]_vars => CountInv'
  BY NextCount
<1> QED
  BY <1>1, InitCount, PTL DEF Spec

\* Until power is lost or the totals are reset, completedBooks covers the books
\* that are marked finished, whichever screen wrote it last.
THEOREM FinishedBooksCounted == Spec => []FinishedCounted
<1>1. CountInv => FinishedCounted
  BY DEF CountInv
<1> QED
  BY <1>1, CountInvariance, PTL

\* Back in the reader, its copies hold what the statistics screen saved.
THEOREM ReaderStaysCurrent == Spec => []ReaderIsCurrent
<1>1. CountInv => ReaderIsCurrent
  BY DEF CountInv
<1> QED
  BY <1>1, CountInvariance, PTL

-----------------------------------------------------------------------------
(* Time and pages in the EPUB reader.                                      *)

\* One record saved changes the sums by what that record changes.
LEMMA SumsSaved ==
  ASSUME TypeOK, NEW b \in Books, NEW rec \in Stats, book' = [book EXCEPT ![b] = rec]
  PROVE  /\ SumOver(Seconds)' + book[b].secs = SumOver(Seconds) + rec.secs
         /\ SumOver(Pages)' + book[b].pages = SumOver(Pages) + rec.pages
<1>1. ASSUME NEW c \in Books
      PROVE  book[c].secs \in Nat /\ book[c].pages \in Nat
  <2>1. book[c] \in Stats
    BY DEF TypeOK
  <2> QED
    BY <2>1, StatsFields
<1>2. Seconds \in [Books -> Nat] /\ Pages \in [Books -> Nat]
  BY <1>1 DEF Seconds, Pages
<1>3. /\ Seconds' = [Seconds EXCEPT ![b] = rec.secs]
      /\ Pages' = [Pages EXCEPT ![b] = rec.pages]
  BY DEF Seconds, Pages, TypeOK
<1>4. SumOver([Seconds EXCEPT ![b] = rec.secs]) + Seconds[b] = SumOver(Seconds) + rec.secs
  BY <1>2, StatsFields, SumOfChanged
<1>5. SumOver([Pages EXCEPT ![b] = rec.pages]) + Pages[b] = SumOver(Pages) + rec.pages
  BY <1>2, StatsFields, SumOfChanged
<1> QED
  BY <1>3, <1>4, <1>5 DEF Seconds, Pages

\* Both sums are numbers.
LEMMA SumsType == TypeOK => SumOver(Seconds) \in Nat /\ SumOver(Pages) \in Nat
<1> SUFFICES ASSUME TypeOK
             PROVE  SumOver(Seconds) \in Nat /\ SumOver(Pages) \in Nat
  OBVIOUS
<1>1. ASSUME NEW c \in Books
      PROVE  book[c].secs \in Nat /\ book[c].pages \in Nat
  <2>1. book[c] \in Stats
    BY DEF TypeOK
  <2> QED
    BY <2>1, StatsFields
<1>2. Seconds \in [Books -> Nat] /\ Pages \in [Books -> Nat]
  BY <1>1 DEF Seconds, Pages
<1> QED
  BY <1>2, SumType

\* In the next state as well.
LEMMA SumsTypeNext == TypeOK' => SumOver(Seconds)' \in Nat /\ SumOver(Pages)' \in Nat
<1>1. (TypeOK => SumOver(Seconds) \in Nat /\ SumOver(Pages) \in Nat)'
  BY SumsType, PTL
<1> QED
  BY <1>1

\* The initial state satisfies the invariant.
LEMMA InitSession == Init => SessionInv
<1> SUFFICES ASSUME Init
             PROVE  SessionInv
  OBVIOUS
<1>1. SumOver(Seconds) = 0 /\ SumOver(Pages) = 0
  BY SumOfZeros DEF Init, NewStats, Seconds, Pages
<1>2. TotalsFollow
  BY <1>1 DEF Init, NewGlobal, NewTotal, TotalsFollow
<1>3. CardWithinSession /\ CopiesFollow
  BY DEF Init, CardWithinSession, WithinSession, CopiesFollow
<1> QED
  BY <1>2, <1>3, InitTypes DEF SessionInv

\* With the EPUB reader every step keeps the invariant.
LEMMA NextSession ==
  ASSUME Format = "epub", SessionInv, [Next]_vars
  PROVE  SessionInv'
<1>1. TypeOK /\ TypeOK' /\ CardWithinSession /\ CopiesFollow /\ TotalsFollow
  BY NextTypes DEF SessionInv
<1>2. /\ open \in Books /\ book \in [Books -> Stats] /\ stats \in Stats /\ globalStats \in GlobalStats
      /\ shown.stats \in Stats /\ shown.globalStats \in GlobalStats /\ global \in GlobalStats
      /\ session \in Nat /\ turned \in Nat /\ atOpen \in Stats /\ removed \in Total /\ faults \in Nat
      /\ book[open] \in Stats
  BY <1>1 DEF TypeOK
<1>3. /\ stats.secs \in Nat /\ stats.pages \in Nat
      /\ shown.stats.secs \in Nat /\ shown.stats.pages \in Nat
      /\ atOpen.secs \in Nat /\ atOpen.pages \in Nat
      /\ book[open].secs \in Nat /\ book[open].pages \in Nat
  BY <1>2, StatsFields
<1>4. /\ global.secs \in Nat /\ global.pages \in Nat
      /\ globalStats.secs \in Nat /\ globalStats.pages \in Nat
      /\ shown.globalStats.secs \in Nat /\ shown.globalStats.pages \in Nat
      /\ removed.secs \in Nat /\ removed.pages \in Nat
  BY <1>2, GlobalFields DEF Total
<1>5. SumOver(Seconds) \in Nat /\ SumOver(Pages) \in Nat
  BY <1>1, SumsType
<1>6. SumOver(Seconds)' \in Nat /\ SumOver(Pages)' \in Nat
  BY <1>1, SumsTypeNext
<1>7. ASSUME UNCHANGED book
      PROVE  SumOver(Seconds)' = SumOver(Seconds) /\ SumOver(Pages)' = SumOver(Pages)
  BY <1>7 DEF Seconds, Pages
<1>8. ASSUME NEW b \in Books
      PROVE  book[b] \in Stats /\ book[b].secs \in Nat /\ book[b].pages \in Nat
  <2>1. book[b] \in Stats
    BY <1>2
  <2> QED
    BY <2>1, StatsFields
<1>9. ASSUME NEW s
      PROVE  faults = 0 => /\ WithRemoved(s).secs = removed.secs + s.secs
                           /\ WithRemoved(s).pages = removed.pages + s.pages
  BY DEF WithRemoved
<1>10. NewStats \in Stats /\ NewStats.secs = 0 /\ NewStats.pages = 0
  BY NewTypes DEF NewStats
<1> SUFFICES CardWithinSession' /\ CopiesFollow' /\ TotalsFollow'
  BY <1>1 DEF SessionInv
<1>11. ASSUME NEW b \in Books, OnEnter(b)
       PROVE  CardWithinSession' /\ CopiesFollow' /\ TotalsFollow'
  <2>1. /\ screen = "home" /\ screen' = "reader" /\ open' = b /\ stats' = book[b] /\ atOpen' = book[b]
        /\ globalStats' = global /\ session' = 0 /\ turned' = 0
        /\ UNCHANGED <<book, removed, faults>>
    BY <1>11 DEF OnEnter, files
  <2> QED
    BY <1>1, <1>7, <1>8, <2>1 DEF CardWithinSession, WithinSession, CopiesFollow, TotalsFollow
<1>12. ASSUME NEW b \in Books, OpenFromHome(b)
       PROVE  CardWithinSession' /\ CopiesFollow' /\ TotalsFollow'
  <2>1. /\ screen = "home" /\ screen' = "homeStats" /\ open' = b
        /\ shown'.stats = book[b] /\ shown'.globalStats = global
        /\ UNCHANGED <<book, global, removed, faults>>
    BY <1>12 DEF OpenFromHome, files
  <2> QED
    BY <1>1, <1>7, <2>1 DEF CardWithinSession, WithinSession, CopiesFollow, TotalsFollow
<1>13. ASSUME NEW b \in Books, ToggleFinished(b)
       PROVE  CardWithinSession' /\ CopiesFollow' /\ TotalsFollow'
  <2> DEFINE rec == [book[b] EXCEPT !.done = ~book[b].done]
  <2>1. /\ screen = "home" /\ screen' = "home" /\ book' = [book EXCEPT ![b] = rec]
        /\ UNCHANGED <<removed, faults>>
    BY <1>13 DEF ToggleFinished
  <2>2. rec.secs = book[b].secs /\ rec.pages = book[b].pages
    OBVIOUS
  <2>3. rec \in Stats
    BY <1>8, StatsFields, StatsEdits
  <2>4. global'.secs = global.secs /\ global'.pages = global.pages
    BY <1>2, <1>8, <1>13, StatsFields, CountedType DEF ToggleFinished
  <2> HIDE DEF rec
  <2>5. SumOver(Seconds)' = SumOver(Seconds) /\ SumOver(Pages)' = SumOver(Pages)
    <3>1. /\ SumOver(Seconds)' + book[b].secs = SumOver(Seconds) + book[b].secs
          /\ SumOver(Pages)' + book[b].pages = SumOver(Pages) + book[b].pages
      BY <1>1, <2>1, <2>2, <2>3, SumsSaved
    <3> QED
      BY <1>5, <1>6, <1>8, <3>1
  <2> QED
    BY <1>1, <2>1, <2>4, <2>5 DEF CardWithinSession, WithinSession, CopiesFollow, TotalsFollow
<1>14. ASSUME NEW b \in Books, DeleteFromHome(b)
       PROVE  CardWithinSession' /\ CopiesFollow' /\ TotalsFollow'
  <2>1. /\ screen = "home" /\ screen' = "home" /\ book' = [book EXCEPT ![b] = NewStats]
        /\ removed' = WithRemoved(book[b])
        /\ UNCHANGED <<global, faults>>
    BY <1>14 DEF DeleteFromHome
  <2>2. /\ SumOver(Seconds)' + book[b].secs = SumOver(Seconds) + 0
        /\ SumOver(Pages)' + book[b].pages = SumOver(Pages) + 0
    BY <1>1, <1>10, <2>1, SumsSaved
  <2> QED
    BY <1>1, <1>4, <1>5, <1>6, <1>8, <1>9, <2>1, <2>2
       DEF CardWithinSession, WithinSession, CopiesFollow, TotalsFollow
<1>15. ASSUME NEW forwards \in BOOLEAN, ReadPage(forwards)
       PROVE  CardWithinSession' /\ CopiesFollow' /\ TotalsFollow'
  <2>1. /\ screen = "reader" /\ session' = session + 1
        /\ UNCHANGED <<book, open, screen, atOpen, removed, faults>>
    BY <1>15 DEF ReadPage, files
  <2>2. stats'.secs = stats.secs /\ globalStats'.secs = globalStats.secs
    BY <1>2, <1>15 DEF ReadPage, Stats, GlobalStats
  <2>3. \/ /\ stats'.pages = stats.pages + 1 /\ globalStats'.pages = globalStats.pages + 1
           /\ turned' = turned + 1
        \/ /\ stats'.pages = stats.pages /\ globalStats'.pages = globalStats.pages
           /\ turned' = turned
    BY <1>2, <1>15 DEF ReadPage, Stats, GlobalStats
  <2>4. CardWithinSession'
    BY <1>1, <1>2, <1>3, <2>1, <2>3 DEF CardWithinSession, WithinSession
  <2>5. CopiesFollow'
    BY <1>1, <1>2, <1>3, <2>1, <2>2, <2>3 DEF CopiesFollow
  <2>6. TotalsFollow'
    <3>1. faults = 0 =>
            /\ globalStats.secs + book[open].secs = removed.secs + SumOver(Seconds) + stats.secs
            /\ globalStats.pages + book[open].pages = removed.pages + SumOver(Pages) + stats.pages
      BY <1>1, <2>1 DEF TotalsFollow
    <3>2. faults = 0 =>
            /\ globalStats'.secs + book'[open].secs = removed'.secs + SumOver(Seconds)' + stats'.secs
            /\ globalStats'.pages + book'[open].pages = removed'.pages + SumOver(Pages)' + stats'.pages
      <4>1. /\ SumOver(Seconds)' = SumOver(Seconds) /\ SumOver(Pages)' = SumOver(Pages)
            /\ book'[open] = book[open] /\ removed' = removed
        BY <1>7, <2>1
      <4>2. stats'.pages + globalStats.pages = stats.pages + globalStats'.pages /\ globalStats'.pages \in Nat
        BY <1>3, <1>4, <2>3
      <4>3. stats'.pages \in Nat
        BY <1>3, <2>3
      <4>4. faults = 0 => globalStats'.secs + book'[open].secs = removed'.secs + SumOver(Seconds)' + stats'.secs
        BY <2>2, <3>1, <4>1
      <4>5. faults = 0 =>
              globalStats.pages + book'[open].pages = removed'.pages + SumOver(Pages)' + stats.pages
        BY <3>1, <4>1
      <4>6. /\ book'[open].pages \in Nat /\ removed'.pages \in Nat /\ SumOver(Pages)' \in Nat
        BY <1>3, <1>4, <1>6, <4>1
      <4>7. faults = 0 =>
              globalStats'.pages + book'[open].pages = removed'.pages + SumOver(Pages)' + stats'.pages
        BY <1>3, <1>4, <4>2, <4>3, <4>5, <4>6
      <4> QED
        BY <4>4, <4>7
    <3> QED
      BY <2>1, <3>2 DEF TotalsFollow
  <2> QED
    BY <2>4, <2>5, <2>6
<1>16. ASSUME NEW date \in Dates, NEW done \in BOOLEAN, Edit(date, done)
       PROVE  CardWithinSession' /\ CopiesFollow' /\ TotalsFollow'
  <2>1. shown'.stats.secs = shown.stats.secs /\ shown'.stats.pages = shown.stats.pages
    BY <1>2, <1>16 DEF Edit, Stats
  <2>2. /\ shown'.globalStats.secs = shown.globalStats.secs
        /\ shown'.globalStats.pages = shown.globalStats.pages
    <3>1. shown'.globalStats = Counted(shown.globalStats, shown.stats.done, done)
      BY <1>16 DEF Edit
    <3>2. shown.stats.done \in BOOLEAN
      BY <1>2, StatsFields
    <3> QED
      BY <1>2, <3>1, <3>2, CountedType
  <2>3. UNCHANGED <<book, global, screen, open, stats, globalStats, session, atOpen, turned, removed, faults>>
    BY <1>16 DEF Edit, files, reader, opened
  <2> QED
    BY <1>1, <1>7, <2>1, <2>2, <2>3 DEF CardWithinSession, WithinSession, CopiesFollow, TotalsFollow
<1>17. CASE SetBookCompleted
  <2>1. /\ screen = "reader" /\ book' = [book EXCEPT ![open] = stats']
        /\ UNCHANGED <<screen, open, session, atOpen, turned, removed, faults>>
    BY <1>17 DEF SetBookCompleted, SaveBoth, opened
  <2>2. stats'.secs = stats.secs /\ stats'.pages = stats.pages
    BY <1>17 DEF SetBookCompleted
  <2>3. globalStats'.secs = globalStats.secs /\ globalStats'.pages = globalStats.pages
    BY <1>2, <1>17, StatsFields, CountedType DEF SetBookCompleted
  <2>4. stats' \in Stats /\ book'[open] = stats'
    BY <1>1, <2>1 DEF TypeOK
  <2>5. /\ SumOver(Seconds)' + book[open].secs = SumOver(Seconds) + stats.secs
        /\ SumOver(Pages)' + book[open].pages = SumOver(Pages) + stats.pages
    BY <1>1, <1>2, <2>1, <2>2, <2>4, SumsSaved
  <2>6. CardWithinSession'
    BY <1>1, <1>2, <1>3, <2>1, <2>2 DEF CardWithinSession, WithinSession, CopiesFollow
  <2>7. CopiesFollow'
    BY <1>1, <2>1, <2>2 DEF CopiesFollow
  <2>8. TotalsFollow'
    BY <1>1, <1>3, <1>4, <1>5, <1>6, <2>1, <2>3, <2>4, <2>5 DEF TotalsFollow
  <2> QED
    BY <2>6, <2>7, <2>8
<1>18. CASE SaveStats
  <2>1. /\ screen = "reader" /\ book' = [book EXCEPT ![open] = stats]
        /\ UNCHANGED <<screen, open, stats, globalStats, session, atOpen, turned, removed, faults>>
    BY <1>18 DEF SaveStats, reader, opened
  <2>2. book'[open] = stats
    BY <1>2, <2>1
  <2>3. /\ SumOver(Seconds)' + book[open].secs = SumOver(Seconds) + stats.secs
        /\ SumOver(Pages)' + book[open].pages = SumOver(Pages) + stats.pages
    BY <1>1, <1>2, <2>1, SumsSaved
  <2>4. CardWithinSession'
    BY <1>1, <1>2, <1>3, <2>1 DEF CardWithinSession, WithinSession, CopiesFollow
  <2>5. CopiesFollow'
    BY <1>1, <2>1 DEF CopiesFollow
  <2>6. TotalsFollow'
    <3>1. faults = 0 =>
            /\ globalStats.secs + book[open].secs = removed.secs + SumOver(Seconds) + stats.secs
            /\ globalStats.pages + book[open].pages = removed.pages + SumOver(Pages) + stats.pages
      BY <1>1, <2>1 DEF TotalsFollow
    <3>2. faults = 0 =>
            /\ globalStats'.secs + book'[open].secs = removed'.secs + SumOver(Seconds)' + stats'.secs
            /\ globalStats'.pages + book'[open].pages = removed'.pages + SumOver(Pages)' + stats'.pages
      BY <1>3, <1>4, <1>5, <1>6, <2>1, <2>2, <2>3, <3>1
    <3> QED
      BY <2>1, <3>2 DEF TotalsFollow
  <2> QED
    BY <2>4, <2>5, <2>6
<1>19. CASE DeleteStats
  <2>1. /\ screen = "reader" /\ book' = [book EXCEPT ![open] = NewStats]
        /\ stats' = NewStats /\ atOpen' = NewStats /\ session' = 0 /\ turned' = 0
        /\ removed' = WithRemoved(stats)
        /\ UNCHANGED <<screen, open, globalStats, faults>>
    BY <1>19 DEF DeleteStats
  <2>2. book'[open] = NewStats
    BY <1>2, <2>1
  <2>3. /\ SumOver(Seconds)' + book[open].secs = SumOver(Seconds) + 0
        /\ SumOver(Pages)' + book[open].pages = SumOver(Pages) + 0
    BY <1>1, <1>2, <1>10, <2>1, SumsSaved
  <2>4. CardWithinSession'
    BY <1>10, <2>1, <2>2 DEF CardWithinSession, WithinSession
  <2>5. CopiesFollow'
    BY <1>10, <2>1 DEF CopiesFollow
  <2>6. TotalsFollow'
    <3>1. faults = 0 =>
            /\ globalStats.secs + book[open].secs = removed.secs + SumOver(Seconds) + stats.secs
            /\ globalStats.pages + book[open].pages = removed.pages + SumOver(Pages) + stats.pages
      BY <1>1, <2>1 DEF TotalsFollow
    <3>2. faults = 0 =>
            /\ globalStats'.secs + book'[open].secs = removed'.secs + SumOver(Seconds)' + stats'.secs
            /\ globalStats'.pages + book'[open].pages = removed'.pages + SumOver(Pages)' + stats'.pages
      BY <1>3, <1>4, <1>5, <1>6, <1>9, <1>10, <2>1, <2>2, <2>3, <3>1
    <3> QED
      BY <2>1, <3>2 DEF TotalsFollow
  <2> QED
    BY <2>4, <2>5, <2>6
<1>20. CASE screen \in {"reader", "stats"} /\ OnExit
  <2>1. /\ screen' = "home" /\ book' = [book EXCEPT ![open] = CommittedStats]
        /\ global' = CommittedGlobal
        /\ UNCHANGED <<open, removed, faults>>
    BY <1>20 DEF OnExit, SaveBoth
  <2>2. /\ SumOver(Seconds)' + book[open].secs = SumOver(Seconds) + CommittedStats.secs
        /\ SumOver(Pages)' + book[open].pages = SumOver(Pages) + CommittedStats.pages
    BY <1>1, <1>2, <2>1, SumsSaved, CommittedTypes
  <2>3. SessionTime \in Nat
    BY <1>2 DEF SessionTime
  <2>4. /\ CommittedStats.secs = stats.secs + SessionTime
        /\ CommittedStats.pages = stats.pages
        /\ global'.secs = globalStats.secs + SessionTime
        /\ global'.pages = globalStats.pages
    BY <1>1, <2>1, CommittedTypes
  <2>5. CardWithinSession'
    BY <2>1 DEF CardWithinSession, WithinSession
  <2>6. CopiesFollow'
    BY <2>1 DEF CopiesFollow
  <2>7. TotalsFollow'
    BY <1>1, <1>3, <1>4, <1>5, <1>6, <1>20, <2>1, <2>2, <2>3, <2>4 DEF TotalsFollow
  <2> QED
    BY <2>5, <2>6, <2>7
<1>21. CASE OpenReadingStats
  <2>1. shown'.stats.secs = stats.secs + session /\ shown'.stats.pages = stats.pages
    BY <1>2, <1>21 DEF OpenReadingStats, Stats
  <2>2. /\ screen = "reader" /\ screen' = "stats"
        /\ UNCHANGED <<book, open, stats, globalStats, session, atOpen, turned, removed, faults>>
    BY <1>21 DEF OpenReadingStats, files, reader, opened
  <2> QED
    BY <1>1, <1>7, <2>1, <2>2 DEF CardWithinSession, WithinSession, CopiesFollow, TotalsFollow
<1>22. CASE SaveEdits
  <2>1. /\ screen \in {"stats", "homeStats"} /\ book' = [book EXCEPT ![open] = shown.stats]
        /\ global' = shown.globalStats
        /\ UNCHANGED <<screen, open, stats, globalStats, session, atOpen, turned, removed, faults>>
    BY <1>22 DEF SaveEdits, SaveBoth, reader, opened
  <2>2. shown'.stats = shown.stats /\ shown'.globalStats = shown.globalStats
    BY <1>22 DEF SaveEdits
  <2>3. /\ SumOver(Seconds)' + book[open].secs = SumOver(Seconds) + shown.stats.secs
        /\ SumOver(Pages)' + book[open].pages = SumOver(Pages) + shown.stats.pages
    BY <1>1, <1>2, <2>1, SumsSaved
  <2>4. CardWithinSession'
    BY <1>1, <1>3, <2>1 DEF CardWithinSession, WithinSession, CopiesFollow
  <2>5. CopiesFollow'
    BY <1>1, <2>1, <2>2 DEF CopiesFollow
  <2>6. TotalsFollow'
    BY <1>1, <1>2, <1>3, <1>4, <1>5, <1>6, <2>1, <2>3 DEF TotalsFollow, CopiesFollow
  <2> QED
    BY <2>4, <2>5, <2>6
<1>23. CASE HandleBookStatsReturn
  <2>1. stats'.secs = stats.secs /\ stats'.pages = stats.pages
    BY <1>2, <1>23 DEF HandleBookStatsReturn, Stats
  <2>2. globalStats'.secs = globalStats.secs /\ globalStats'.pages = globalStats.pages
    BY <1>2, <1>23 DEF HandleBookStatsReturn, GlobalStats
  <2>3. /\ screen = "stats" /\ screen' = "reader"
        /\ UNCHANGED <<book, open, session, atOpen, turned, removed, faults>>
    BY <1>23 DEF HandleBookStatsReturn, files, opened
  <2> QED
    BY <1>1, <1>7, <2>1, <2>2, <2>3 DEF CardWithinSession, WithinSession, CopiesFollow, TotalsFollow
<1>24. CASE LeaveToHome
  <2>1. screen = "homeStats" /\ screen' = "home" /\ UNCHANGED <<removed, faults>>
    BY <1>24 DEF LeaveToHome
  <2>2. SumOver(Seconds)' = SumOver(Seconds) /\ SumOver(Pages)' = SumOver(Pages)
        /\ global'.secs = global.secs /\ global'.pages = global.pages
    <3>1. CASE UNCHANGED files
      BY <1>7, <3>1 DEF files
    <3>2. CASE SaveBoth(shown.stats, shown.globalStats)
      <4>1. /\ SumOver(Seconds)' + book[open].secs = SumOver(Seconds) + shown.stats.secs
            /\ SumOver(Pages)' + book[open].pages = SumOver(Pages) + shown.stats.pages
        BY <1>1, <1>2, <3>2, SumsSaved DEF SaveBoth
      <4> QED
        BY <1>1, <1>3, <1>5, <1>6, <2>1, <3>2, <4>1 DEF SaveBoth, CopiesFollow
    <3> QED
      BY <1>24, <3>1, <3>2 DEF LeaveToHome
  <2> QED
    BY <1>1, <2>1, <2>2 DEF CardWithinSession, WithinSession, CopiesFollow, TotalsFollow
<1>25. CASE ResetLocal \/ PowerLoss \/ PowerLossInSave
  <2>1. faults' = faults + 1 /\ screen' \in {"home", "off"}
    BY <1>25 DEF ResetLocal, PowerLoss, PowerLossInSave, SaveCut, PowerGone
  <2> QED
    BY <1>2, <2>1 DEF CardWithinSession, WithinSession, CopiesFollow, TotalsFollow
<1>26. CASE PowerOn
  BY <1>1, <1>26 DEF PowerOn, CardWithinSession, WithinSession, CopiesFollow, TotalsFollow
<1>27. CASE UNCHANGED vars
  <2>1. UNCHANGED <<book, global, screen, open, stats, globalStats, session, shown, atOpen, turned,
                    removed, faults>>
    BY <1>27 DEF vars, files, reader, opened
  <2> QED
    BY <1>1, <1>7, <2>1 DEF CardWithinSession, WithinSession, CopiesFollow, TotalsFollow
<1> QED
  BY <1>11, <1>12, <1>13, <1>14, <1>15, <1>16, <1>17, <1>18, <1>19, <1>20, <1>21, <1>22, <1>23, <1>24, <1>25,
     <1>26, <1>27 DEF Next, LeaveReader, ReplaceBoth

\* The invariant holds for the EPUB reader.
LEMMA SessionInvariance ==
  ASSUME Format = "epub"
  PROVE  Spec => []SessionInv
<1>1. SessionInv /\ [Next]_vars => SessionInv'
  BY NextSession
<1> QED
  BY <1>1, InitSession, PTL DEF Spec

\* The totals of the device are those of its books and of those deleted.
THEOREM TotalsStayTrue ==
  ASSUME Format = "epub"
  PROVE  Spec => []TotalsAgree
<1>1. SessionInv => TotalsAgree
  BY DEF SessionInv, TotalsFollow, TotalsAgree
<1>2. Spec => []SessionInv
  BY SessionInvariance
<1> QED
  BY <1>1, <1>2, PTL

\* What leaving the book writes, from the reader or from over it.
LEMMA LeavingWrites ==
  ASSUME SessionInv, [Next]_vars, LeftBook
  PROVE  /\ book'[open].secs = atOpen.secs + SessionTime
         /\ book'[open].pages = atOpen.pages + turned
<1>1. /\ TypeOK /\ open \in Books /\ book \in [Books -> Stats]
      /\ stats.secs = atOpen.secs /\ stats.pages = atOpen.pages + turned
  BY DEF SessionInv, TypeOK, LeftBook, CopiesFollow
<1>2. CASE OnExit
  <2>1. book'[open] = CommittedStats
    BY <1>1, <1>2 DEF OnExit, SaveBoth
  <2> QED
    BY <1>1, <2>1, CommittedTypes
<1>3. CASE ~OnExit
  BY <1>3 DEF LeftBook, Next, OnEnter, OpenFromHome, ToggleFinished, DeleteFromHome, ReadPage, Edit,
     SetBookCompleted, SaveStats, DeleteStats, LeaveReader, OpenReadingStats, SaveEdits,
     HandleBookStatsReturn, ReplaceBoth, LeaveToHome, ResetLocal, PowerLoss, PowerLossInSave, SaveCut,
     PowerGone, PowerOn, vars
<1> QED
  BY <1>2, <1>3

\* What a power cut leaves of the records, in any step.
LEMMA CutLeaves ==
  ASSUME SessionInv, [Next]_vars, screen # "off", screen' = "off"
  PROVE  \E b \in Books :
           /\ \A c \in Books \ {b} : book'[c] = book[c]
           /\ \/ book'[b] = NewStats
              \/ screen \in {"reader", "stats"} /\ b = open /\ WithinSession(book'[b])
              \/ /\ screen \in {"home", "homeStats"}
                 /\ book'[b].secs = book[b].secs /\ book'[b].pages = book[b].pages
<1>1. /\ TypeOK /\ CardWithinSession /\ CopiesFollow
      /\ open \in Books /\ book \in [Books -> Stats] /\ stats \in Stats /\ shown.stats \in Stats
      /\ screen \in {"home", "reader", "stats", "homeStats", "off"}
      /\ session \in Nat /\ turned \in Nat /\ atOpen \in Stats
  BY DEF SessionInv, TypeOK
<1>2. atOpen.secs \in Nat /\ atOpen.pages \in Nat
  BY <1>1, StatsFields
<1>3. ASSUME NEW b \in Books, NEW rec, NEW glob, SaveCut(b, rec, glob)
      PROVE  /\ \A c \in Books \ {b} : book'[c] = book[c]
             /\ book'[b] \in {NewStats, rec}
  BY <1>1, <1>3 DEF SaveCut
<1>4. CASE PowerLoss
  <2>1. book' = book
    BY <1>4 DEF PowerLoss, files
  <2> QED
    BY <1>1, <2>1 DEF CardWithinSession
<1>5. CASE screen \in {"reader", "stats"} /\ \E glob : SaveCut(open, CommittedStats, glob)
  <2>1. WithinSession(CommittedStats)
    BY <1>1, <1>2, <1>5, CommittedTypes DEF WithinSession, CopiesFollow
  <2> QED
    BY <1>1, <1>3, <1>5, <2>1
<1>6. CASE screen = "reader" /\ SaveCut(open, [stats EXCEPT !.done = ~stats.done], global)
  <2> DEFINE rec == [stats EXCEPT !.done = ~stats.done]
  <2>1. rec.secs = stats.secs /\ rec.pages = stats.pages
    BY <1>1 DEF Stats
  <2>2. WithinSession(rec)
    BY <1>1, <1>2, <1>6, <2>1 DEF WithinSession, CopiesFollow
  <2> QED
    BY <1>1, <1>3, <1>6, <2>2
<1>7. CASE screen = "home" /\ \E b \in Books : SaveCut(b, [book[b] EXCEPT !.done = ~book[b].done], global)
  <2>1. PICK b \in Books : SaveCut(b, [book[b] EXCEPT !.done = ~book[b].done], global)
    BY <1>7
  <2> DEFINE rec == [book[b] EXCEPT !.done = ~book[b].done]
  <2>2. book[b] \in Stats
    BY <1>1
  <2>3. rec.secs = book[b].secs /\ rec.pages = book[b].pages
    BY <2>2 DEF Stats
  <2> QED
    BY <1>3, <1>7, <2>1, <2>3
<1>8. CASE screen \in {"stats", "homeStats"} /\ SaveCut(open, shown.stats, global)
  <2>1. CASE screen = "stats"
    <3>1. WithinSession(shown.stats)
      BY <1>1, <1>2, <2>1 DEF WithinSession, CopiesFollow
    <3> QED
      BY <1>1, <1>3, <1>8, <2>1, <3>1
  <2>2. CASE screen = "homeStats"
    BY <1>1, <1>3, <1>8, <2>2 DEF CopiesFollow
  <2> QED
    BY <1>8, <2>1, <2>2
<1>9. PowerLoss \/ PowerLossInSave
  BY DEF Next, OnEnter, OpenFromHome, ToggleFinished, DeleteFromHome, ReadPage, Edit,
     SetBookCompleted, SaveStats, DeleteStats, LeaveReader, OnExit, OpenReadingStats, SaveEdits,
     HandleBookStatsReturn, ReplaceBoth, LeaveToHome, ResetLocal, PowerOn, vars
<1> QED
  BY <1>4, <1>5, <1>6, <1>7, <1>8, <1>9 DEF PowerLossInSave

\* A power cut costs the record of at most one book, and leaves on the card no
\* more of the session than was read (BookReadingStats::save(), onExit()).
THEOREM CutsAreBounded ==
  ASSUME Format = "epub"
  PROVE  Spec => CutCostsOneRecord
<1>1. SessionInv /\ [Next]_vars =>
        [screen # "off" /\ screen' = "off" =>
           \E b \in Books :
             /\ \A c \in Books \ {b} : book'[c] = book[c]
             /\ \/ book'[b] = NewStats
                \/ screen \in {"reader", "stats"} /\ b = open /\ WithinSession(book'[b])
                \/ /\ screen \in {"home", "homeStats"}
                   /\ book'[b].secs = book[b].secs /\ book'[b].pages = book[b].pages]_vars
  BY CutLeaves
<1>2. Spec => []SessionInv
  BY SessionInvariance
<1> QED
  BY <1>1, <1>2, PTL DEF Spec, CutCostsOneRecord

\* Leaving the book adds the session to its record exactly once.
THEOREM SessionCountedOnce ==
  ASSUME Format = "epub"
  PROVE  Spec => TimeCountedOnce
<1>1. SessionInv /\ [Next]_vars =>
        [LeftBook => book'[open].secs = atOpen.secs + SessionTime]_vars
  BY LeavingWrites
<1>2. Spec => []SessionInv
  BY SessionInvariance
<1> QED
  BY <1>1, <1>2, PTL DEF Spec, TimeCountedOnce

\* Leaving the book has every page turned in it on the card.
THEOREM PagesCountedOnce ==
  ASSUME Format = "epub"
  PROVE  Spec => PageTurnsKept
<1>1. SessionInv /\ [Next]_vars =>
        [LeftBook => book'[open].pages = atOpen.pages + turned]_vars
  BY LeavingWrites
<1>2. Spec => []SessionInv
  BY SessionInvariance
<1> QED
  BY <1>1, <1>2, PTL DEF Spec, PageTurnsKept

=============================================================================
