SPECIFICATION Spec
CONSTANTS
  Books = {b1, b2}
  Format = "epub"
  CountedFrom = 2
  NoDate = NoDate
  Dates = {NoDate, d1}
  MaxSeconds = 3
  MaxPages = 1
  MaxFinished = 2
  MaxFaults = 1
SYMMETRY BookSymmetry
INVARIANTS TypeOK TotalsAgree FinishedCounted ReaderIsCurrent
PROPERTIES TimeCountedOnce PageTurnsKept CutCostsOneRecord
