SPECIFICATION Spec
CONSTANTS
  Books = {b1}
  Format = "xtc"
  CountedFrom = 2
  NoDate = NoDate
  Dates = {NoDate, d1}
  MaxSeconds = 3
  MaxPages = 2
  MaxFinished = 2
  MaxFaults = 0
SYMMETRY BookSymmetry
PROPERTY NeverMoreThanRead
