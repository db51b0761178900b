SPECIFICATION Spec
INVARIANT KeptThroughCall
INVARIANT TrueMeansKept
INVARIANT AbortRestores
CONSTANTS
  FixedFiles <- MCFixed
  StatsFiles <- MCStats
  MaxStats = 1
  Derived = {"book.bin", "sections"}
  MaxSaves = 4
  MaxFaults = 2
  MaxCalls = 2
CHECK_DEADLOCK FALSE
