SPECIFICATION LiveSpec
CONSTANTS
  f1 = f1  f2 = f2  f3 = f3
  Images = {f1, f2, f3}
  Size <- MCSize
  PartSize = 3
  BlockSize = 2
  MaxSeq = 4
  Bad = Bad  Absent = Absent  Erased = Erased  Garbage = Garbage
INVARIANTS InstalledAsPromised
PROPERTIES RunningIntact Implements
PROPERTY InstallEnds
