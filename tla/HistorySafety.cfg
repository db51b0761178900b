SPECIFICATION Spec
CONSTANTS
  Missing = Missing
  Torn = Torn
  Newer = Newer
  Resized = Resized
  NoRecord = NoRecord
  MaxRecord = 4
INVARIANTS CleanMeansStored
PROPERTIES NewerKept
