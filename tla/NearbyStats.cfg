SPECIFICATION Spec
CONSTANTS
  Readers = {r1, r2}
  NoReader = NoReader
  MaxEvents = 2
INVARIANTS TypeOK
PROPERTIES SyncedMeansStored ExchangeCompletes
