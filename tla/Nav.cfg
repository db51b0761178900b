SPECIFICATION FairSpec
CONSTANTS
  Activities = {a1, a2, a3}
  NoActivity = NoActivity
  NavPerCallback = 1
INVARIANTS DrawnStaysAlive OneOwner HandlerMatchesChild WaitIsServed
PROPERTIES SyncReturns PendingHandled RevealedRepainted
