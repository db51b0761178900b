SPECIFICATION FairSpec
CONSTANTS
  Clients = {main, worker}
  Main = main
  RenderTask = render
  NoTask = none
  MaxContent = 2
  MaxRequests = 3
INVARIANTS WakeupOwed NoLostRequest
PROPERTIES IdleGateSound SyncShowsCallerState
PROPERTIES SyncReturns PanelSpec
