SPECIFICATION Spec
CONSTANTS
  c1 = c1
  c2 = c2
  Calls = {c1, c2}
  MaxCalls = 3
  Factories <- MCFactories
  InitialOrders <- MCInitialOrders
  NoStage = NoStage
SYMMETRY Slots
INVARIANTS TypeOK WorkIsDoneOnce FloorInStep WholeChainIsRedone AutoStagesAreSkipped FinishedIsMade
PROPERTIES SyncYieldsToStaff
CHECK_DEADLOCK FALSE
