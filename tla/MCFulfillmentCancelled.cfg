SPECIFICATION Spec
CONSTANTS
  c1 = c1
  c2 = c2
  Calls = {c1}
  MaxCalls = 3
  Factories <- MCFactories
  InitialOrders <- MCInitialOrders
  NoStage = NoStage
PROPERTY CancelledStaysOut
CHECK_DEADLOCK FALSE
