SPECIFICATION Spec
CONSTANTS
  c1 = c1
  c2 = c2
  Calls = {c1}
  MaxCalls = 4
  Factories <- MCFactories
  InitialOrders <- MCInitialOrders
  NoStage = NoStage
INVARIANT CheckedOrdersAreWork
CHECK_DEADLOCK FALSE
