SPECIFICATION Spec
CONSTANTS
  c1 = c1
  c2 = c2
  c3 = c3
  s1 = s1
  s2 = s2
  o1 = o1
  o2 = o2
  Calls = {c1, c2, c3}
  MaxCalls = 3
  Skus = {s1, s2}
  Orders = {o1, o2}
  OrderSku <- MCOrderSku
  OrderQty <- MCOrderQty
  Requests <- MCRequests
  NoItem = NoItem
  None = None
SYMMETRY Slots
INVARIANTS TypeOK StockIsLedger DeductedAsOrdered ReceiptsAreBooked ClosingsAddUp ScansAreAnswered
PROPERTY ImplementsStockLedger
CHECK_DEADLOCK FALSE
