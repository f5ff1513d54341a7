SPECIFICATION Spec
CONSTANTS
  c1 = c1
  c2 = c2
  c3 = c3
  s1 = s1
  s2 = s2
  o1 = o1
  o2 = o2
  Calls = {c1}
  MaxCalls = 2
  Skus = {s1, s2}
  Orders = {o1, o2}
  OrderSku <- MCOrderSku
  OrderQty <- MCOrderQty
  Requests <- MCDelivery
  NoItem = NoItem
  None = None
INVARIANT PostedOnce
CHECK_DEADLOCK FALSE
