SPECIFICATION Spec
CONSTANTS
  g1 = g1
  p1 = p1
  p2 = p2
  k1 = k1
  k2 = k2
  Groups = {g1}
  Purchases = {p1}
  Cancels = {c1}
  Keys = {k1}
  GroupOf <- MCOnePurchase
  KeyOf <- MCItsKey
  CarrierDedups = TRUE
PROPERTIES CancelledIsFinal
CHECK_DEADLOCK FALSE
