SPECIFICATION FairSpec
CONSTANTS
  g1 = g1
  p1 = p1
  p2 = p2
  k1 = k1
  k2 = k2
  Groups = {g1}
  Purchases = {p1, p2}
  Cancels = {c1}
  Keys = {k1, k2}
  GroupOf <- MCOneGroup
  KeyOf <- MCTwoKeys
  CarrierDedups = TRUE
INVARIANTS TypeOK OneUsableLabel EveryLabelOnTheBooks CancelledMeansVoid
PROPERTIES PurchasingResolves
CHECK_DEADLOCK FALSE
