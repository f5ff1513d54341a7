SPECIFICATION SSpec
CONSTANTS
  g1 = g1
  g2 = g2
  p1 = p1
  p2 = p2
  p3 = p3
  k1 = k1
  Groups = {g1, g2}
  Purchases = {p1, p2, p3}
  Cancels = {}
  Keys = {k1}
  GroupOf <- MCGroupOf
  KeyOf <- MCKeyOf
  CarrierDedups = FALSE
  Seller = s1
  PriceOf <- MCPriceOf
  Topup = 3
CONSTRAINT TwoCalls
INVARIANTS STypeOK PaidBeforeBought ChargeIsAnswered RefundedOnce SameKeySameLabel
CHECK_DEADLOCK FALSE
