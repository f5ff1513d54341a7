SPECIFICATION WSpec
CONSTANTS
  s1 = s1
  s2 = s2
  r1 = r1
  r2 = r2
  e1 = e1
  Customers = {s1, s2}
  Requests = {r1, r2}
  ExtIds = {e1}
  NoExt = NoExt
  NoOp = NoOp
  Calls = {k1, k2}
  LimitCalls = {l1, l2}
  Kinds <- MCKinds
  LimitOps <- MCLimitOps
  Ops <- MCOps
SYMMETRY CallSymmetry
INVARIANTS TypeOK BalanceIsLedger OncePerRequest OncePerReference AnswersMatchLedger LimitTrailChains
PROPERTIES DebitsStayWithinLimit DeletedWalletIsFrozen ImplementsLedger
