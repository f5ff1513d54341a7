SPECIFICATION Spec
CONSTANTS
  o1 = o1
  o2 = o2
  i1 = i1
  i2 = i2
  d1 = d1
  d2 = d2
  d3 = d3
  p1 = p1
  p2 = p2
  Orders = {o1, o2}
  Items = {i1, i2}
  Drafts = {d1, d2, d3}
  NoDraft = NoDraft
  ItemsOf <- MCItemsOf
  DraftsOf <- MCDraftsOf
  Pushes = {p1, p2}
  TargetsOf <- MCTargetsOf
  Requests = {r1}
  Nobody = Nobody
  PushesAreQuick = TRUE
INVARIANTS CancelledNeverPushed
CHECK_DEADLOCK FALSE
