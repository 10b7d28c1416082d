\* A session.started that is not a duplicate is dropped.
CONSTANTS
  c1 = c1
  p1 = p1
  p2 = p2
  p3 = p3
  None = None
  Call = {c1}
  Process = {p1, p2}
  Key <- MCKey
  Plan <- SmallPlan
  MaxTxn = 2
SPECIFICATION MCSpec
PROPERTY OnlyDuplicateStartsDropped
