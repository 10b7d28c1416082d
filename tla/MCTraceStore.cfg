\* The webhook's and the task's plans, three processes on one call, four transactions.
CONSTANTS
  c1 = c1
  p1 = p1
  p2 = p2
  p3 = p3
  None = None
  Call = {c1}
  Process = {p1, p2, p3}
  Key <- MCKey
  Plan <- MCPlan
  MaxTxn = 4
SPECIFICATION MCSpec
SYMMETRY Processes
INVARIANTS TypeOK SequenceIntact LifecycleOrdered OncePerSession Inv
PROPERTIES AppendOnly DraftCommitted Serializable
