\* A late session start leaves a closed call in the live store.
CONSTANTS
  c1 = c1
  a1 = a1
  h1 = h1
  h2 = h2
  None = None
  Call = {c1}
  Agent = {a1}
  AgentOf <- MCAgentOf
  Process = {h1, h2}
  Handler = {h1, h2}
  Key <- MCKey
  Plan <- MCPlan
  MaxTxn = 20
  Message <- FewMessages
  MaxDelivery = 1
  Fault = {}
SPECIFICATION MCSpec

INVARIANT LiveOnlyInProgress
