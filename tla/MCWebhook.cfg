\* Starts, speech updates and a terminal report in every order, with failures and removal.
CONSTANTS
  c1 = c1
  a1 = a1
  h1 = h1
  h2 = h2
  None = None
  Call = {c1}
  Agent = {a1}
  AgentOf <- MCAgentOf
  Process = {h1, h2}
  Handler = {h1, h2}
  Key <- MCKey
  Plan <- MCPlan
  MaxTxn = 20
  Message <- LiveMessages
  MaxDelivery = 1
  Fault = {"abort", "crash", "remove", "redis", "broker"}
SPECIFICATION MCSpec
SYMMETRY Symmetry
INVARIANTS WebhookTypeOK LiveHasSession
PROPERTY LiveFieldsKept
