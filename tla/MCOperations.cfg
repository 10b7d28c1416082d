\* A governed call is closed, evaluated and listed while its agent comes and goes.
CONSTANTS
  c1 = c1
  a1 = a1
  h1 = h1
  h2 = h2
  w1 = w1
  w2 = w2
  None = None
  Call = {c1}
  Agent = {a1}
  AgentOf <- MCAgentOf
  Handler = {h1, h2}
  Worker = {w1}
  Process = {h1, h2, w1}
  Key <- MCKey
  Plan <- MCPlan
  MaxTxn = 20
  Message <- EndMessages
  MaxDelivery = 1
  Fault = {"remove"}
  Turns <- MCTurns
  HasSilence = TRUE
  Verdict <- NoVerdict
  TaskFault = {}
  MaxRun = 4
  id1 = id1
  id2 = id2
  r1 = r1
  AgentId = {id1, id2}
  Reader = {r1}
SPECIFICATION OperationsFairSpec

INVARIANTS ReportSeesEnrichment SessionsListed ViewsHangTogether
PROPERTIES ClosedIsEvaluated NobodyStuck EndCloses
