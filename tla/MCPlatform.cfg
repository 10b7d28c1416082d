\* Handlers and a worker on one failing call: a late threat, a redelivery, a crash.
CONSTANTS
  c1 = c1
  a1 = a1
  h1 = h1
  h2 = h2
  w1 = w1
  w2 = w2
  None = None
  Call = {c1}
  Agent = {a1}
  AgentOf <- MCAgentOf
  Handler = {h1, h2}
  Worker = {w1}
  Process = {h1, h2, w1}
  Key <- MCKey
  Plan <- MCPlan
  MaxTxn = 20
  Message <- FailMessages
  MaxDelivery = 2
  Fault = {"crash", "broker"}
  Turns <- NoTurns
  HasSilence = FALSE
  Verdict <- NoVerdict
  TaskFault = {"kill"}
  MaxRun = 4
SPECIFICATION MCSpec
SYMMETRY Symmetry
INVARIANTS PlatformSound EvidencesReplaced
PROPERTIES ReportStays TaskOnlyForClosed
