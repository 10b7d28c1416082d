\* Two workers on one failed session, with crashes and failing transactions.
CONSTANTS
  c1 = c1
  w1 = w1
  w2 = w2
  None = None
  Outcomes = {"absent", "active", "ended", "failed"}
  Call = {c1}
  Process = {w1, w2}
  Worker = {w1, w2}
  Key <- MCKey
  Plan <- MCPlan
  MaxTxn = 20
  Turns <- MCTurns
  HasSilence = FALSE
  Verdict <- BothVerdicts
  TaskFault = {"kill", "abort"}
  MaxRun = 2
SPECIFICATION MCSpec
SYMMETRY Symmetry
INVARIANTS OneReport ReportAuditable ReportOfTrace
