\* Two workers on one session: evidences of both evaluations stay.
CONSTANTS
  c1 = c1
  w1 = w1
  w2 = w2
  None = None
  Outcomes = {"ended"}
  Call = {c1}
  Process = {w1, w2}
  Worker = {w1, w2}
  Key <- MCKey
  Plan <- MCPlan
  MaxTxn = 20
  Turns <- OneTurn
  HasSilence = FALSE
  Verdict <- GoodVerdict
  TaskFault = {}
  MaxRun = 2
SPECIFICATION MCSpec

INVARIANT EvidencesReplaced
