\* One worker, two tasks of one session: the second report of a missed goal counts the flags
\* that the evaluation behind the first one recorded.
CONSTANTS
  c1 = c1
  w1 = w1
  w2 = w2
  None = None
  Outcomes = {"ended"}
  Call = {c1}
  Process = {w1}
  Worker = {w1}
  Key <- MCKey
  Plan <- MCPlan
  MaxTxn = 20
  Turns <- OneTurn
  HasSilence = FALSE
  Verdict <- OneVerdict
  TaskFault = {}
  MaxRun = 2
SPECIFICATION MCSpec

PROPERTY ScoringIdempotent
