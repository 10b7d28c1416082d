\* Every short report and call, and two evaluations with two verdicts.
CONSTANTS
  NoTime = NoTime
  Threshold = 6
  Absent = Absent
  Unit = 352800
  Row <- MCRow
  Formatted <- MCFormatted
  Timing <- MCTiming
  MaxSize = 4
  MaxRuns = 2
SPECIFICATION MCSpec
INVARIANTS ReportTypeOK TurnsAreRuns SilencesAreGaps PassIsEarned ScoresAreMeans
PROPERTIES BadNewsNeverHelps AchievedStands
