-------------------------------- MODULE Scoring ---------------------------------
(* From the facts of a trace to its evaluation report: the evidences           *)
(* (domain/evidence_builder.py), the metric catalogue and its normalisation    *)
(* (domain/scoring/catalogue.py, metric_spec.py, normalisation.py), weighted   *)
(* means (engine.py), blocking flags (flags.py) and the result (evaluator.py). *)
(* No state.                                                                   *)
(*                                                                             *)
(* A trace is given by its facts: how often each event type occurs, and what   *)
(* the payloads the builder opens hold.  The code computes with floats; here a *)
(* ratio, and a point of a score, is Unit parts, and a quotient is rounded     *)
(* down to a part.  With Unit a multiple of the numbers of turns and of the    *)
(* sums of weights, nothing is lost but in the last division.                  *)
EXTENDS Integers

CONSTANTS
  Absent,   \* the value of an evidence that was not built
  Unit      \* parts of a point

ASSUME UnitAssumption == Unit \in Nat \ {0} /\ Absent \notin Int

\* The event types that build_evidences counts.
Counted == {"CONVERSATION_AGENT_RESPONSE", "CONVERSATION_USER_INPUT",
            "CONVERSATION_INTERRUPTION_DETECTED", "CONVERSATION_GOAL_ACHIEVED",
            "CONVERSATION_GOAL_FAILED", "SYSTEM_MODEL_INVOCATION", "SYSTEM_WARNING",
            "SYSTEM_ERROR", "SYSTEM_FLAG_RAISED", "SESSION_ENDED", "SESSION_FAILED"}

\* silence: the count in the payload of the silence event, 0 without one; latencies: the
\* valid turn latencies of the terminal report, in milliseconds; duration: in seconds.
Facts == [count     : [Counted -> Nat],
          silence   : Nat,
          latencies : [number : Nat, total : Nat, longest : Nat],
          duration  : Nat \union {Absent}]

Agents(f) == f.count["CONVERSATION_AGENT_RESPONSE"]
AllTurns(f) == Agents(f) + f.count["CONVERSATION_USER_INPUT"]
Occurs(f, type) == f.count[type] > 0

------------------------------------------------------------------------------
(* Evidences.                                                                  *)

\* A rate over nothing is 0; it may exceed 1 or be negative.
Rate(numerator, denominator) ==
  IF denominator = 0 THEN 0 ELSE (numerator * Unit) \div denominator

\* Mutant: the verdict that failed wins over the one that succeeded.
GoalPessimist(f) ==
  CASE Occurs(f, "CONVERSATION_GOAL_FAILED") -> 0
    [] ~ Occurs(f, "CONVERSATION_GOAL_FAILED") /\ Occurs(f, "CONVERSATION_GOAL_ACHIEVED") -> 1
    [] OTHER -> Absent

GoalCompletion(f) ==
  CASE Occurs(f, "CONVERSATION_GOAL_ACHIEVED") -> 1
    [] ~ Occurs(f, "CONVERSATION_GOAL_ACHIEVED") /\ Occurs(f, "CONVERSATION_GOAL_FAILED") -> 0
    [] OTHER -> Absent

UnrecoveredError(f) ==
  IF Occurs(f, "SYSTEM_ERROR") /\ Occurs(f, "SESSION_FAILED") THEN 1 ELSE 0

\* build_evidences: the value of each criterion a metric or a flag reads.
Evidences(f) ==
  [agent_turns               |-> Agents(f),
   user_turns                |-> f.count["CONVERSATION_USER_INPUT"],
   goal_completion           |-> GoalCompletion(f),
   turn_completion_rate      |-> Rate(Agents(f) - f.count["CONVERSATION_INTERRUPTION_DETECTED"], Agents(f)),
   model_invocation_count    |-> f.count["SYSTEM_MODEL_INVOCATION"],
   system_warning_rate       |-> Rate(f.count["SYSTEM_WARNING"], AllTurns(f)),
   technical_error_rate      |-> Rate(f.count["SYSTEM_ERROR"], AllTurns(f)),
   prolonged_silence_rate    |-> Rate(f.silence, AllTurns(f)),
   session_duration_seconds  |-> f.duration,
   session_completed         |-> Occurs(f, "SESSION_ENDED"),
   session_failed            |-> Occurs(f, "SESSION_FAILED"),
   turn_latencies            |-> f.latencies,
   governance_flag_count     |-> f.count["SYSTEM_FLAG_RAISED"],
   unrecovered_error_present |-> UnrecoveredError(f)]

------------------------------------------------------------------------------
(* Normalisation: every score lies in 0..Full.                                 *)

Full == 100 * Unit

Clamp(points) ==
  CASE points > Full -> Full
    [] points < 0    -> 0
    [] OTHER         -> points

PercentageDirect(rate) == Clamp(100 * rate)
\* Mutant: the complement is not taken.
PercentageAsIs(rate) == Clamp(100 * rate)
PercentageInverse(rate) == Clamp(Full - 100 * rate)
Binary(value) == IF value # 0 THEN Full ELSE 0
InverseBinary(value) == IF value # 0 THEN 0 ELSE Full
Occurrences(count, penalty) == Clamp(Full - count * penalty * Unit)

\* Python's round: to the nearest integer, ties to the even one.
RoundHalfEven(a, b) ==
  LET below == a \div b
      rest  == 2 * (a % b)
  IN CASE rest < b -> below
       [] rest > b -> below + 1
       [] OTHER    -> below + (below % 2)

\* The latency total / number, against the two limits.
Latency(total, number, optimal, degraded) ==
  CASE total <= optimal * number  -> Full
    [] total >= degraded * number -> 0
    [] OTHER -> Clamp(Unit * RoundHalfEven(100 * (degraded * number - total),
                                           (degraded - optimal) * number))

------------------------------------------------------------------------------
(* The catalogue.                                                              *)

Metric == {"engagement", "duration", "M_C01", "M_C02", "M_C03", "M_T01", "M_T02", "M_T03",
           "M_T04", "M_R01", "M_R02", "M_R04"}

Weight == [engagement |-> 3, duration |-> 1, M_C01 |-> 2, M_C02 |-> 1, M_C03 |-> 4, M_T01 |-> 3,
           M_T02 |-> 2, M_T03 |-> 3, M_T04 |-> 0, M_R01 |-> 3, M_R02 |-> 3, M_R04 |-> 1]

MetricsOf == [conversational |-> {"engagement", "M_C01", "M_C02", "M_C03"},
              operational    |-> {},
              technical      |-> {"duration", "M_T01", "M_T02", "M_T03", "M_T04"},
              risk           |-> {"M_R01", "M_R02", "M_R04"}]

\* Metrics without evidence are omitted.
Measured(e) ==
  Metric \ (  (IF e.goal_completion = Absent THEN {"M_C03"} ELSE {})
       \union (IF e.session_duration_seconds = Absent THEN {"duration"} ELSE {})
       \union (IF e.turn_latencies.number = 0 THEN {"M_T01", "M_T02"} ELSE {}))

\* normalized_score; it is looked at for the measured metrics only.
Score(e) ==
  [engagement |-> Binary(IF e.agent_turns > 0 /\ e.user_turns > 0 THEN 1 ELSE 0),
   duration   |-> IF e.session_duration_seconds = Absent THEN 0
                  ELSE Latency(e.session_duration_seconds, 1, 300, 900),
   M_C01      |-> PercentageDirect(e.turn_completion_rate),
   M_C02      |-> PercentageInverse(e.prolonged_silence_rate),
   M_C03      |-> IF e.goal_completion = Absent THEN 0 ELSE Binary(e.goal_completion),
   M_T01      |-> Latency(e.turn_latencies.total, e.turn_latencies.number, 1500, 3000),
   M_T02      |-> Latency(e.turn_latencies.longest, 1, 3000, 5000),
   M_T03      |-> PercentageInverse(e.technical_error_rate),
   M_T04      |-> Full,
   M_R01      |-> Occurrences(e.governance_flag_count, 33),
   M_R02      |-> InverseBinary(e.unrecovered_error_present),
   M_R04      |-> PercentageInverse(e.system_warning_rate)]

------------------------------------------------------------------------------
(* Aggregation.                                                                *)

Dimension == {"conversational", "operational", "technical", "risk"}

DimensionWeight == [conversational |-> 3, operational |-> 3, technical |-> 2, risk |-> 4]

SumMetrics(g) ==
  g.engagement + g.duration + g.M_C01 + g.M_C02 + g.M_C03 + g.M_T01 + g.M_T02 + g.M_T03 +
  g.M_T04 + g.M_R01 + g.M_R02 + g.M_R04

SumDimensions(g) == g.conversational + g.operational + g.technical + g.risk

\* The sum of g over the members of a group.
OnlyIn(group, all, g) == [x \in all |-> IF x \in group THEN g[x] ELSE 0]

Group(e, d) == {m \in Measured(e) \intersect MetricsOf[d] : Weight[m] # 0}

Weighted(e) == LET score == Score(e) IN [m \in Metric |-> Weight[m] * score[m]]

\* Mutant: omitted metrics keep their weight.
ScoreOverAll(e, d) ==
  SumMetrics(OnlyIn(Group(e, d), Metric, Weighted(e))) \div
  SumMetrics(OnlyIn(MetricsOf[d], Metric, Weight))

DimensionScore(e, d) ==
  SumMetrics(OnlyIn(Group(e, d), Metric, Weighted(e))) \div
  SumMetrics(OnlyIn(Group(e, d), Metric, Weight))

ScoredDimensions(e) == {d \in Dimension : Group(e, d) # {}}

DimensionScores(e) ==
  [d \in Dimension |-> IF d \in ScoredDimensions(e) THEN DimensionScore(e, d) ELSE Absent]

WeightedDimension(e) ==
  [d \in Dimension |-> IF d \in ScoredDimensions(e) THEN DimensionWeight[d] * DimensionScore(e, d) ELSE 0]

GlobalScore(e) ==
  IF ScoredDimensions(e) = {} THEN 0
  ELSE SumDimensions(WeightedDimension(e)) \div
       SumDimensions(OnlyIn(ScoredDimensions(e), Dimension, DimensionWeight))

------------------------------------------------------------------------------
(* Flags and result.                                                           *)

PassThreshold == 75 * Unit

FlagCode == {"session_failed", "session_not_completed", "goal_not_completed", "unrecovered_error"}

DetectBlockingFlags(e) ==
  {code \in FlagCode :
     \/ code = "session_failed" /\ e.session_failed
     \/ code = "session_not_completed" /\ ~ e.session_failed /\ ~ e.session_completed
     \/ code = "goal_not_completed" /\ e.goal_completion = 0
     \/ code = "unrecovered_error" /\ e.unrecovered_error_present = 1}

\* Mutant: only the score decides.
ResultByScore(score, flags) == IF score < PassThreshold THEN "failed" ELSE "passed"

Result(score, flags) == IF flags # {} \/ score < PassThreshold THEN "failed" ELSE "passed"

\* DeterministicEvaluator.evaluate.
Evaluate(f) ==
  LET e == Evidences(f)
      flags == DetectBlockingFlags(e)
      score == GlobalScore(e)
  IN [score |-> score, result |-> Result(score, flags), dimensions |-> DimensionScores(e),
      flags |-> flags]
===============================================================================
