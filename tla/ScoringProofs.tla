----------------------------- MODULE ScoringProofs ------------------------------
(* Facts about the arithmetic of Scoring, for every unit and every trace.      *)
EXTENDS Scoring, TLAPS

(* A quotient lies where the dividend says.                                    *)
LEMMA Quotient ==
  ASSUME NEW a \in Int, NEW b \in Nat, b > 0
  PROVE  /\ a \div b \in Int
         /\ b * (a \div b) <= a
         /\ a < b * (a \div b) + b
  BY SMT

(* A dividend of k divisors has a quotient of at least k.                      *)
LEMMA QuotientAtLeast ==
  ASSUME NEW a \in Int, NEW b \in Nat, b > 0, NEW k \in Int, a >= k * b
  PROVE  a \div b >= k
<1> DEFINE q == a \div b
<1>1. q \in Int /\ a < b * q + b BY Quotient
<1> HIDE DEF q
<1>2. k * b < b * (q + 1) BY <1>1, SMT
<1>3. k < q + 1 BY <1>1, <1>2, SMT
<1>. QED BY <1>1, <1>3 DEF q

(* A dividend of no more than k divisors has a quotient of at most k.          *)
LEMMA QuotientAtMost ==
  ASSUME NEW a \in Int, NEW b \in Nat, b > 0, NEW k \in Int, a <= k * b
  PROVE  a \div b <= k
<1> DEFINE q == a \div b
<1>1. q \in Int /\ b * q <= a BY Quotient
<1> HIDE DEF q
<1>2. b * q <= b * k BY <1>1, SMT
<1>3. q <= k BY <1>1, <1>2, SMT
<1>. QED BY <1>1, <1>3 DEF q

(* A fraction falls when its numerator falls and its denominator grows.        *)
LEMMA QuotientFalls ==
  ASSUME NEW a \in Nat, NEW b \in Nat, b > 0, NEW c \in Nat, NEW d \in Nat, c <= a, d >= b
  PROVE  c \div d <= a \div b
<1> DEFINE q == a \div b
<1>1. q \in Int /\ a < b * q + b BY Quotient
<1> HIDE DEF q
<1>2. q >= 0 BY <1>1, SMT
<1>3. (q + 1) * b <= (q + 1) * d BY <1>1, <1>2, SMT
<1>4. c < (q + 1) * d BY <1>1, <1>3, SMT
<1> DEFINE p == c \div d
<1>5. p \in Int /\ d * p <= c BY Quotient
<1> HIDE DEF p
<1>6. d * p < d * (q + 1) BY <1>1, <1>4, <1>5, SMT
<1>7. p < q + 1 BY <1>1, <1>5, <1>6, SMT
<1>. QED BY <1>1, <1>5, <1>7 DEF p, q
------------------------------------------------------------------------------
(* Types of evidences and scores.                                              *)

Evidenced(e) ==
  /\ e.agent_turns \in Nat /\ e.user_turns \in Nat
  /\ e.goal_completion \in {0, 1, Absent}
  /\ e.turn_completion_rate \in Int /\ e.prolonged_silence_rate \in Int
  /\ e.technical_error_rate \in Int /\ e.system_warning_rate \in Int
  /\ e.session_duration_seconds \in Nat \union {Absent}
  /\ e.turn_latencies \in [number : Nat, total : Nat, longest : Nat]
  /\ e.governance_flag_count \in Nat
  /\ e.unrecovered_error_present \in {0, 1}

(* A rate is a number, of no turns too.                                        *)
LEMMA RateType ==
  ASSUME NEW n \in Int, NEW d \in Nat
  PROVE  Rate(n, d) \in Int
<1>1. n * Unit \in Int BY UnitAssumption, SMT
<1>2. CASE d = 0 BY <1>2 DEF Rate
<1>3. CASE d > 0
  <2>1. (n * Unit) \div d \in Int BY <1>1, <1>3, Quotient
  <2>. QED BY <2>1, <1>3 DEF Rate
<1>. QED BY <1>2, <1>3

(* The evidences of every trace are complete.                                  *)
LEMMA EvidencesType ==
  ASSUME NEW f \in Facts
  PROVE  Evidenced(Evidences(f))
<1>1. /\ f.count["CONVERSATION_AGENT_RESPONSE"] \in Nat
      /\ f.count["CONVERSATION_USER_INPUT"] \in Nat
      /\ f.count["CONVERSATION_INTERRUPTION_DETECTED"] \in Nat
      /\ f.count["SYSTEM_WARNING"] \in Nat
      /\ f.count["SYSTEM_ERROR"] \in Nat
      /\ f.count["SYSTEM_FLAG_RAISED"] \in Nat
      /\ f.silence \in Nat /\ f.duration \in Nat \union {Absent}
      /\ f.latencies \in [number : Nat, total : Nat, longest : Nat]
  BY DEF Facts, Counted
<1>2. Agents(f) \in Nat /\ AllTurns(f) \in Nat
  BY <1>1 DEF Agents, AllTurns
<1>3. Rate(Agents(f) - f.count["CONVERSATION_INTERRUPTION_DETECTED"], Agents(f)) \in Int
  <2>1. Agents(f) - f.count["CONVERSATION_INTERRUPTION_DETECTED"] \in Int BY <1>1, <1>2
  <2>. QED BY <1>2, <2>1, RateType
<1>4. /\ Rate(f.count["SYSTEM_WARNING"], AllTurns(f)) \in Int
      /\ Rate(f.count["SYSTEM_ERROR"], AllTurns(f)) \in Int
      /\ Rate(f.silence, AllTurns(f)) \in Int
  <2>1. /\ f.count["SYSTEM_WARNING"] \in Int /\ f.count["SYSTEM_ERROR"] \in Int
        /\ f.silence \in Int
    BY <1>1
  <2>. QED BY <1>2, <2>1, RateType
<1>5. GoalCompletion(f) \in {0, 1, Absent} /\ UnrecoveredError(f) \in {0, 1}
  BY DEF GoalCompletion, UnrecoveredError
<1>. QED BY <1>1, <1>2, <1>3, <1>4, <1>5 DEF Evidenced, Evidences, Agents

(* Every normalisation ends in 0..Full.                                        *)
LEMMA FullType == Full \in Nat /\ Full > 0
  BY UnitAssumption, SMT DEF Full

(* What is clamped lies in 0..Full.                                            *)
LEMMA ClampRange ==
  ASSUME NEW points \in Int
  PROVE  Clamp(points) \in 0..Full
  BY FullType, SMT DEF Clamp

(* What is rounded is a number.                                                *)
LEMMA RoundType ==
  ASSUME NEW a \in Int, NEW b \in Nat, b > 0
  PROVE  RoundHalfEven(a, b) \in Int
<1> DEFINE below == a \div b
           rest  == 2 * (a % b)
<1>1. below \in Int BY Quotient
<1>2. rest \in Int BY SMT
<1> HIDE DEF below
<1>3. below % 2 \in Int BY <1>1, SMT
<1>. QED BY <1>1, <1>2, <1>3, SMT DEF RoundHalfEven, below

(* The piecewise score of a latency lies in 0..Full.                           *)
LEMMA LatencyRange ==
  ASSUME NEW total \in Nat, NEW number \in Nat, NEW optimal \in Nat, NEW degraded \in Nat,
         optimal < degraded, number > 0
  PROVE  Latency(total, number, optimal, degraded) \in 0..Full
<1>1. /\ degraded * number \in Nat /\ optimal * number \in Nat
      /\ (degraded - optimal) * number \in Nat /\ (degraded - optimal) * number > 0
  BY SMT
<1> DEFINE rounded == RoundHalfEven(100 * (degraded * number - total), (degraded - optimal) * number)
<1>2. 100 * (degraded * number - total) \in Int BY <1>1, SMT
<1>3. rounded \in Int BY <1>1, <1>2, RoundType
<1>4. Unit * rounded \in Int BY <1>3, UnitAssumption, SMT
<1> HIDE DEF rounded
<1>5. Clamp(Unit * rounded) \in 0..Full BY <1>4, ClampRange
<1>6. 0 \in 0..Full /\ Full \in 0..Full BY FullType
<1>. QED BY <1>5, <1>6 DEF Latency, rounded

(* The score of a percentage lies in 0..Full.                                  *)
LEMMA PercentageRange ==
  ASSUME NEW rate \in Int
  PROVE  PercentageDirect(rate) \in 0..Full /\ PercentageInverse(rate) \in 0..Full
<1>1. 100 * rate \in Int /\ Full - 100 * rate \in Int BY FullType, SMT
<1>. QED BY <1>1, ClampRange DEF PercentageDirect, PercentageInverse

(* The score of a yes or no lies in 0..Full.                                   *)
LEMMA BinaryRange ==
  ASSUME NEW value
  PROVE  Binary(value) \in 0..Full /\ InverseBinary(value) \in 0..Full
  BY FullType DEF Binary, InverseBinary

(* One field of the scores at a time.                                          *)
LEMMA ScoreFields ==
  ASSUME NEW e
  PROVE  /\ Score(e)["engagement"] = Binary(IF e.agent_turns > 0 /\ e.user_turns > 0 THEN 1 ELSE 0)
         /\ Score(e)["duration"] = IF e.session_duration_seconds = Absent THEN 0
                                   ELSE Latency(e.session_duration_seconds, 1, 300, 900)
         /\ Score(e)["M_C01"] = PercentageDirect(e.turn_completion_rate)
         /\ Score(e)["M_C02"] = PercentageInverse(e.prolonged_silence_rate)
         /\ Score(e)["M_C03"] = IF e.goal_completion = Absent THEN 0 ELSE Binary(e.goal_completion)
         /\ Score(e)["M_T01"] = Latency(e.turn_latencies.total, e.turn_latencies.number, 1500, 3000)
         /\ Score(e)["M_T02"] = Latency(e.turn_latencies.longest, 1, 3000, 5000)
         /\ Score(e)["M_T03"] = PercentageInverse(e.technical_error_rate)
         /\ Score(e)["M_T04"] = Full
         /\ Score(e)["M_R01"] = Occurrences(e.governance_flag_count, 33)
         /\ Score(e)["M_R02"] = InverseBinary(e.unrecovered_error_present)
         /\ Score(e)["M_R04"] = PercentageInverse(e.system_warning_rate)
  BY DEF Score

(* Only a metric whose evidence was built has a score anyone looks at.         *)
LEMMA ScoreRange ==
  ASSUME NEW e, Evidenced(e), NEW m \in Measured(e)
  PROVE  m \in Metric /\ Score(e)[m] \in 0..Full
<1>1. m \in Metric BY DEF Measured
<1>2. CASE m = "engagement" BY <1>1, <1>2, ScoreFields, BinaryRange
<1>3. CASE m = "duration"
  <2>1. e.session_duration_seconds # Absent BY <1>3 DEF Measured
  <2>2. e.session_duration_seconds \in Nat BY <2>1 DEF Evidenced
  <2>3. Latency(e.session_duration_seconds, 1, 300, 900) \in 0..Full
    BY <2>2, LatencyRange
  <2>. QED BY <1>1, <1>3, <2>1, <2>3, ScoreFields
<1>4. CASE m = "M_C01"
  <2>1. e.turn_completion_rate \in Int BY DEF Evidenced
  <2>. QED BY <1>1, <1>4, <2>1, ScoreFields, PercentageRange
<1>5. CASE m = "M_C02"
  <2>1. e.prolonged_silence_rate \in Int BY DEF Evidenced
  <2>. QED BY <1>1, <1>5, <2>1, ScoreFields, PercentageRange
<1>6. CASE m = "M_C03"
  <2>1. 0 \in 0..Full BY FullType
  <2>. QED BY <1>1, <1>6, <2>1, ScoreFields, BinaryRange
<1>7. CASE m \in {"M_T01", "M_T02"}
  <2>1. e.turn_latencies.number # 0 BY <1>7 DEF Measured
  <2>2. /\ e.turn_latencies.number \in Nat /\ e.turn_latencies.total \in Nat
        /\ e.turn_latencies.longest \in Nat
    BY DEF Evidenced
  <2> DEFINE Mean(total, number) == Latency(total, number, 1500, 3000)
             Longest(total) == Latency(total, 1, 3000, 5000)
  <2>3. \A total, number \in Nat : number > 0 => Mean(total, number) \in 0..Full
    BY LatencyRange
  <2>4. \A total \in Nat : Longest(total) \in 0..Full
    BY LatencyRange
  <2>5. e.turn_latencies.number > 0 BY <2>1, <2>2
  <2> HIDE DEF Mean, Longest
  <2>6. Mean(e.turn_latencies.total, e.turn_latencies.number) \in 0..Full
    BY <2>2, <2>3, <2>5
  <2>7. Longest(e.turn_latencies.longest) \in 0..Full
    BY <2>2, <2>4
  <2>. QED BY <1>1, <1>7, <2>6, <2>7, ScoreFields DEF Mean, Longest
<1>8. CASE m = "M_T03"
  <2>1. e.technical_error_rate \in Int BY DEF Evidenced
  <2>. QED BY <1>1, <1>8, <2>1, ScoreFields, PercentageRange
<1>9. CASE m = "M_T04"
  <2>1. Full \in 0..Full BY FullType
  <2>. QED BY <1>1, <1>9, <2>1, ScoreFields
<1>10. CASE m = "M_R01"
  <2>1. e.governance_flag_count \in Nat BY DEF Evidenced
  <2>2. Full - e.governance_flag_count * 33 * Unit \in Int BY <2>1, FullType, UnitAssumption, SMT
  <2>3. Occurrences(e.governance_flag_count, 33) \in 0..Full BY <2>2, ClampRange DEF Occurrences
  <2>. QED BY <1>1, <1>10, <2>3, ScoreFields
<1>11. CASE m = "M_R02" BY <1>1, <1>11, ScoreFields, BinaryRange
<1>12. CASE m = "M_R04"
  <2>1. e.system_warning_rate \in Int BY DEF Evidenced
  <2>. QED BY <1>1, <1>12, <2>1, ScoreFields, PercentageRange
<1>. QED BY <1>1, <1>2, <1>3, <1>4, <1>5, <1>6, <1>7, <1>8, <1>9, <1>10, <1>11, <1>12 DEF Metric
------------------------------------------------------------------------------
(* Sums over the metrics and over the dimensions.                              *)

(* A sum of numbers is one.                                                    *)
LEMMA SumMetricsType ==
  ASSUME NEW g \in [Metric -> Int]
  PROVE  SumMetrics(g) \in Int
  BY DEF SumMetrics, Metric

(* A sum grows with its terms.                                                 *)
LEMMA SumMetricsMonotone ==
  ASSUME NEW g \in [Metric -> Int], NEW h \in [Metric -> Int], \A m \in Metric : g[m] <= h[m]
  PROVE  SumMetrics(g) <= SumMetrics(h)
<1>1. \A m \in Metric : g[m] \in Int /\ h[m] \in Int BY SMT
<1>. QED BY <1>1, SMT DEF SumMetrics, Metric

(* A factor of the terms is one of their sum.                                  *)
LEMMA SumMetricsScaled ==
  ASSUME NEW h \in [Metric -> Int], NEW k \in Int
  PROVE  /\ [m \in Metric |-> k * h[m]] \in [Metric -> Int]
         /\ SumMetrics([m \in Metric |-> k * h[m]]) = k * SumMetrics(h)
<1>1. \A m \in Metric : h[m] \in Int /\ k * h[m] \in Int BY SMT
<1>. QED BY <1>1, SMT DEF SumMetrics, Metric

(* Terms of at least k times others have a sum of at least k times theirs.     *)
LEMMA SumMetricsAtLeast ==
  ASSUME NEW g \in [Metric -> Int], NEW h \in [Metric -> Int], NEW k \in Int,
         \A m \in Metric : k * h[m] <= g[m]
  PROVE  k * SumMetrics(h) <= SumMetrics(g)
<1> DEFINE scaled == [m \in Metric |-> k * h[m]]
<1>1. \A m \in Metric : scaled[m] <= g[m] OBVIOUS
<1>2. scaled \in [Metric -> Int] /\ SumMetrics(scaled) = k * SumMetrics(h) BY SumMetricsScaled
<1> HIDE DEF scaled
<1>. QED BY <1>1, <1>2, SumMetricsMonotone

(* Terms of at most k times others have a sum of at most k times theirs.       *)
LEMMA SumMetricsAtMost ==
  ASSUME NEW g \in [Metric -> Int], NEW h \in [Metric -> Int], NEW k \in Int,
         \A m \in Metric : g[m] <= k * h[m]
  PROVE  SumMetrics(g) <= k * SumMetrics(h)
<1> DEFINE scaled == [m \in Metric |-> k * h[m]]
<1>1. \A m \in Metric : g[m] <= scaled[m] OBVIOUS
<1>2. scaled \in [Metric -> Int] /\ SumMetrics(scaled) = k * SumMetrics(h) BY SumMetricsScaled
<1> HIDE DEF scaled
<1>. QED BY <1>1, <1>2, SumMetricsMonotone

(* One positive weight makes a positive sum.                                   *)
LEMMA SumMetricsPositive ==
  ASSUME NEW h \in [Metric -> Nat], NEW m \in Metric, h[m] > 0
  PROVE  SumMetrics(h) \in Nat /\ SumMetrics(h) > 0
<1>1. \A x \in Metric : h[x] \in Nat BY SMT
<1>. QED BY <1>1, SMT DEF SumMetrics, Metric

(* The same of sums over dimensions.                                           *)
LEMMA SumDimensionsAtLeast ==
  ASSUME NEW g \in [Dimension -> Int], NEW h \in [Dimension -> Int], NEW k \in Int,
         \A d \in Dimension : k * h[d] <= g[d]
  PROVE  k * SumDimensions(h) <= SumDimensions(g)
<1>1. \A d \in Dimension : g[d] \in Int /\ h[d] \in Int /\ k * h[d] \in Int BY SMT
<1>. QED BY <1>1, SMT DEF SumDimensions, Dimension

(* The same of sums over dimensions.                                           *)
LEMMA SumDimensionsAtMost ==
  ASSUME NEW g \in [Dimension -> Int], NEW h \in [Dimension -> Int], NEW k \in Int,
         \A d \in Dimension : g[d] <= k * h[d]
  PROVE  SumDimensions(g) <= k * SumDimensions(h)
<1>1. \A d \in Dimension : g[d] \in Int /\ h[d] \in Int /\ k * h[d] \in Int BY SMT
<1>. QED BY <1>1, SMT DEF SumDimensions, Dimension

(* The same of sums over dimensions.                                           *)
LEMMA SumDimensionsPositive ==
  ASSUME NEW h \in [Dimension -> Nat], NEW d \in Dimension, h[d] > 0
  PROVE  SumDimensions(h) \in Nat /\ SumDimensions(h) > 0
<1>1. \A x \in Dimension : h[x] \in Nat BY SMT
<1>. QED BY <1>1, SMT DEF SumDimensions, Dimension

(* Weights of metrics are natural, some are zero.                              *)
LEMMA WeightType == Weight \in [Metric -> Nat]
<1>1. \A m \in Metric : Weight[m] \in Nat BY DEF Weight, Metric
<1>2. Weight = [m \in Metric |-> Weight[m]] BY DEF Weight, Metric
<1>. QED BY <1>1, <1>2

(* Weights of dimensions are positive.                                         *)
LEMMA DimensionWeightType == DimensionWeight \in [Dimension -> Nat] /\ \A d \in Dimension : DimensionWeight[d] > 0
<1>1. \A d \in Dimension : DimensionWeight[d] \in Nat /\ DimensionWeight[d] > 0
  BY DEF DimensionWeight, Dimension
<1>2. DimensionWeight = [d \in Dimension |-> DimensionWeight[d]] BY DEF DimensionWeight, Dimension
<1>. QED BY <1>1, <1>2
------------------------------------------------------------------------------
(* Means.                                                                      *)

(* The metrics a dimension takes have a score and a positive weight.           *)
LEMMA MeasuredTypes ==
  ASSUME NEW e, Evidenced(e), NEW d \in Dimension
  PROVE  /\ Group(e, d) \subseteq Measured(e) /\ Group(e, d) \subseteq Metric
         /\ \A m \in Group(e, d) : Score(e)[m] \in 0..Full /\ Weight[m] \in Nat /\ Weight[m] > 0
         /\ OnlyIn(Group(e, d), Metric, Weight) \in [Metric -> Nat]
         /\ OnlyIn(Group(e, d), Metric, Weighted(e)) \in [Metric -> Nat]
<1>1. Group(e, d) \subseteq Measured(e) /\ Group(e, d) \subseteq Metric
  BY DEF Group, Measured
<1>2. ASSUME NEW m \in Group(e, d)
      PROVE  Score(e)[m] \in 0..Full /\ Weight[m] \in Nat /\ Weight[m] > 0
  <2>1. Score(e)[m] \in 0..Full BY <1>1, ScoreRange
  <2>2. Weight[m] \in Nat /\ Weight[m] # 0 BY <1>1, WeightType DEF Group
  <2>. QED BY <2>1, <2>2
<1>3. OnlyIn(Group(e, d), Metric, Weight) \in [Metric -> Nat]
  BY WeightType DEF OnlyIn
<1>4. \A m \in Group(e, d) : Weight[m] * Score(e)[m] \in Nat
  BY <1>2, FullType, SMT
<1>5. OnlyIn(Group(e, d), Metric, Weighted(e)) \in [Metric -> Nat]
  BY <1>1, <1>4 DEF OnlyIn, Weighted
<1>. QED BY <1>1, <1>2, <1>3, <1>5

(* A dimension is never divided by zero.                                       *)
LEMMA GroupWeight ==
  ASSUME NEW e, Evidenced(e), NEW d \in Dimension, NEW m \in Group(e, d)
  PROVE  /\ SumMetrics(OnlyIn(Group(e, d), Metric, Weight)) \in Nat
         /\ SumMetrics(OnlyIn(Group(e, d), Metric, Weight)) > 0
<1>1. m \in Metric /\ OnlyIn(Group(e, d), Metric, Weight)[m] > 0
  BY MeasuredTypes DEF OnlyIn
<1>. QED BY <1>1, MeasuredTypes, SumMetricsPositive

(* A dimension lies between two of the scores it is made of.                   *)
LEMMA DimensionMean ==
  ASSUME NEW e, Evidenced(e), NEW d \in ScoredDimensions(e)
  PROVE  /\ DimensionScore(e, d) \in Int
         /\ \E low \in Group(e, d) : Score(e)[low] <= DimensionScore(e, d)
         /\ \E high \in Group(e, d) : DimensionScore(e, d) <= Score(e)[high]
<1> DEFINE group    == Group(e, d)
           weight   == OnlyIn(group, Metric, Weight)
           weighted == OnlyIn(group, Metric, Weighted(e))
           mean     == DimensionScore(e, d)
<1>1. d \in Dimension /\ group # {} BY DEF ScoredDimensions
<1>2. group \subseteq Metric /\ \A m \in group : Score(e)[m] \in Int /\ Weight[m] \in Nat /\ Weight[m] > 0
  BY <1>1, MeasuredTypes, FullType
<1>3. weight \in [Metric -> Int] /\ weighted \in [Metric -> Int]
  BY <1>1, MeasuredTypes
<1>4. SumMetrics(weight) \in Nat /\ SumMetrics(weight) > 0
  BY <1>1, GroupWeight
<1>5. SumMetrics(weighted) \in Int BY <1>3, SumMetricsType
<1>6. mean = SumMetrics(weighted) \div SumMetrics(weight)
  BY DEF DimensionScore
<1>7. mean \in Int BY <1>4, <1>5, <1>6, Quotient
<1>8. \A m \in group : weight[m] = Weight[m] /\ weighted[m] = Weight[m] * Score(e)[m]
  BY <1>2 DEF OnlyIn, Weighted
<1>9. \A m \in Metric \ group : weight[m] = 0 /\ weighted[m] = 0
  BY DEF OnlyIn
<1> HIDE DEF group, weight, weighted, mean
<1>10. \E low \in group : Score(e)[low] <= mean
  <2> SUFFICES ASSUME \A m \in group : Score(e)[m] >= mean + 1
               PROVE  FALSE
    BY <1>2, <1>7
  <2>1. ASSUME NEW m \in Metric PROVE (mean + 1) * weight[m] <= weighted[m]
    <3>1. CASE m \in group
      <4>1. (mean + 1) * Weight[m] <= Weight[m] * Score(e)[m] BY <1>2, <1>7, <3>1, SMT
      <4>. QED BY <1>8, <3>1, <4>1
    <3>2. CASE m \notin group BY <1>7, <1>9, <3>2
    <3>. QED BY <3>1, <3>2
  <2>2. (mean + 1) * SumMetrics(weight) <= SumMetrics(weighted)
    BY <1>3, <1>7, <2>1, SumMetricsAtLeast
  <2>3. mean + 1 <= mean BY <1>4, <1>5, <1>6, <1>7, <2>2, QuotientAtLeast
  <2>. QED BY <1>7, <2>3
<1>11. \E high \in group : mean <= Score(e)[high]
  <2> SUFFICES ASSUME \A m \in group : Score(e)[m] <= mean - 1
               PROVE  FALSE
    BY <1>2, <1>7
  <2>1. ASSUME NEW m \in Metric PROVE weighted[m] <= (mean - 1) * weight[m]
    <3>1. CASE m \in group
      <4>1. Weight[m] * Score(e)[m] <= (mean - 1) * Weight[m] BY <1>2, <1>7, <3>1, SMT
      <4>. QED BY <1>8, <3>1, <4>1
    <3>2. CASE m \notin group BY <1>7, <1>9, <3>2
    <3>. QED BY <3>1, <3>2
  <2>2. SumMetrics(weighted) <= (mean - 1) * SumMetrics(weight)
    BY <1>3, <1>7, <2>1, SumMetricsAtMost
  <2>3. mean <= mean - 1 BY <1>4, <1>5, <1>6, <1>7, <2>2, QuotientAtMost
  <2>. QED BY <1>7, <2>3
<1>. QED BY <1>7, <1>10, <1>11 DEF group, mean

(* Three dimensions always have a metric with evidence and a weight; the       *)
(* operational one has none.                                                   *)
LEMMA AlwaysScored ==
  ASSUME NEW e
  PROVE  /\ ScoredDimensions(e) = {"conversational", "technical", "risk"}
         /\ ScoredDimensions(e) \subseteq Dimension
<1>1. "engagement" \in Measured(e) /\ "M_T03" \in Measured(e) /\ "M_R01" \in Measured(e)
  BY DEF Measured, Metric
<1>2. Weight["engagement"] # 0 /\ Weight["M_T03"] # 0 /\ Weight["M_R01"] # 0
  BY DEF Weight
<1>3. "engagement" \in Group(e, "conversational")
  BY <1>1, <1>2 DEF Group, MetricsOf
<1>4. "M_T03" \in Group(e, "technical")
  BY <1>1, <1>2 DEF Group, MetricsOf
<1>5. "M_R01" \in Group(e, "risk")
  BY <1>1, <1>2 DEF Group, MetricsOf
<1>6. Group(e, "operational") = {} BY DEF Group, MetricsOf
<1>. QED BY <1>3, <1>4, <1>5, <1>6 DEF ScoredDimensions, Dimension

(* The three dimensions are always scored, so that their weights add up to 9.  *)
LEMMA GlobalTypes ==
  ASSUME NEW e, Evidenced(e)
  PROVE  /\ OnlyIn(ScoredDimensions(e), Dimension, DimensionWeight) \in [Dimension -> Nat]
         /\ SumDimensions(OnlyIn(ScoredDimensions(e), Dimension, DimensionWeight)) = 9
         /\ WeightedDimension(e) \in [Dimension -> Int]
         /\ SumDimensions(WeightedDimension(e)) \in Int
         /\ GlobalScore(e) = SumDimensions(WeightedDimension(e)) \div 9
         /\ GlobalScore(e) \in Int
<1>1. OnlyIn(ScoredDimensions(e), Dimension, DimensionWeight) \in [Dimension -> Nat]
  BY DimensionWeightType DEF OnlyIn
<1>2. SumDimensions(OnlyIn(ScoredDimensions(e), Dimension, DimensionWeight)) = 9
  BY AlwaysScored DEF SumDimensions, OnlyIn, Dimension, DimensionWeight
<1>3. \A d \in ScoredDimensions(e) : DimensionWeight[d] * DimensionScore(e, d) \in Int
  BY DimensionMean, DimensionWeightType, AlwaysScored, SMT
<1>4. WeightedDimension(e) \in [Dimension -> Int]
  BY <1>3 DEF WeightedDimension
<1>5. SumDimensions(WeightedDimension(e)) \in Int
  BY <1>4 DEF SumDimensions, Dimension
<1>6. GlobalScore(e) = SumDimensions(WeightedDimension(e)) \div 9
  BY <1>2, AlwaysScored DEF GlobalScore
<1>7. GlobalScore(e) \in Int BY <1>5, <1>6, Quotient
<1>. QED BY <1>1, <1>2, <1>4, <1>5, <1>6, <1>7

(* The global score lies between two of the dimensions it is made of.          *)
LEMMA GlobalMean ==
  ASSUME NEW e, Evidenced(e)
  PROVE  /\ \E low \in ScoredDimensions(e) : DimensionScore(e, low) <= GlobalScore(e)
         /\ \E high \in ScoredDimensions(e) : GlobalScore(e) <= DimensionScore(e, high)
<1> DEFINE scored   == ScoredDimensions(e)
           weight   == OnlyIn(scored, Dimension, DimensionWeight)
           weighted == WeightedDimension(e)
           mean     == GlobalScore(e)
<1>1. /\ weight \in [Dimension -> Int] /\ SumDimensions(weight) = 9
      /\ weighted \in [Dimension -> Int] /\ SumDimensions(weighted) \in Int
      /\ mean = SumDimensions(weighted) \div 9 /\ mean \in Int
  BY GlobalTypes
<1>2. scored \subseteq Dimension BY AlwaysScored
<1>3. \A d \in scored : /\ weight[d] \in Nat /\ weight[d] > 0 /\ DimensionScore(e, d) \in Int
                        /\ weighted[d] = weight[d] * DimensionScore(e, d)
  BY <1>2, DimensionMean, DimensionWeightType DEF OnlyIn, WeightedDimension
<1>4. \A d \in Dimension \ scored : weight[d] = 0 /\ weighted[d] = 0
  BY DEF OnlyIn, WeightedDimension
<1> HIDE DEF scored, weight, weighted, mean
<1>5. \E low \in scored : DimensionScore(e, low) <= mean
  <2> SUFFICES ASSUME \A d \in scored : DimensionScore(e, d) >= mean + 1
               PROVE  FALSE
    BY <1>1, <1>3
  <2>1. ASSUME NEW d \in Dimension PROVE (mean + 1) * weight[d] <= weighted[d]
    <3>1. CASE d \in scored
      <4>1. (mean + 1) * weight[d] <= weight[d] * DimensionScore(e, d) BY <1>1, <1>3, <3>1, SMT
      <4>. QED BY <1>3, <3>1, <4>1
    <3>2. CASE d \notin scored BY <1>1, <1>4, <3>2
    <3>. QED BY <3>1, <3>2
  <2>2. (mean + 1) * 9 <= SumDimensions(weighted)
    BY <1>1, <2>1, SumDimensionsAtLeast
  <2>. QED BY <1>1, <2>2
<1>6. \E high \in scored : mean <= DimensionScore(e, high)
  <2> SUFFICES ASSUME \A d \in scored : DimensionScore(e, d) <= mean - 1
               PROVE  FALSE
    BY <1>1, <1>3
  <2>1. ASSUME NEW d \in Dimension PROVE weighted[d] <= (mean - 1) * weight[d]
    <3>1. CASE d \in scored
      <4>1. weight[d] * DimensionScore(e, d) <= (mean - 1) * weight[d] BY <1>1, <1>3, <3>1, SMT
      <4>. QED BY <1>3, <3>1, <4>1
    <3>2. CASE d \notin scored BY <1>1, <1>4, <3>2
    <3>. QED BY <3>1, <3>2
  <2>2. SumDimensions(weighted) <= (mean - 1) * 9
    BY <1>1, <2>1, SumDimensionsAtMost
  <2>. QED BY <1>1, <2>2
<1>. QED BY <1>5, <1>6 DEF scored, mean

(* Nobody spoke and the judge did not find the goal achieved: whatever the     *)
(* other metrics say, the score is below the threshold.                        *)
LEMMA SilentCallFails ==
  ASSUME NEW f \in Facts, AllTurns(f) = 0,
         ~ Occurs(f, "CONVERSATION_GOAL_ACHIEVED"), ~ Occurs(f, "CONVERSATION_GOAL_FAILED")
  PROVE  GlobalScore(Evidences(f)) < PassThreshold
<1> DEFINE e == Evidences(f)
           score == Score(e)
           weight == OnlyIn(Group(e, "conversational"), Metric, Weight)
           weighted == OnlyIn(Group(e, "conversational"), Metric, Weighted(e))
           talk == DimensionScore(e, "conversational")
           tech == DimensionScore(e, "technical")
           risk == DimensionScore(e, "risk")
<1>1. Evidenced(e) BY EvidencesType
<1>2. Agents(f) = 0
  <2>1. f.count["CONVERSATION_AGENT_RESPONSE"] \in Nat /\ f.count["CONVERSATION_USER_INPUT"] \in Nat
    BY DEF Facts, Counted
  <2>. QED BY <2>1 DEF AllTurns, Agents
<1>3. e.agent_turns = 0 /\ e.goal_completion = Absent /\ e.turn_completion_rate = 0
  BY <1>2 DEF Evidences, GoalCompletion, Rate
<1> HIDE DEF e
<1>4. Group(e, "conversational") = {"engagement", "M_C01", "M_C02"}
  <2>1. {"engagement", "M_C01", "M_C02"} \subseteq Measured(e) BY DEF Measured, Metric
  <2>2. "M_C03" \notin Measured(e) BY <1>3 DEF Measured
  <2>3. Weight["engagement"] # 0 /\ Weight["M_C01"] # 0 /\ Weight["M_C02"] # 0 BY DEF Weight
  <2>. QED BY <2>1, <2>2, <2>3 DEF Group, MetricsOf
<1>5. score["engagement"] = 0 /\ score["M_C01"] = 0
  <2>1. score["engagement"] = 0 BY <1>3, ScoreFields, SMT DEF Binary
  <2>2. PercentageDirect(0) = 0 BY FullType, SMT DEF PercentageDirect, Clamp
  <2>. QED BY <1>3, <2>1, <2>2, ScoreFields
<1>6. score["M_C02"] \in 0..Full
  <2>1. "M_C02" \in Measured(e) BY DEF Measured, Metric
  <2>. QED BY <1>1, <2>1, ScoreRange
<1>7. SumMetrics(weight) = 6
  BY <1>4 DEF SumMetrics, OnlyIn, Metric, Weight
<1> HIDE DEF score
<1>8. Weighted(e)["engagement"] = 0 /\ Weighted(e)["M_C01"] = 0 /\ Weighted(e)["M_C02"] = score["M_C02"]
  <2>1. Weight["engagement"] = 3 /\ Weight["M_C01"] = 2 /\ Weight["M_C02"] = 1 BY DEF Weight
  <2>2. {"engagement", "M_C01", "M_C02"} \subseteq Metric BY DEF Metric
  <2>3. 1 * score["M_C02"] = score["M_C02"] BY <1>6, FullType
  <2>. QED BY <1>5, <2>1, <2>2, <2>3 DEF Weighted, score
<1>9. SumMetrics(weighted) = score["M_C02"]
  BY <1>4, <1>6, <1>8, FullType DEF SumMetrics, OnlyIn, Metric
<1>10. talk = score["M_C02"] \div 6
  BY <1>7, <1>9 DEF DimensionScore
<1> HIDE DEF talk, tech, risk, weight, weighted
<1>11. talk \in Int /\ 6 * talk <= Full
  BY <1>6, <1>10, FullType, Quotient
<1>12. tech \in Int /\ tech <= Full /\ risk \in Int /\ risk <= Full
  <2>1. ASSUME NEW d \in ScoredDimensions(e) PROVE DimensionScore(e, d) \in Int /\ DimensionScore(e, d) <= Full
    <3>1. d \in Dimension BY AlwaysScored
    <3>2. DimensionScore(e, d) \in Int BY <1>1, DimensionMean
    <3>3. PICK high \in Group(e, d) : DimensionScore(e, d) <= Score(e)[high]
      BY <1>1, DimensionMean
    <3>4. Score(e)[high] \in 0..Full BY <1>1, <3>1, MeasuredTypes
    <3>. QED BY <3>2, <3>3, <3>4, FullType
  <2>. QED BY <2>1, AlwaysScored DEF tech, risk
<1>13. SumDimensions(WeightedDimension(e)) = 3 * talk + 2 * tech + 4 * risk
  BY <1>11, <1>12, AlwaysScored
  DEF SumDimensions, WeightedDimension, Dimension, DimensionWeight, talk, tech, risk
<1>14. /\ GlobalScore(e) \in Int
       /\ GlobalScore(e) = (3 * talk + 2 * tech + 4 * risk) \div 9
  BY <1>1, <1>13, GlobalTypes
<1>15. 9 * GlobalScore(e) <= 3 * talk + 2 * tech + 4 * risk
  <2>1. 3 * talk + 2 * tech + 4 * risk \in Int BY <1>11, <1>12
  <2>. QED BY <1>14, <2>1, Quotient
<1>16. GlobalScore(e) < PassThreshold
  BY <1>11, <1>12, <1>14, <1>15, UnitAssumption, SMT DEF PassThreshold, Full
<1>. QED BY <1>16 DEF e
------------------------------------------------------------------------------
(* Bad news.                                                                   *)

(* A rate grows with its numerator.                                            *)
LEMMA RateMonotone ==
  ASSUME NEW a \in Int, NEW b \in Int, a <= b, NEW d \in Nat
  PROVE  Rate(a, d) <= Rate(b, d)
<1>1. CASE d = 0 BY <1>1 DEF Rate
<1>2. CASE d > 0
  <2> DEFINE q == (a * Unit) \div d
  <2>1. a * Unit \in Int /\ b * Unit \in Int /\ a * Unit <= b * Unit BY UnitAssumption, SMT
  <2>2. q \in Int /\ d * q <= a * Unit BY <1>2, <2>1, Quotient
  <2> HIDE DEF q
  <2>3. q * d <= b * Unit BY <2>1, <2>2, SMT
  <2>4. q <= (b * Unit) \div d BY <1>2, <2>1, <2>2, <2>3, QuotientAtLeast
  <2>. QED BY <1>2, <2>4 DEF Rate, q
<1>. QED BY <1>1, <1>2

(* Clamping keeps the order.                                                   *)
LEMMA ClampMonotone ==
  ASSUME NEW a \in Int, NEW b \in Int, a <= b
  PROVE  Clamp(a) <= Clamp(b)
  BY FullType, SMT DEF Clamp

(* More is better of a direct percentage, and worse of an inverse one.         *)
LEMMA PercentageMonotone ==
  ASSUME NEW a \in Int, NEW b \in Int, a <= b
  PROVE  /\ PercentageDirect(a) <= PercentageDirect(b)
         /\ PercentageInverse(b) <= PercentageInverse(a)
<1>1. 100 * a \in Int /\ 100 * b \in Int /\ 100 * a <= 100 * b BY SMT
<1>2. Full - 100 * a \in Int /\ Full - 100 * b \in Int /\ Full - 100 * b <= Full - 100 * a
  BY <1>1, FullType, SMT
<1>. QED BY <1>1, <1>2, ClampMonotone DEF PercentageDirect, PercentageInverse

(* More occurrences score no more.                                             *)
LEMMA OccurrencesMonotone ==
  ASSUME NEW a \in Nat, NEW b \in Nat, a <= b
  PROVE  Occurrences(b, 33) <= Occurrences(a, 33)
<1>1. /\ Full - a * 33 * Unit \in Int /\ Full - b * 33 * Unit \in Int
      /\ Full - b * 33 * Unit <= Full - a * 33 * Unit
  BY FullType, UnitAssumption, SMT
<1>. QED BY <1>1, ClampMonotone DEF Occurrences

(* The evidences g are those of e and bad news.                                *)
Worse(e, g) ==
  /\ g.agent_turns = e.agent_turns /\ g.user_turns = e.user_turns
  /\ g.session_duration_seconds = e.session_duration_seconds
  /\ g.turn_latencies = e.turn_latencies
  /\ \/ g.goal_completion = e.goal_completion
     \/ e.goal_completion = Absent /\ g.goal_completion = 0
  /\ g.turn_completion_rate <= e.turn_completion_rate
  /\ g.prolonged_silence_rate >= e.prolonged_silence_rate
  /\ g.technical_error_rate >= e.technical_error_rate
  /\ g.system_warning_rate >= e.system_warning_rate
  /\ g.governance_flag_count >= e.governance_flag_count
  /\ g.unrecovered_error_present >= e.unrecovered_error_present

(* No measured metric gains, and one that is measured for the first time       *)
(* scores nothing.                                                             *)
LEMMA ScoresFall ==
  ASSUME NEW e, NEW g, Evidenced(e), Evidenced(g), Worse(e, g)
  PROVE  /\ Measured(e) \subseteq Measured(g)
         /\ \A m \in Measured(e) : Score(g)[m] <= Score(e)[m]
         /\ \A m \in Measured(g) \ Measured(e) : Score(g)[m] = 0
<1>1. Measured(e) \subseteq Measured(g) BY DEF Worse, Measured
<1>2. ASSUME NEW m \in Measured(g) \ Measured(e) PROVE Score(g)[m] = 0
  <2>1. m = "M_C03" /\ e.goal_completion = Absent /\ g.goal_completion # Absent
    BY <1>2 DEF Worse, Measured
  <2>2. g.goal_completion = 0 BY <2>1 DEF Worse
  <2>. QED BY <2>1, <2>2, ScoreFields, UnitAssumption DEF Binary
<1>3. ASSUME NEW m \in Measured(e) PROVE Score(g)[m] <= Score(e)[m]
  <2>1. m \in Metric /\ Score(e)[m] \in Int BY <1>3, ScoreRange, FullType
  <2>2. CASE m \in {"engagement", "duration", "M_T01", "M_T02", "M_T04"}
    <3>1. Score(g)[m] = Score(e)[m] BY <2>2 DEF Score, Worse
    <3>. QED BY <2>1, <3>1
  <2>3. CASE m = "M_C01"
    BY <2>3, ScoreFields, PercentageMonotone DEF Worse, Evidenced
  <2>4. CASE m = "M_C02"
    BY <2>4, ScoreFields, PercentageMonotone DEF Worse, Evidenced
  <2>5. CASE m = "M_C03"
    <3>1. e.goal_completion # Absent BY <1>3, <2>5 DEF Measured
    <3>2. g.goal_completion = e.goal_completion BY <3>1 DEF Worse
    <3>3. Score(g)[m] = Score(e)[m] BY <2>5, <3>2, ScoreFields
    <3>. QED BY <2>1, <3>3
  <2>6. CASE m = "M_T03"
    BY <2>6, ScoreFields, PercentageMonotone DEF Worse, Evidenced
  <2>7. CASE m = "M_R01"
    BY <2>7, ScoreFields, OccurrencesMonotone DEF Worse, Evidenced
  <2>8. CASE m = "M_R02"
    <3>1. \/ g.unrecovered_error_present = e.unrecovered_error_present
          \/ e.unrecovered_error_present = 0 /\ g.unrecovered_error_present = 1
      BY DEF Worse, Evidenced
    <3>2. InverseBinary(1) = 0 /\ InverseBinary(0) = Full BY DEF InverseBinary
    <3>3. 0 <= Full BY FullType
    <3>. QED BY <2>1, <2>8, <3>1, <3>2, <3>3, ScoreFields
  <2>9. CASE m = "M_R04"
    BY <2>9, ScoreFields, PercentageMonotone DEF Worse, Evidenced
  <2>. QED BY <2>1, <2>2, <2>3, <2>4, <2>5, <2>6, <2>7, <2>8, <2>9 DEF Metric
<1>. QED BY <1>1, <1>2, <1>3

(* No dimension gains from bad news, though a new metric may join it.          *)
LEMMA DimensionFalls ==
  ASSUME NEW e, NEW g, Evidenced(e), Evidenced(g), Worse(e, g), NEW d \in ScoredDimensions(e)
  PROVE  DimensionScore(g, d) <= DimensionScore(e, d)
<1> DEFINE weight(x)   == OnlyIn(Group(x, d), Metric, Weight)
           weighted(x) == OnlyIn(Group(x, d), Metric, Weighted(x))
<1>1. d \in Dimension /\ d \in ScoredDimensions(g) BY AlwaysScored
<1>2. PICK m \in Group(e, d) : TRUE BY DEF ScoredDimensions
<1>3. PICK n \in Group(g, d) : TRUE BY <1>1 DEF ScoredDimensions
<1>4. /\ SumMetrics(weight(e)) \in Nat /\ SumMetrics(weight(e)) > 0
      /\ SumMetrics(weight(g)) \in Nat /\ SumMetrics(weight(g)) > 0
  BY <1>1, <1>2, <1>3, GroupWeight
<1>5. /\ weight(e) \in [Metric -> Nat] /\ weighted(e) \in [Metric -> Nat]
      /\ weight(g) \in [Metric -> Nat] /\ weighted(g) \in [Metric -> Nat]
  BY <1>1, MeasuredTypes
<1>6. Group(e, d) \subseteq Group(g, d) BY ScoresFall DEF Group
<1>7. ASSUME NEW x \in Metric PROVE weight(e)[x] <= weight(g)[x]
  <2>1. Weight[x] \in Nat BY WeightType
  <2>2. weight(e)[x] \in {0, Weight[x]} /\ (x \in Group(g, d) => weight(g)[x] = Weight[x]) BY DEF OnlyIn
  <2>3. x \notin Group(g, d) => weight(e)[x] = 0 /\ weight(g)[x] = 0 BY <1>6 DEF OnlyIn
  <2>. QED BY <2>1, <2>2, <2>3
<1>8. ASSUME NEW x \in Metric PROVE weighted(g)[x] <= weighted(e)[x]
  <2>1. CASE x \in Group(e, d)
    <3>1. Score(g)[x] <= Score(e)[x] BY <2>1, ScoresFall DEF Group
    <3>2. Weight[x] \in Nat /\ Score(e)[x] \in Int /\ Score(g)[x] \in Int
      BY <1>1, <1>6, <2>1, MeasuredTypes, FullType
    <3>3. Weight[x] * Score(g)[x] <= Weight[x] * Score(e)[x] BY <3>1, <3>2, SMT
    <3>4. weighted(e)[x] = Weight[x] * Score(e)[x] /\ weighted(g)[x] = Weight[x] * Score(g)[x]
      BY <1>6, <2>1 DEF OnlyIn, Weighted
    <3>. QED BY <3>3, <3>4
  <2>2. CASE x \notin Group(e, d)
    <3>1. weighted(e)[x] = 0 BY <2>2 DEF OnlyIn
    <3>2. weighted(g)[x] = 0
      <4>1. CASE x \in Group(g, d)
        <5>1. x \in Measured(g) \ Measured(e) BY <2>2, <4>1 DEF Group
        <5>2. Score(g)[x] = 0 BY <5>1, ScoresFall
        <5>3. Weight[x] * 0 = 0 BY WeightType
        <5>. QED BY <4>1, <5>2, <5>3 DEF OnlyIn, Weighted
      <4>2. CASE x \notin Group(g, d) BY <4>2 DEF OnlyIn
      <4>. QED BY <4>1, <4>2
    <3>. QED BY <3>1, <3>2
  <2>. QED BY <2>1, <2>2
<1> HIDE DEF weight, weighted
<1>9. SumMetrics(weight(e)) <= SumMetrics(weight(g))
  BY <1>5, <1>7, SumMetricsMonotone
<1>10. SumMetrics(weighted(g)) <= SumMetrics(weighted(e))
  BY <1>5, <1>8, SumMetricsMonotone
<1>11. SumMetrics(weighted(g)) \in Nat /\ SumMetrics(weighted(e)) \in Nat
  <2>1. ASSUME NEW h \in [Metric -> Nat] PROVE SumMetrics(h) \in Nat
    <3>1. \A x \in Metric : h[x] \in Nat OBVIOUS
    <3>. QED BY <3>1, SMT DEF SumMetrics, Metric
  <2>. QED BY <1>5, <2>1
<1>12. SumMetrics(weighted(g)) \div SumMetrics(weight(g))
         <= SumMetrics(weighted(e)) \div SumMetrics(weight(e))
  BY <1>4, <1>9, <1>10, <1>11, QuotientFalls
<1>. QED BY <1>12 DEF DimensionScore, weight, weighted

(* Nor does the global score.                                                  *)
LEMMA GlobalFalls ==
  ASSUME NEW e, NEW g, Evidenced(e), Evidenced(g), Worse(e, g)
  PROVE  GlobalScore(g) <= GlobalScore(e)
<1>1. ASSUME NEW d \in Dimension PROVE WeightedDimension(g)[d] <= WeightedDimension(e)[d]
  <2>1. CASE d \in ScoredDimensions(e)
    <3>1. d \in ScoredDimensions(g) BY <2>1, AlwaysScored
    <3>2. DimensionScore(g, d) <= DimensionScore(e, d) BY <2>1, DimensionFalls
    <3>3. DimensionScore(g, d) \in Int /\ DimensionScore(e, d) \in Int BY <2>1, <3>1, DimensionMean
    <3>4. DimensionWeight[d] \in Nat BY DimensionWeightType
    <3>5. DimensionWeight[d] * DimensionScore(g, d) <= DimensionWeight[d] * DimensionScore(e, d)
      BY <3>2, <3>3, <3>4, SMT
    <3>. QED BY <2>1, <3>1, <3>5 DEF WeightedDimension
  <2>2. CASE d \notin ScoredDimensions(e)
    <3>1. d \notin ScoredDimensions(g) BY <2>2, AlwaysScored
    <3>. QED BY <2>2, <3>1 DEF WeightedDimension
  <2>. QED BY <2>1, <2>2
<1>2. \A d \in Dimension : WeightedDimension(g)[d] \in Int /\ WeightedDimension(e)[d] \in Int
  BY GlobalTypes
<1> DEFINE before == SumDimensions(WeightedDimension(e))
           after  == SumDimensions(WeightedDimension(g))
<1>3. after <= before BY <1>1, <1>2, SMT DEF SumDimensions, Dimension
<1>4. before \in Int /\ after \in Int /\ GlobalScore(e) = before \div 9 /\ GlobalScore(g) = after \div 9
  BY GlobalTypes
<1> HIDE DEF before, after
<1>. QED BY <1>3, <1>4, SMT
===============================================================================
