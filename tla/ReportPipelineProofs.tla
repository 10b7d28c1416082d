-------------------------- MODULE ReportPipelineProofs --------------------------
(* What a session is told about itself, for every report, every bound and      *)
(* every unit: the types, the means, what it takes to pass, that neither bad   *)
(* news nor a second verdict helps, and what the turns and the silences of a   *)
(* report are.                                                                 *)
EXTENDS ReportPipeline, ScoringProofs, FiniteSetTheorems, WellFoundedInduction

(* The report in hand is that of the facts, and there is none before the first *)
(* evaluation.  A session that has passed can only lose: what is recorded      *)
(* later adds to what earned it.                                               *)
ReportInv ==
  /\ ReportTypeOK
  /\ phase = "observe" => report = Evaluate(facts)
  /\ phase \in {"call", "read"} => report = NoReport
  /\ PassIsEarned

------------------------------------------------------------------------------
(* Types of what is derived.                                                   *)

(* A time of a report parses to a time or to none.                             *)
LEMMA TimeType ==
  ASSUME NEW raw
  PROVE  ParseReportTime(raw) \in Time
  BY DEF ParseReportTime, Time

(* A row leaves a list of turns: nothing, a longer last turn or a new one.     *)
LEMMA TakeRowType ==
  ASSUME NEW old \in Seq(Turn), NEW row
  PROVE  TakeRow(old, row) \in Seq(Turn)
<1>1. CASE NormaliseRole(row.role) = "none"
  BY <1>1 DEF TakeRow
<1>2. CASE NormaliseRole(row.role) # "none" /\ Continues(old, row)
  <2>1. Len(old) \in 1..Len(old) BY <1>2 DEF Continues
  <2>2. ASSUME NEW turn \in Turn, NEW time \in Time
        PROVE  [turn EXCEPT !.ended = time] \in Turn
    BY DEF Turn
  <2>3. [old[Len(old)] EXCEPT !.ended = ParseReportTime(row.endTime)] \in Turn
    BY <2>1, <2>2, TimeType
  <2>4. TakeRow(old, row)
          = [old EXCEPT ![Len(old)] = [old[Len(old)] EXCEPT !.ended = ParseReportTime(row.endTime)]]
    BY <1>2 DEF TakeRow
  <2>. QED BY <2>1, <2>3, <2>4
<1>3. CASE NormaliseRole(row.role) # "none" /\ ~ Continues(old, row)
  <2>1. NormaliseRole(row.role) \in {"assistant", "user"} BY <1>3 DEF NormaliseRole
  <2>2. ASSUME NEW role \in {"assistant", "user"}, NEW index \in Nat, NEW s \in Time, NEW t \in Time
        PROVE  [role |-> role, index |-> index, started |-> s, ended |-> t] \in Turn
    BY DEF Turn
  <2>3. NewTurn(old, row) \in Turn BY <2>1, <2>2, TimeType DEF NewTurn
  <2>4. TakeRow(old, row) = Append(old, NewTurn(old, row)) BY <1>3 DEF TakeRow
  <2>. QED BY <2>3, <2>4
<1>. QED BY <1>1, <1>2, <1>3

(* There are finitely many silences between finitely many turns.               *)
LEMMA SilenceCount ==
  ASSUME NEW list, NEW seq \in Seq(Turn)
  PROVE  DetectSilence(TimedTurns(list, seq)).count \in Nat
<1> DEFINE timed == TimedTurns(list, seq)
           pairs == {j \in 1..(Len(timed) - 1) : Qualifies(timed[j], timed[j + 1])}
           interval == [i \in pairs |-> [started |-> timed[i].ended, ended |-> timed[i + 1].started,
                                         user |-> timed[i + 1].index]]
<1>1. timed \in Seq(Turn) BY DEF TimedTurns
<1>2. \A x \in Intervals(timed) : \E i \in pairs : interval[i] = x BY DEF Intervals
<1>3. \A i \in pairs : interval[i] \in Intervals(timed) BY DEF Intervals
<1>4. DOMAIN interval = pairs /\ interval = [i \in pairs |-> interval[i]] OBVIOUS
<1>5. pairs \in SUBSET (1..(Len(timed) - 1)) OBVIOUS
<1> HIDE DEF timed, pairs, interval
<1>6. Len(timed) - 1 \in Int BY <1>1
<1>7. IsFiniteSet(1..(Len(timed) - 1)) BY <1>6, FS_Interval
<1>8. IsFiniteSet(pairs) BY <1>5, <1>7, FS_Subset
<1>9. interval \in Surjection(pairs, Intervals(timed)) BY <1>2, <1>3, <1>4 DEF Surjection
<1>10. IsFiniteSet(Intervals(timed)) BY <1>8, <1>9, FS_Surjection
<1>11. Cardinality(Intervals(timed)) \in Nat BY <1>10, FS_CardinalityType
<1>. QED BY <1>11 DEF DetectSilence, NoSilence, timed

(* The turns one side spoke can be counted.                                    *)
LEMMA SpokeType ==
  ASSUME formatted \in Seq(Entry), NEW role
  PROVE  Spoke(role) \in Nat
<1>1. Len(formatted) \in Nat OBVIOUS
<1>2. IsFiniteSet(1..Len(formatted)) BY <1>1, FS_Interval
<1>3. IsFiniteSet({i \in 1..Len(formatted) : formatted[i].role = role /\ formatted[i].text})
  BY <1>2, FS_Subset
<1>. QED BY <1>3, FS_CardinalityType DEF Spoke

(* There are finitely many flags to raise.                                     *)
LEMMA FlagsFinite ==
  ASSUME NEW flags \in SUBSET FlagCode, NEW old
  PROVE  Cardinality(flags \ old) \in Nat
<1>1. IsFiniteSet(FlagCode)
  <2> DEFINE pair == {"session_failed"} \union {"session_not_completed"}
  <2>1. IsFiniteSet({"session_failed"}) BY FS_Singleton
  <2>2. IsFiniteSet(pair) BY <2>1, FS_AddElement
  <2>3. IsFiniteSet(pair \union {"goal_not_completed"}) BY <2>2, FS_AddElement
  <2>4. IsFiniteSet((pair \union {"goal_not_completed"}) \union {"unrecovered_error"})
    BY <2>3, FS_AddElement
  <2>5. FlagCode = (pair \union {"goal_not_completed"}) \union {"unrecovered_error"} BY DEF FlagCode
  <2>. QED BY <2>4, <2>5
<1>2. IsFiniteSet(flags \ old) BY <1>1, FS_Subset
<1>. QED BY <1>2, FS_CardinalityType

(* The facts of every trace have a report.                                     *)
LEMMA EvaluateType ==
  ASSUME NEW f \in Facts
  PROVE  Evaluate(f) \in Reports
<1> DEFINE e == Evidences(f)
<1>1. Evidenced(e) BY EvidencesType
<1> HIDE DEF e
<1>2. GlobalScore(e) \in Int BY <1>1, GlobalTypes
<1>3. DimensionScores(e) \in [Dimension -> Int \union {Absent}]
  BY <1>1, DimensionMean DEF DimensionScores
<1>4. DetectBlockingFlags(e) \in SUBSET FlagCode BY DEF DetectBlockingFlags
<1>5. Result(GlobalScore(e), DetectBlockingFlags(e)) \in {"passed", "failed"} BY DEF Result
<1>6. ASSUME NEW score \in Int, NEW result \in {"passed", "failed"},
             NEW dimensions \in [Dimension -> Int \union {Absent}], NEW flags \in SUBSET FlagCode
      PROVE  [score |-> score, result |-> result, dimensions |-> dimensions, flags |-> flags] \in Reports
  BY DEF Reports
<1>. QED BY <1>2, <1>3, <1>4, <1>5, <1>6 DEF Evaluate, e

(* Facts are made of their fields.                                             *)
LEMMA FactsChange ==
  ASSUME NEW f \in Facts, NEW count \in [Counted -> Nat], NEW silence \in Nat,
         NEW latencies \in [number : Nat, total : Nat, longest : Nat],
         NEW duration \in Nat \union {Absent}
  PROVE  [count |-> count, silence |-> silence, latencies |-> latencies, duration |-> duration] \in Facts
  BY DEF Facts

(* Facts have the fields they are made of.                                     *)
LEMMA FactsFields ==
  ASSUME NEW f \in Facts
  PROVE  /\ f = [count |-> f.count, silence |-> f.silence, latencies |-> f.latencies, duration |-> f.duration]
         /\ f.count \in [Counted -> Nat] /\ f.silence \in Nat
         /\ f.latencies \in [number : Nat, total : Nat, longest : Nat]
         /\ f.duration \in Nat \union {Absent}
  BY DEF Facts

(* Some events are added to those of the trace.                                *)
LEMMA CountChange ==
  ASSUME NEW f \in Facts, NEW count \in [Counted -> Nat]
  PROVE  [f EXCEPT !.count = count] \in Facts
  BY FactsFields, FactsChange DEF Facts

------------------------------------------------------------------------------
(* What it takes to pass.                                                      *)

(* A trace that passes has its end, no failure, and a turn or a goal achieved. *)
LEMMA PassedIsEarned ==
  ASSUME NEW f \in Facts, Evaluate(f).result = "passed"
  PROVE  /\ Occurs(f, "SESSION_ENDED") /\ ~ Occurs(f, "SESSION_FAILED")
         /\ AllTurns(f) > 0 \/ Occurs(f, "CONVERSATION_GOAL_ACHIEVED")
<1> DEFINE e == Evidences(f)
<1>1. DetectBlockingFlags(e) = {} /\ ~ (GlobalScore(e) < PassThreshold)
  BY DEF Evaluate, Result
<1>2. /\ e.session_failed = Occurs(f, "SESSION_FAILED")
      /\ e.session_completed = Occurs(f, "SESSION_ENDED")
      /\ e.goal_completion = GoalCompletion(f)
  BY DEF Evidences
<1>3. ~ e.session_failed /\ e.session_completed /\ e.goal_completion # 0
  <2>1. ~ e.session_failed
    <3>1. "session_failed" \notin DetectBlockingFlags(e) BY <1>1
    <3>. QED BY <3>1 DEF DetectBlockingFlags, FlagCode
  <2>2. e.session_completed
    <3>1. "session_not_completed" \notin DetectBlockingFlags(e) BY <1>1
    <3>. QED BY <2>1, <3>1 DEF DetectBlockingFlags, FlagCode
  <2>3. e.goal_completion # 0
    <3>1. "goal_not_completed" \notin DetectBlockingFlags(e) BY <1>1
    <3>. QED BY <3>1 DEF DetectBlockingFlags, FlagCode
  <2>. QED BY <2>1, <2>2, <2>3
<1>4. ~ Occurs(f, "CONVERSATION_GOAL_ACHIEVED") => ~ Occurs(f, "CONVERSATION_GOAL_FAILED")
  BY <1>2, <1>3 DEF GoalCompletion
<1>5. AllTurns(f) \in Nat
  BY DEF AllTurns, Agents, Facts, Counted
<1>6. AllTurns(f) = 0 => Occurs(f, "CONVERSATION_GOAL_ACHIEVED")
  BY <1>1, <1>4, SilentCallFails
<1>. QED BY <1>2, <1>3, <1>5, <1>6

(* What is recorded after an evaluation takes nothing away from it.            *)
LEMMA EarnedStays ==
  ASSUME ReportInv, facts' \in Facts, report' = report,
         \A type \in {"SESSION_ENDED", "SESSION_FAILED"} : facts'.count[type] = facts.count[type],
         \A type \in {"CONVERSATION_AGENT_RESPONSE", "CONVERSATION_USER_INPUT", "CONVERSATION_GOAL_ACHIEVED"} :
           facts'.count[type] >= facts.count[type]
  PROVE  PassIsEarned'
<1>1. facts \in Facts BY DEF ReportInv, ReportTypeOK
<1>2. \A type \in Counted : facts.count[type] \in Nat /\ facts'.count[type] \in Nat
  BY <1>1 DEF Facts
<1>3. AllTurns(facts') >= AllTurns(facts) BY <1>2 DEF AllTurns, Agents, Counted
<1>4. AllTurns(facts') \in Nat /\ AllTurns(facts) \in Nat BY <1>2 DEF AllTurns, Agents, Counted
<1>5. Occurs(facts, "CONVERSATION_GOAL_ACHIEVED") => Occurs(facts', "CONVERSATION_GOAL_ACHIEVED")
  BY <1>2 DEF Occurs, Counted
<1>6. /\ Occurs(facts', "SESSION_ENDED") = Occurs(facts, "SESSION_ENDED")
      /\ Occurs(facts', "SESSION_FAILED") = Occurs(facts, "SESSION_FAILED")
  BY DEF Occurs
<1>7. PassIsEarned BY DEF ReportInv
<1>. QED BY <1>3, <1>4, <1>5, <1>6, <1>7 DEF PassIsEarned

------------------------------------------------------------------------------
(* The invariant is inductive.                                                 *)

(* Before the call.                                                            *)
LEMMA ReportInit_Inv ==
  ASSUME ReportInit
  PROVE  ReportInv
<1>1. facts \in Facts
  <2>1. [type \in Counted |-> 0] \in [Counted -> Nat] OBVIOUS
  <2>2. NoLatencies \in [number : Nat, total : Nat, longest : Nat] BY DEF NoLatencies
  <2>. QED BY <2>1, <2>2, FactsChange DEF ReportInit, Facts
<1>2. derived \in [agents : Nat, users : Nat, silence : Nat] BY DEF ReportInit
<1>3. ReportTypeOK
  BY <1>1, <1>2 DEF ReportInit, ReportTypeOK, Phases, MaxAttempts
<1>4. PassIsEarned BY DEF ReportInit, NoReport, PassIsEarned
<1>. QED BY <1>3, <1>4 DEF ReportInit, ReportInv

(* One event more.                                                             *)
LEMMA OneMore ==
  ASSUME NEW f \in Facts, NEW type \in Counted, NEW n \in Nat
  PROVE  /\ [f EXCEPT !.count[type] = n] \in Facts
         /\ [f EXCEPT !.count[type] = n].count = [f.count EXCEPT ![type] = n]
<1>1. [f.count EXCEPT ![type] = n] \in [Counted -> Nat] BY FactsFields
<1>. QED BY <1>1, FactsFields, CountChange

(* Two events more.                                                            *)
With(f, a, x, b, y) == [f EXCEPT !.count[a] = x, !.count[b] = y]

(* Two types are counted anew, and nothing else changes.                       *)
LEMMA TwoMore ==
  ASSUME NEW f \in Facts, NEW a \in Counted, NEW b \in Counted, a # b, NEW x \in Nat, NEW y \in Nat
  PROVE  /\ With(f, a, x, b, y) \in Facts
         /\ \A type \in Counted :
              With(f, a, x, b, y).count[type] = IF type = b THEN y ELSE IF type = a THEN x ELSE f.count[type]
<1> DEFINE one == [f EXCEPT !.count[a] = x]
           two == [one EXCEPT !.count[b] = y]
<1>1. one \in Facts /\ one.count = [f.count EXCEPT ![a] = x] BY OneMore
<1>2. With(f, a, x, b, y) = two BY FactsFields DEF With
<1> HIDE DEF one
<1>3. two \in Facts /\ two.count = [one.count EXCEPT ![b] = y] BY <1>1, OneMore
<1> HIDE DEF two
<1>4. f.count \in [Counted -> Nat] /\ one.count \in [Counted -> Nat] BY <1>1, FactsFields
<1>5. \A type \in Counted : two.count[type] = IF type = b THEN y ELSE IF type = a THEN x ELSE f.count[type]
  BY <1>1, <1>3, <1>4
<1>. QED BY <1>2, <1>3, <1>5

(* A message in the call precedes every report.                                *)
LEMMA ObserveInv ==
  ASSUME ReportInv, NEW type \in MidCall, Observe(type)
  PROVE  ReportInv'
<1>1. facts \in Facts /\ type \in Counted BY DEF ReportInv, ReportTypeOK, MidCall, Counted
<1>2. facts.count[type] + 1 \in Nat BY <1>1, FactsFields
<1>3. facts' \in Facts BY <1>1, <1>2, OneMore DEF Observe
<1>4. ReportTypeOK' BY <1>3 DEF ReportInv, ReportTypeOK, Observe, reading
<1>5. phase' = "call" /\ report' = NoReport BY DEF ReportInv, Observe
<1>. QED BY <1>4, <1>5 DEF ReportInv, PassIsEarned, NoReport

(* The end of the call precedes every report.                                  *)
LEMMA EndInv ==
  ASSUME ReportInv, NEW type \in {"SESSION_ENDED", "SESSION_FAILED"}, NEW list \in Formatted,
         NEW timing \in Timing, End(type, list, timing)
  PROVE  ReportInv'
<1>1. facts \in Facts /\ type \in Counted /\ "SYSTEM_ERROR" \in Counted
  BY DEF ReportInv, ReportTypeOK, Counted
<1> DEFINE error == IF type = "SESSION_FAILED" THEN 1 ELSE 0
           ended == With(facts, type, 1, "SYSTEM_ERROR", error)
<1>2. ended \in Facts BY <1>1, TwoMore
<1>3. Summary(timing.latencies) \in [number : Nat, total : Nat, longest : Nat]
      /\ timing.duration \in Nat \union {Absent}
  BY ReportAssumption
<1>4. facts' = [ended EXCEPT !.latencies = Summary(timing.latencies), !.duration = timing.duration]
  BY <1>1, FactsFields DEF End, With
<1> HIDE DEF ended
<1>5. ASSUME NEW f \in Facts, NEW latencies \in [number : Nat, total : Nat, longest : Nat],
             NEW duration \in Nat \union {Absent}
      PROVE  [f EXCEPT !.latencies = latencies, !.duration = duration] \in Facts
  BY DEF Facts
<1>6. facts' \in Facts BY <1>2, <1>3, <1>4, <1>5
<1>7. formatted' \in Seq(Entry) BY ReportAssumption DEF End
<1>8. ReportTypeOK' BY <1>6, <1>7 DEF ReportInv, ReportTypeOK, End, Phases
<1>9. phase' = "read" /\ report' = NoReport BY DEF ReportInv, End
<1>. QED BY <1>8, <1>9 DEF ReportInv, PassIsEarned, NoReport

(* Reading the messages touches no event.                                      *)
LEMMA ReadRowInv ==
  ASSUME ReportInv, NEW row \in Row, ReadRow(row)
  PROVE  ReportInv'
<1>1. messages' \in Seq(Row) BY DEF ReportInv, ReportTypeOK, ReadRow
<1>2. turns' \in Seq(Turn) BY TakeRowType DEF ReportInv, ReportTypeOK, ReadRow
<1>3. ReportTypeOK' BY <1>1, <1>2 DEF ReportInv, ReportTypeOK, ReadRow
<1>4. phase' = "read" /\ report' = NoReport BY DEF ReportInv, ReadRow
<1>. QED BY <1>3, <1>4 DEF ReportInv, PassIsEarned, NoReport

(* What is derived can be counted, and is not recorded yet.                    *)
LEMMA DeriveInv ==
  ASSUME ReportInv, Derive
  PROVE  ReportInv'
<1>1. /\ Spoke("assistant") \in Nat /\ Spoke("user") \in Nat
      /\ DetectSilence(TimedTurns(formatted, turns)).count \in Nat
  BY SpokeType, SilenceCount DEF ReportInv, ReportTypeOK
<1>2. ASSUME NEW a \in Nat, NEW u \in Nat, NEW s \in Nat
      PROVE  [agents |-> a, users |-> u, silence |-> s] \in [agents : Nat, users : Nat, silence : Nat]
  OBVIOUS
<1>3. derived' \in [agents : Nat, users : Nat, silence : Nat] BY <1>1, <1>2 DEF Derive
<1>4. ReportTypeOK' BY <1>3 DEF ReportInv, ReportTypeOK, Derive, Phases
<1>5. phase' = "content" /\ report' = NoReport BY DEF ReportInv, Derive
<1>. QED BY <1>4, <1>5 DEF ReportInv, PassIsEarned, NoReport

(* Content only adds turns.                                                    *)
LEMMA RecordContentInv ==
  ASSUME ReportInv, RecordContent
  PROVE  ReportInv'
<1>1. facts \in Facts /\ derived.agents \in Nat /\ derived.users \in Nat
  BY DEF ReportInv, ReportTypeOK
<1> DEFINE a == "CONVERSATION_AGENT_RESPONSE"
           u == "CONVERSATION_USER_INPUT"
           agents == facts.count["CONVERSATION_AGENT_RESPONSE"] + derived.agents
           users  == facts.count["CONVERSATION_USER_INPUT"] + derived.users
           more   == With(facts, a, agents, u, users)
<1>2. \A type \in Counted : facts.count[type] \in Nat BY <1>1, FactsFields
<1>3. a \in Counted /\ u \in Counted /\ a # u BY DEF Counted
<1>4. /\ agents \in Nat /\ agents >= facts.count["CONVERSATION_AGENT_RESPONSE"]
      /\ users \in Nat /\ users >= facts.count["CONVERSATION_USER_INPUT"]
  BY <1>1, <1>2, <1>3
<1>5. facts' = facts \/ facts' = more BY DEF RecordContent, With
<1> HIDE DEF a, u, agents, users
<1>6. /\ more \in Facts
      /\ \A type \in Counted : more.count[type] = IF type = u THEN users
                                                ELSE IF type = a THEN agents ELSE facts.count[type]
  BY <1>1, <1>3, <1>4, TwoMore
<1> HIDE DEF more
<1>7. facts' \in Facts BY <1>1, <1>5, <1>6
<1>8. /\ \A type \in {"SESSION_ENDED", "SESSION_FAILED"} : facts'.count[type] = facts.count[type]
      /\ \A type \in {"CONVERSATION_AGENT_RESPONSE", "CONVERSATION_USER_INPUT", "CONVERSATION_GOAL_ACHIEVED"} :
           facts'.count[type] >= facts.count[type]
  <2>1. CASE facts' = facts BY <1>2, <2>1 DEF Counted
  <2>2. CASE facts' = more BY <1>2, <1>4, <1>6, <2>2 DEF Counted, a, u
  <2>. QED BY <1>5, <2>1, <2>2
<1>9. report' = report /\ phase' = "silence" BY DEF RecordContent
<1>10. PassIsEarned' BY <1>7, <1>8, <1>9, EarnedStays
<1>11. ReportTypeOK' BY <1>7 DEF ReportInv, ReportTypeOK, RecordContent, reading, Phases
<1>. QED BY <1>9, <1>10, <1>11 DEF ReportInv

(* Silence takes no turn away.                                                 *)
LEMMA RecordSilenceInv ==
  ASSUME ReportInv, RecordSilence
  PROVE  ReportInv'
<1>1. facts \in Facts /\ derived.silence \in Nat BY DEF ReportInv, ReportTypeOK
<1>2. /\ facts' = [count |-> facts.count, silence |-> derived.silence, latencies |-> facts.latencies,
                   duration |-> facts.duration]
      /\ facts'.count = facts.count
  BY <1>1, FactsFields DEF RecordSilence
<1>3. facts' \in Facts BY <1>1, <1>2, FactsFields, FactsChange
<1>4. \A type \in Counted : facts.count[type] \in Nat BY <1>1, FactsFields
<1>5. report' = report /\ phase' = "judge" BY DEF RecordSilence
<1>6. PassIsEarned' BY <1>2, <1>3, <1>4, <1>5, EarnedStays DEF Counted
<1>7. ReportTypeOK' BY <1>3 DEF ReportInv, ReportTypeOK, RecordSilence, reading, Phases
<1>. QED BY <1>5, <1>6, <1>7 DEF ReportInv

Later == {"CONVERSATION_GOAL_ACHIEVED", "CONVERSATION_GOAL_FAILED", "SYSTEM_ERROR", "SYSTEM_FLAG_RAISED"}

(* One event more, after the call, of a type that takes nothing back.          *)
LEMMA EventInv ==
  ASSUME ReportInv, NEW type \in Later, NEW n \in Nat, type = "CONVERSATION_GOAL_ACHIEVED" => n = 1,
         facts' \in {facts, [facts EXCEPT !.count[type] = n]}, report' = report
  PROVE  facts' \in Facts /\ PassIsEarned'
<1>1. facts \in Facts /\ type \in Counted BY DEF ReportInv, ReportTypeOK, Later, Counted
<1>2. \A x \in Counted : facts.count[x] \in Nat BY <1>1, FactsFields
<1>3. CASE facts' = facts BY <1>1, <1>2, <1>3, EarnedStays DEF Counted
<1>4. CASE facts' = [facts EXCEPT !.count[type] = n]
  <2>1. facts' \in Facts /\ facts'.count = [facts.count EXCEPT ![type] = n]
    BY <1>1, <1>4, OneMore
  <2>2. \A x \in Counted : facts'.count[x] = IF x = type THEN n ELSE facts.count[x]
    BY <1>1, <2>1, FactsFields
  <2>3. CASE type = "CONVERSATION_GOAL_ACHIEVED" /\ n = 1
    <3>1. PassIsEarned BY DEF ReportInv
    <3>2. /\ Occurs(facts', "CONVERSATION_GOAL_ACHIEVED")
          /\ Occurs(facts', "SESSION_ENDED") = Occurs(facts, "SESSION_ENDED")
          /\ Occurs(facts', "SESSION_FAILED") = Occurs(facts, "SESSION_FAILED")
      BY <2>2, <2>3 DEF Occurs, Counted, Later
    <3>. QED BY <2>1, <3>1, <3>2 DEF PassIsEarned
  <2>4. CASE ~ (type = "CONVERSATION_GOAL_ACHIEVED" /\ n = 1)
    <3>1. /\ \A x \in {"SESSION_ENDED", "SESSION_FAILED"} : facts'.count[x] = facts.count[x]
          /\ \A x \in {"CONVERSATION_AGENT_RESPONSE", "CONVERSATION_USER_INPUT", "CONVERSATION_GOAL_ACHIEVED"} :
               facts'.count[x] >= facts.count[x]
      BY <1>2, <2>2, <2>4 DEF Counted, Later
    <3>. QED BY <2>1, <3>1, EarnedStays
  <2>. QED BY <2>3, <2>4
<1>. QED BY <1>3, <1>4

(* A verdict adds a goal, a failed attempt nothing.                            *)
LEMMA JudgeInv ==
  ASSUME ReportInv, JudgeFails \/ \E goal \in {"CONVERSATION_GOAL_ACHIEVED", "CONVERSATION_GOAL_FAILED"} : RecordVerdict(goal)
  PROVE  ReportInv'
<1>1. CASE JudgeFails
  <2>1. attempts + 1 \in 0..MaxAttempts
    BY <1>1 DEF JudgeFails, Judging, ReportInv, ReportTypeOK, MaxAttempts
  <2>2. ReportTypeOK' BY <1>1, <2>1 DEF JudgeFails, ReportInv, ReportTypeOK, reading
  <2>3. facts' = facts /\ report' = report /\ phase' = phase BY <1>1 DEF JudgeFails
  <2>4. phase = "judge" BY <1>1 DEF JudgeFails, Judging
  <2>. QED BY <2>2, <2>3, <2>4 DEF ReportInv, PassIsEarned
<1>2. ASSUME NEW goal \in {"CONVERSATION_GOAL_ACHIEVED", "CONVERSATION_GOAL_FAILED"}, RecordVerdict(goal)
      PROVE  ReportInv'
  <2>1. goal \in Later BY DEF Later
  <2>2. facts' = [facts EXCEPT !.count[goal] = 1] /\ report' = report /\ phase' = "evaluate"
    BY <1>2 DEF RecordVerdict
  <2>3. facts' \in Facts /\ PassIsEarned' BY <2>1, <2>2, EventInv
  <2>4. ReportTypeOK' BY <1>2, <2>3 DEF RecordVerdict, ReportInv, ReportTypeOK, reading, Phases, MaxAttempts
  <2>. QED BY <2>2, <2>3, <2>4 DEF ReportInv
<1>. QED BY <1>1, <1>2

(* A step that fails leaves facts and report alone.                            *)
LEMMA RecordNothingInv ==
  ASSUME ReportInv, RecordNothing
  PROVE  ReportInv'
<1>1. phase' \in {"silence", "judge", "evaluate", "done"} BY DEF RecordNothing, NextPhase
<1>2. ReportTypeOK' BY <1>1 DEF RecordNothing, ReportInv, ReportTypeOK, reading, Phases, MaxAttempts
<1>3. facts' = facts /\ report' = report BY DEF RecordNothing
<1>. QED BY <1>1, <1>2, <1>3 DEF ReportInv, PassIsEarned

(* The evaluation reports what the facts say.                                  *)
LEMMA EvaluateTraceInv ==
  ASSUME ReportInv, EvaluateTrace
  PROVE  ReportInv'
<1>1. facts \in Facts /\ facts' = facts /\ report' = Evaluate(facts) /\ phase' = "observe"
  BY DEF ReportInv, ReportTypeOK, EvaluateTrace
<1>2. report' \in Reports BY <1>1, EvaluateType
<1>3. ReportTypeOK' BY <1>1, <1>2 DEF EvaluateTrace, ReportInv, ReportTypeOK, reading, Phases
<1>4. PassIsEarned' BY <1>1, PassedIsEarned DEF PassIsEarned
<1>. QED BY <1>1, <1>3, <1>4 DEF ReportInv

(* An evaluation that fails adds an error and no report.                       *)
LEMMA EvaluationRaisesInv ==
  ASSUME ReportInv, EvaluationRaises
  PROVE  ReportInv'
<1> DEFINE error == "SYSTEM_ERROR"
           n == facts.count[error] + 1
<1>1. error \in Later /\ error \in Counted /\ error # "CONVERSATION_GOAL_ACHIEVED" BY DEF Later, Counted
<1>2. n \in Nat BY <1>1, FactsFields DEF ReportInv, ReportTypeOK
<1>3. /\ facts' \in {facts, [facts EXCEPT !.count[error] = n]}
      /\ report' = report /\ phase' = "done"
  BY DEF EvaluationRaises
<1> HIDE DEF n, error
<1>4. facts' \in Facts /\ PassIsEarned' BY <1>1, <1>2, <1>3, EventInv
<1>5. ReportTypeOK' BY <1>4 DEF EvaluationRaises, ReportInv, ReportTypeOK, reading, Phases
<1>. QED BY <1>3, <1>4, <1>5 DEF ReportInv

(* The flags recorded add to the trace and not to the report.                  *)
LEMMA RecordFlagsInv ==
  ASSUME ReportInv, RecordFlags
  PROVE  ReportInv'
<1> DEFINE flag == "SYSTEM_FLAG_RAISED"
<1>1. flag \in Later /\ flag \in Counted /\ flag # "CONVERSATION_GOAL_ACHIEVED" BY DEF Later, Counted
<1>2. report \in Reports BY DEF RecordFlags, ReportInv, ReportTypeOK
<1>3. report.flags \in SUBSET FlagCode BY <1>2 DEF Reports
<1> DEFINE added == Cardinality(report.flags \ recorded)
           n == facts.count[flag] + added
<1>4. added \in Nat BY <1>3, FlagsFinite
<1>5. facts' = [facts EXCEPT !.count[flag] = n]
  BY DEF RecordFlags
<1> HIDE DEF added
<1>6. n \in Nat
  BY <1>1, <1>4, FactsFields DEF ReportInv, ReportTypeOK
<1> HIDE DEF n, flag
<1>7. report' = report /\ phase' = "done" BY DEF RecordFlags
<1>8. facts' \in Facts /\ PassIsEarned' BY <1>1, <1>5, <1>6, <1>7, EventInv
<1>9. ReportTypeOK' BY <1>3, <1>8 DEF RecordFlags, ReportInv, ReportTypeOK, reading, Phases
<1>. QED BY <1>7, <1>8, <1>9 DEF ReportInv

(* Another evaluation keeps the report until it has its own.                   *)
LEMMA ReevaluateInv ==
  ASSUME ReportInv, Reevaluate
  PROVE  ReportInv'
<1>1. ReportTypeOK' BY DEF Reevaluate, ReportInv, ReportTypeOK, reading, Phases
<1>2. facts' = facts /\ report' = report /\ phase' = "content" BY DEF Reevaluate
<1>. QED BY <1>1, <1>2 DEF ReportInv, PassIsEarned

(* Every step keeps the invariant.                                             *)
LEMMA ReportNext_Inv ==
  ASSUME ReportInv, [ReportNext]_reportVars
  PROVE  ReportInv'
<1>1. CASE ReportNext
  BY <1>1, ObserveInv, EndInv, ReadRowInv, DeriveInv, RecordContentInv, RecordSilenceInv, JudgeInv,
     RecordNothingInv, EvaluateTraceInv, EvaluationRaisesInv, RecordFlagsInv, ReevaluateInv
  DEF ReportNext
<1>2. CASE UNCHANGED reportVars
  BY <1>2 DEF reportVars, reading, ReportInv, ReportTypeOK, PassIsEarned
<1>. QED BY <1>1, <1>2

(* The inductive invariant behind the results below, for every behaviour of    *)
(* the call and its evaluations.                                               *)
THEOREM ReportInvariant == ReportSpec => []ReportInv
<1>1. ReportInit => ReportInv BY ReportInit_Inv
<1>2. ReportInv /\ [ReportNext]_reportVars => ReportInv' BY ReportNext_Inv
<1>. QED BY <1>1, <1>2, PTL DEF ReportSpec

\* Every variable keeps its type: the facts of a trace are counts, a report has a verdict,
\* four dimensions and the flags of the catalogue, and the judge is asked three times at most.
THEOREM ReportTypes == ReportSpec => []ReportTypeOK
<1>1. ReportInv => ReportTypeOK BY DEF ReportInv
<1>. QED BY <1>1, ReportInvariant, PTL

\* Whatever is recorded in whichever order, a passed session ended in good order, and somebody
\* was heard or the goal was achieved (evaluator.py:51, flags.py:25).
THEOREM PassesAreEarned == ReportSpec => []PassIsEarned
<1>1. ReportInv => PassIsEarned BY DEF ReportInv
<1>. QED BY <1>1, ReportInvariant, PTL

\* The scores of a report are means of scores of metrics that have evidence and a weight, for
\* every trace: no clamp, quotient or omission takes one out of its range (engine.py:10).
THEOREM ReportsAreMeans == ReportSpec => []ScoresAreMeans
<1>1. ASSUME ReportInv, phase = "observe"
      PROVE  ScoresAreMeans
  <2> DEFINE e == Evidences(facts)
  <2>1. Evidenced(e) BY <1>1, EvidencesType DEF ReportInv, ReportTypeOK
  <2>2. report = Evaluate(facts) BY <1>1 DEF ReportInv
  <2>3. report.score = GlobalScore(e) /\ report.dimensions = DimensionScores(e)
    BY <2>2 DEF Evaluate
  <2> HIDE DEF e
  <2>4. \A d \in ScoredDimensions(e) : report.dimensions[d] = DimensionScore(e, d)
    BY <2>3, AlwaysScored DEF DimensionScores
  <2>5. \A m \in Measured(e) : Score(e)[m] \in 0..Full BY <2>1, ScoreRange
  <2>6. \A d \in ScoredDimensions(e) : \E low, high \in Group(e, d) :
          Score(e)[low] <= DimensionScore(e, d) /\ DimensionScore(e, d) <= Score(e)[high]
    BY <2>1, DimensionMean
  <2>7. \E low, high \in ScoredDimensions(e) :
          DimensionScore(e, low) <= GlobalScore(e) /\ GlobalScore(e) <= DimensionScore(e, high)
    BY <2>1, GlobalMean
  <2>. QED BY <2>3, <2>4, <2>5, <2>6, <2>7 DEF ScoresAreMeans, e
<1>2. ReportInv => ScoresAreMeans BY <1>1 DEF ScoresAreMeans
<1>. QED BY <1>2, ReportInvariant, PTL

------------------------------------------------------------------------------
(* News.                                                                       *)

(* The goal is absent, missed or achieved, by what the trace holds.            *)
LEMMA GoalCases ==
  ASSUME NEW f
  PROVE  /\ Occurs(f, "CONVERSATION_GOAL_ACHIEVED") => GoalCompletion(f) = 1
         /\ ~ Occurs(f, "CONVERSATION_GOAL_ACHIEVED") /\ Occurs(f, "CONVERSATION_GOAL_FAILED")
              => GoalCompletion(f) = 0
         /\ ~ Occurs(f, "CONVERSATION_GOAL_ACHIEVED") /\ ~ Occurs(f, "CONVERSATION_GOAL_FAILED")
              => GoalCompletion(f) = Absent
  BY DEF GoalCompletion, Occurs

(* One event more of a bad type makes worse evidences.                         *)
LEMMA BadNewsIsWorse ==
  ASSUME NEW f \in Facts, NEW g \in Facts, MoreOf(BadNews, f, g)
  PROVE  Worse(Evidences(f), Evidences(g))
<1>1. \A type \in Counted : f.count[type] \in Nat /\ g.count[type] \in Nat BY FactsFields
<1>2. /\ \A type \in {"CONVERSATION_AGENT_RESPONSE", "CONVERSATION_USER_INPUT",
                      "CONVERSATION_GOAL_ACHIEVED", "SESSION_ENDED", "SESSION_FAILED"} :
           g.count[type] = f.count[type]
      /\ \A type \in {"CONVERSATION_INTERRUPTION_DETECTED", "CONVERSATION_GOAL_FAILED", "SYSTEM_WARNING",
                      "SYSTEM_ERROR", "SYSTEM_FLAG_RAISED"} : g.count[type] >= f.count[type]
      /\ g.latencies = f.latencies /\ g.duration = f.duration /\ g.silence >= f.silence
      /\ f.silence \in Nat /\ g.silence \in Nat
  BY FactsFields DEF MoreOf, BadNews, Counted
<1>3. /\ Agents(g) = Agents(f) /\ AllTurns(g) = AllTurns(f)
      /\ Agents(f) \in Nat /\ AllTurns(f) \in Nat
  BY <1>1, <1>2 DEF Agents, AllTurns, Counted
<1>4. \/ GoalCompletion(g) = GoalCompletion(f)
      \/ GoalCompletion(f) = Absent /\ GoalCompletion(g) = 0
  <2>1. Occurs(g, "CONVERSATION_GOAL_ACHIEVED") <=> Occurs(f, "CONVERSATION_GOAL_ACHIEVED")
    BY <1>2 DEF Occurs
  <2>2. Occurs(f, "CONVERSATION_GOAL_FAILED") => Occurs(g, "CONVERSATION_GOAL_FAILED")
    BY <1>1, <1>2 DEF Occurs, Counted
  <2>3. CASE Occurs(f, "CONVERSATION_GOAL_ACHIEVED")
    <3>1. GoalCompletion(f) = 1 BY <2>3, GoalCases
    <3>2. GoalCompletion(g) = 1 BY <2>1, <2>3, GoalCases
    <3>. QED BY <3>1, <3>2
  <2>4. CASE ~ Occurs(f, "CONVERSATION_GOAL_ACHIEVED") /\ Occurs(g, "CONVERSATION_GOAL_FAILED")
    <3>1. GoalCompletion(f) \in {0, Absent} BY <2>4 DEF GoalCompletion
    <3>2. GoalCompletion(g) = 0 BY <2>1, <2>4, GoalCases
    <3>. QED BY <3>1, <3>2
  <2>5. CASE ~ Occurs(f, "CONVERSATION_GOAL_ACHIEVED") /\ ~ Occurs(g, "CONVERSATION_GOAL_FAILED")
    <3>1. GoalCompletion(f) = Absent BY <2>2, <2>5, GoalCases
    <3>2. GoalCompletion(g) = Absent BY <2>1, <2>5, GoalCases
    <3>. QED BY <3>1, <3>2
  <2>. QED BY <2>3, <2>4, <2>5
<1>5. UnrecoveredError(g) >= UnrecoveredError(f)
  BY <1>1, <1>2 DEF UnrecoveredError, Occurs, Counted
<1> DEFINE cut(x) == Agents(x) - x.count["CONVERSATION_INTERRUPTION_DETECTED"]
<1>6. Rate(cut(g), Agents(f)) <= Rate(cut(f), Agents(f))
  <2>1. cut(g) \in Int /\ cut(f) \in Int /\ cut(g) <= cut(f)
    BY <1>1, <1>2, <1>3 DEF Counted
  <2> HIDE DEF cut
  <2>. QED BY <1>3, <2>1, RateMonotone
<1>7. /\ Rate(g.silence, AllTurns(f)) >= Rate(f.silence, AllTurns(f))
      /\ Rate(g.count["SYSTEM_ERROR"], AllTurns(f)) >= Rate(f.count["SYSTEM_ERROR"], AllTurns(f))
      /\ Rate(g.count["SYSTEM_WARNING"], AllTurns(f)) >= Rate(f.count["SYSTEM_WARNING"], AllTurns(f))
  <2>1. ASSUME NEW a \in Nat, NEW b \in Nat, a >= b PROVE Rate(a, AllTurns(f)) >= Rate(b, AllTurns(f))
    <3>1. Rate(b, AllTurns(f)) <= Rate(a, AllTurns(f)) BY <1>3, <2>1, RateMonotone
    <3>2. Rate(a, AllTurns(f)) \in Int /\ Rate(b, AllTurns(f)) \in Int BY <1>3, RateType
    <3>. QED BY <3>1, <3>2
  <2>2. {"SYSTEM_ERROR", "SYSTEM_WARNING"} \subseteq Counted BY DEF Counted
  <2>. QED BY <1>1, <1>2, <2>1, <2>2
<1>8. g.count["SYSTEM_FLAG_RAISED"] >= f.count["SYSTEM_FLAG_RAISED"] BY <1>2
<1>. QED BY <1>2, <1>3, <1>4, <1>5, <1>6, <1>7, <1>8 DEF Worse, Evidences, Agents

(* Bad news lifts no blocking flag.                                            *)
LEMMA FlagsStand ==
  ASSUME NEW f \in Facts, NEW g \in Facts, MoreOf(BadNews, f, g)
  PROVE  DetectBlockingFlags(Evidences(f)) \subseteq DetectBlockingFlags(Evidences(g))
<1> DEFINE e == Evidences(f)
           h == Evidences(g)
<1>1. Worse(e, h) /\ Evidenced(e) /\ Evidenced(h) BY BadNewsIsWorse, EvidencesType
<1>2. h.session_failed = e.session_failed /\ h.session_completed = e.session_completed
  BY DEF Evidences, Occurs, MoreOf, BadNews, Counted
<1> HIDE DEF e, h
<1>3. e.goal_completion = 0 => h.goal_completion = 0
  BY <1>1, UnitAssumption DEF Worse
<1>4. e.unrecovered_error_present = 1 => h.unrecovered_error_present = 1
  BY <1>1 DEF Worse, Evidenced
<1>. QED BY <1>2, <1>3, <1>4 DEF DetectBlockingFlags, e, h

\* An event that speaks against a session raises no score of it and clears no flag, in any
\* trace: the clamps of normalisation.py, the inverses of metric_spec.py and the omissions of
\* catalogue.py point the same way.
THEOREM BadNewsHurts == ReportSpec => BadNewsNeverHelps
<1>1. ASSUME ReportInv, ReportInv', MoreOf(BadNews, facts, facts')
      PROVE  /\ Evaluate(facts').score <= Evaluate(facts).score
             /\ \A d \in Dimension \ {"operational"} :
                  Evaluate(facts').dimensions[d] <= Evaluate(facts).dimensions[d]
             /\ Evaluate(facts).flags \subseteq Evaluate(facts').flags
  <2> DEFINE e == Evidences(facts)
             h == Evidences(facts')
  <2>1. facts \in Facts /\ facts' \in Facts BY <1>1 DEF ReportInv, ReportTypeOK
  <2>2. Worse(e, h) /\ Evidenced(e) /\ Evidenced(h) BY <1>1, <2>1, BadNewsIsWorse, EvidencesType
  <2>3. DetectBlockingFlags(e) \subseteq DetectBlockingFlags(h) BY <1>1, <2>1, FlagsStand
  <2>4. /\ Evaluate(facts).score = GlobalScore(e) /\ Evaluate(facts').score = GlobalScore(h)
        /\ Evaluate(facts).dimensions = DimensionScores(e) /\ Evaluate(facts').dimensions = DimensionScores(h)
        /\ Evaluate(facts).flags = DetectBlockingFlags(e) /\ Evaluate(facts').flags = DetectBlockingFlags(h)
    BY DEF Evaluate
  <2> HIDE DEF e, h
  <2>5. GlobalScore(h) <= GlobalScore(e) BY <2>2, GlobalFalls
  <2>6. ASSUME NEW d \in Dimension \ {"operational"}
        PROVE  DimensionScores(h)[d] <= DimensionScores(e)[d]
    <3>1. d \in ScoredDimensions(e) /\ d \in ScoredDimensions(h) BY AlwaysScored DEF Dimension
    <3>2. DimensionScore(h, d) <= DimensionScore(e, d) BY <2>2, <3>1, DimensionFalls
    <3>. QED BY <3>1, <3>2 DEF DimensionScores
  <2>. QED BY <2>3, <2>4, <2>5, <2>6
<1>2. ReportInv /\ ReportInv' =>
        [facts' # facts /\ MoreOf(BadNews, facts, facts') =>
           /\ Evaluate(facts').score <= Evaluate(facts).score
           /\ \A d \in Dimension \ {"operational"} :
                Evaluate(facts').dimensions[d] <= Evaluate(facts).dimensions[d]
           /\ Evaluate(facts).flags \subseteq Evaluate(facts').flags]_reportVars
  BY <1>1
<1>. QED BY <1>2, ReportInvariant, PTL DEF BadNewsNeverHelps

\* Once the goal is achieved, the verdict of a later judge changes nothing of the report
\* (evidence_builder.py:74).
THEOREM AchievedForGood == ReportSpec => AchievedStands
<1>1. ASSUME ReportInv, ReportInv', Occurs(facts, "CONVERSATION_GOAL_ACHIEVED"),
             MoreOf({"CONVERSATION_GOAL_FAILED"}, facts, facts'), facts'.silence = facts.silence
      PROVE  Evaluate(facts') = Evaluate(facts)
  <2>1. /\ \A type \in Counted \ {"CONVERSATION_GOAL_FAILED"} : facts'.count[type] = facts.count[type]
        /\ facts'.latencies = facts.latencies /\ facts'.duration = facts.duration
    BY <1>1 DEF MoreOf
  <2>2. /\ Agents(facts') = Agents(facts) /\ AllTurns(facts') = AllTurns(facts)
        /\ \A type \in Counted \ {"CONVERSATION_GOAL_FAILED"} : Occurs(facts', type) = Occurs(facts, type)
    BY <2>1 DEF Agents, AllTurns, Occurs, Counted
  <2>3. GoalCompletion(facts') = 1 /\ GoalCompletion(facts) = 1
    BY <1>1, <2>2 DEF GoalCompletion, Counted
  <2>4. UnrecoveredError(facts') = UnrecoveredError(facts)
    BY <2>2 DEF UnrecoveredError, Counted
  <2>5. Evidences(facts') = Evidences(facts)
    BY <1>1, <2>1, <2>2, <2>3, <2>4 DEF Evidences, Counted
  <2>. QED BY <2>5 DEF Evaluate
<1>2. ReportInv /\ ReportInv' =>
        [facts' # facts /\ Occurs(facts, "CONVERSATION_GOAL_ACHIEVED")
           /\ MoreOf({"CONVERSATION_GOAL_FAILED"}, facts, facts') /\ facts'.silence = facts.silence
         => Evaluate(facts') = Evaluate(facts)]_reportVars
  BY <1>1
<1>. QED BY <1>2, ReportInvariant, PTL DEF AchievedStands

------------------------------------------------------------------------------
(* Naturals.                                                                   *)

\* What holds of zero, and of the successor of whatever it holds of, holds of every natural.
LEMMA NaturalInduction ==
  ASSUME NEW S, 0 \in S, \A n \in Nat : n \in S => n + 1 \in S
  PROVE  Nat \subseteq S
<1> SUFFICES ASSUME Nat \ S # {} PROVE FALSE
  OBVIOUS
<1>1. IsWellFoundedOn(OpToRel(<, Nat), Nat)
  BY NatLessThanWellFounded
<1>2. PICK x \in Nat \ S : \A y \in Nat \ S : ~ (<<y, x>> \in OpToRel(<, Nat))
  BY <1>1, WFMin
<1>3. \A y \in Nat : y < x => y \in S
  BY <1>2 DEF OpToRel
<1>4. x # 0
  BY <1>2
<1>5. x - 1 \in Nat /\ x - 1 < x /\ x = (x - 1) + 1
  BY <1>4
<1> QED
  BY <1>2, <1>3, <1>5

\* A set of naturals that is bounded has a greatest element.
LEMMA Greatest ==
  ASSUME NEW n \in Nat, NEW T \in SUBSET (0..n), T # {}
  PROVE  \E m \in T : \A k \in T : k <= m
<1> DEFINE S == {b \in Nat : \A U \in SUBSET (0..b) : U # {} => \E m \in U : \A k \in U : k <= m}
<1>1. 0 \in S
  <2> SUFFICES ASSUME NEW U \in SUBSET (0..0), U # {}
               PROVE  \E m \in U : \A k \in U : k <= m
    OBVIOUS
  <2>1. PICK u \in U : TRUE
    OBVIOUS
  <2>2. \A k \in U : k = 0
    OBVIOUS
  <2>3. \A k \in U : k <= u
    BY <2>2
  <2> QED
    BY <2>3
<1>2. ASSUME NEW b \in Nat, b \in S PROVE b + 1 \in S
  <2> SUFFICES ASSUME NEW U \in SUBSET (0..(b + 1)), U # {}
               PROVE  \E m \in U : \A k \in U : k <= m
    OBVIOUS
  <2>1. CASE b + 1 \in U
    BY <2>1
  <2>2. CASE b + 1 \notin U
    <3>1. U \in SUBSET (0..b)
      BY <2>2
    <3> QED
      BY <1>2, <3>1
  <2> QED
    BY <2>1, <2>2
<1>3. Nat \subseteq S
  <2> HIDE DEF S
  <2> QED
    BY <1>1, <1>2, NaturalInduction
<1> QED
  BY <1>3

\* A set of naturals that is not empty has a least element.
LEMMA Least ==
  ASSUME NEW T \in SUBSET Nat, T # {}
  PROVE  \E m \in T : \A k \in T : m <= k
<1>1. IsWellFoundedOn(OpToRel(<, Nat), Nat)
  BY NatLessThanWellFounded
<1>2. PICK x \in T : \A y \in T : ~ (<<y, x>> \in OpToRel(<, Nat))
  BY <1>1, WFMin
<1>3. \A y \in T : ~ (y < x)
  BY <1>2 DEF OpToRel
<1>4. x \in Nat /\ \A y \in T : y \in Nat
  OBVIOUS
<1> QED
  BY <1>3, <1>4

\* A finite set of naturals that is not empty has a greatest element.
LEMMA FiniteGreatest ==
  ASSUME NEW T \in SUBSET Nat, IsFiniteSet(T), T # {}
  PROVE  \E m \in T : \A k \in T : k <= m
<1> DEFINE S == {n \in Nat : \A U \in SUBSET Nat :
                   IsFiniteSet(U) /\ Cardinality(U) = n + 1 => \E m \in U : \A k \in U : k <= m}
<1>1. 0 \in S
  <2> SUFFICES ASSUME NEW U \in SUBSET Nat, IsFiniteSet(U), Cardinality(U) = 0 + 1
               PROVE  \E m \in U : \A k \in U : k <= m
    OBVIOUS
  <2>1. PICK u : U = {u}
    BY FS_Singleton
  <2>2. u \in Nat /\ u <= u
    BY <2>1
  <2> QED
    BY <2>1, <2>2
<1>2. ASSUME NEW n \in Nat, n \in S PROVE n + 1 \in S
  <2> SUFFICES ASSUME NEW U \in SUBSET Nat, IsFiniteSet(U), Cardinality(U) = (n + 1) + 1
               PROVE  \E m \in U : \A k \in U : k <= m
    OBVIOUS
  <2>1. U # {}
    BY FS_EmptySet
  <2>2. PICK u \in U : TRUE
    BY <2>1
  <2>3. IsFiniteSet(U \ {u}) /\ Cardinality(U \ {u}) = n + 1 /\ U \ {u} \in SUBSET Nat
    BY FS_RemoveElement
  <2>4. PICK m \in U \ {u} : \A k \in U \ {u} : k <= m
    BY <1>2, <2>3
  <2>5. u \in Nat /\ m \in Nat /\ \A k \in U : k = u \/ (k \in U \ {u} /\ k \in Nat)
    OBVIOUS
  <2>6. CASE m <= u
    <3>1. \A k \in U : k <= u
      BY <2>4, <2>5, <2>6
    <3> QED
      BY <3>1
  <2>7. CASE ~ (m <= u)
    <3>1. \A k \in U : k <= m
      BY <2>4, <2>5, <2>7
    <3> QED
      BY <3>1
  <2> QED
    BY <2>6, <2>7
<1>3. Nat \subseteq S
  <2> HIDE DEF S
  <2> QED
    BY <1>1, <1>2, NaturalInduction
<1>4. Cardinality(T) \in Nat /\ Cardinality(T) # 0
  BY FS_CardinalityType, FS_EmptySet
<1>5. Cardinality(T) - 1 \in Nat /\ Cardinality(T) = (Cardinality(T) - 1) + 1
  BY <1>4
<1>6. Cardinality(T) - 1 \in S
  BY <1>3, <1>5
<1> QED
  BY <1>5, <1>6

------------------------------------------------------------------------------
(* Runs of rows.                                                               *)

\* Rows are counted by naturals, starts and ends among those that count.
LEMMA HeardNat ==
  ASSUME NEW rows \in Seq(Row)
  PROVE  /\ Len(rows) \in Nat
         /\ Heard(rows) \subseteq 1..Len(rows)
         /\ Starts(rows) \subseteq Heard(rows) /\ Ends(rows) \subseteq Heard(rows)
         /\ IsFiniteSet(Starts(rows)) /\ Cardinality(Starts(rows)) \in Nat
         /\ \A i : IsFiniteSet({s \in Starts(rows) : s <= i}) /\ RunOf(rows, i) \in Nat
<1>1. Len(rows) \in Nat
  OBVIOUS
<1>2. Starts(rows) \subseteq 1..Len(rows) /\ Heard(rows) \subseteq 1..Len(rows)
  BY DEF Starts, Heard
<1>3. IsFiniteSet(1..Len(rows))
  BY <1>1, FS_Interval
<1>4. IsFiniteSet(Starts(rows)) /\ \A i : IsFiniteSet({s \in Starts(rows) : s <= i})
  BY <1>2, <1>3, FS_Subset
<1> QED
  BY <1>1, <1>2, <1>4, FS_CardinalityType DEF Starts, Ends, RunOf

\* Before every row that counts, or at it, a run starts.
LEMMA RunStarts ==
  ASSUME NEW rows \in Seq(Row), NEW i \in Heard(rows)
  PROVE  /\ \E s \in Starts(rows) : s <= i
         /\ RunOf(rows, i) \in 1..Cardinality(Starts(rows))
<1>1. Heard(rows) \in SUBSET Nat /\ Heard(rows) # {}
  BY HeardNat
<1>2. PICK s \in Heard(rows) : \A k \in Heard(rows) : s <= k
  BY <1>1, Least
<1>3. s \in Starts(rows)
  BY <1>1, <1>2 DEF Starts, Adjacent
<1> DEFINE S == {t \in Starts(rows) : t <= i}
<1>4. s \in S /\ S \subseteq Starts(rows)
  BY <1>2, <1>3
<1>5. IsFiniteSet(S) /\ IsFiniteSet(Starts(rows))
  BY HeardNat
<1>6. Cardinality(S) # 0
  BY <1>4, <1>5, FS_EmptySet
<1>7. Cardinality(S) <= Cardinality(Starts(rows))
  BY <1>4, <1>5, FS_Subset
<1>8. Cardinality(S) \in Nat /\ Cardinality(Starts(rows)) \in Nat
  BY <1>5, FS_CardinalityType
<1>9. RunOf(rows, i) = Cardinality(S)
  BY DEF RunOf
<1> HIDE DEF S
<1>10. RunOf(rows, i) \in 1..Cardinality(Starts(rows))
  BY <1>6, <1>7, <1>8, <1>9
<1>11. s <= i
  BY <1>2
<1> QED
  BY <1>3, <1>10, <1>11

\* Behind the end of a run the next one starts, unless nothing counts there.
LEMMA RunEnds ==
  ASSUME NEW rows \in Seq(Row), NEW i \in Ends(rows), NEW k \in Heard(rows), i < k
  PROVE  \E s \in Starts(rows) : i < s /\ s <= k /\ Adjacent(rows, i, s)
<1> DEFINE T == {h \in Heard(rows) : i < h}
<1>1. T \in SUBSET Nat /\ k \in T /\ i \in Heard(rows) /\ i \in Nat /\ \A h \in Heard(rows) : h \in Nat
  BY HeardNat
<1>2. PICK s \in T : \A h \in T : s <= h
  BY <1>1, Least
<1>3. Adjacent(rows, i, s)
  BY <1>1, <1>2 DEF Adjacent
<1>4. \A h \in Heard(rows) : Adjacent(rows, h, s) => h = i
  BY <1>1, <1>2 DEF Adjacent
<1>5. s \in Starts(rows)
  BY <1>1, <1>2, <1>3, <1>4 DEF Starts, Ends
<1> QED
  BY <1>1, <1>2, <1>3, <1>5

\* A row that counts.
Speaks(row) == row.role \in {"bot", "user"}

\* What one more row changes of the order of those before it: nothing.
LEMMA OneMoreRow ==
  ASSUME NEW rows \in Seq(Row), NEW row \in Row
  PROVE  LET new == Append(rows, row)
             m == Len(rows) + 1 IN
         /\ new \in Seq(Row) /\ Len(new) = m /\ new[m] = row
         /\ \A i \in Heard(rows) : i < m /\ i \in Nat /\ i # m /\ new[i] = rows[i]
         /\ Heard(new) = Heard(rows) \union (IF Speaks(row) THEN {m} ELSE {})
         /\ \A i, j \in Heard(rows) : Adjacent(new, i, j) <=> Adjacent(rows, i, j)
         /\ \A i : ~ Adjacent(new, m, i)
         /\ \A i \in Heard(rows) :
              Adjacent(new, i, m) <=> Speaks(row) /\ \A k \in Heard(rows) : k <= i
<1> DEFINE new == Append(rows, row)
           m == Len(rows) + 1
<1>1. /\ new \in Seq(Row) /\ Len(new) = m /\ new[m] = row /\ m \in Nat
      /\ \A i \in 1..Len(rows) : i < m /\ i \in Nat /\ i # m /\ new[i] = rows[i]
      /\ 1..m = (1..Len(rows)) \union {m}
  OBVIOUS
<1>2. \A i \in Heard(rows) : i < m /\ i \in Nat /\ i # m /\ new[i] = rows[i]
  BY <1>1 DEF Heard
<1> HIDE DEF new, m
<1>3. Heard(new) = Heard(rows) \union (IF Speaks(row) THEN {m} ELSE {})
  <2>1. ASSUME NEW i \in Heard(new) PROVE i \in Heard(rows) \/ (Speaks(row) /\ i = m)
    <3>1. i \in 1..m /\ new[i].role \in {"bot", "user"}
      BY <1>1 DEF Heard
    <3>2. CASE i = m
      BY <1>1, <3>1, <3>2 DEF Speaks
    <3>3. CASE i \in 1..Len(rows)
      <4>1. new[i] = rows[i]
        BY <1>1, <3>3
      <4>2. rows[i].role \in {"bot", "user"}
        BY <3>1, <4>1
      <4>3. i \in Heard(rows)
        BY <3>3, <4>2 DEF Heard
      <4> QED
        BY <4>3
    <3> QED
      BY <1>1, <3>1, <3>2, <3>3
  <2>2. \A i \in Heard(rows) : i \in Heard(new)
    BY <1>1 DEF Heard
  <2>3. Speaks(row) => m \in Heard(new)
    BY <1>1 DEF Heard, Speaks
  <2> QED
    BY <2>1, <2>2, <2>3
<1>4. \A i, j \in Heard(rows) : Adjacent(new, i, j) <=> Adjacent(rows, i, j)
  <2> TAKE i, j \in Heard(rows)
  <2>1. j <= m
    BY <1>1, <1>2
  <2> QED
    BY <1>3, <2>1 DEF Adjacent
<1>5. \A i : ~ Adjacent(new, m, i)
  <2>1. \A i \in Heard(new) : ~ (m < i)
    BY <1>1, <1>2, <1>3
  <2> QED
    BY <2>1 DEF Adjacent
<1>6. ASSUME NEW i \in Heard(rows)
      PROVE  Adjacent(new, i, m) <=> Speaks(row) /\ \A k \in Heard(rows) : k <= i
  <2>1. Speaks(row) <=> m \in Heard(new)
    BY <1>2, <1>3
  <2>2. i < m /\ i \in Heard(new) /\ \A k \in Heard(rows) : ~ (m <= k)
    BY <1>1, <1>2, <1>3
  <2>3. \A k \in Heard(new) : k \in Heard(rows) \/ k = m
    BY <1>3
  <2>4. m <= m
    BY <1>1
  <2> QED
    BY <1>3, <2>1, <2>2, <2>3, <2>4 DEF Adjacent
<1> QED
  BY <1>1, <1>2, <1>3, <1>4, <1>5, <1>6 DEF new, m

\* A row of another role changes no run.
LEMMA RunsOfOther ==
  ASSUME NEW rows \in Seq(Row), NEW row \in Row, ~ Speaks(row)
  PROVE  LET new == Append(rows, row) IN
         /\ Starts(new) = Starts(rows) /\ Ends(new) = Ends(rows)
         /\ \A i : RunOf(new, i) = RunOf(rows, i)
<1> DEFINE new == Append(rows, row)
           m == Len(rows) + 1
<1>1. /\ Heard(new) = Heard(rows) \union (IF Speaks(row) THEN {m} ELSE {})
      /\ \A i \in Heard(rows) : new[i] = rows[i]
      /\ \A i, j \in Heard(rows) : Adjacent(new, i, j) <=> Adjacent(rows, i, j)
  BY OneMoreRow
<1> HIDE DEF new
<1>0. Heard(new) = Heard(rows)
  BY <1>1
<1>2. Starts(new) = Starts(rows) /\ Ends(new) = Ends(rows)
  BY <1>0, <1>1 DEF Starts, Ends
<1>3. \A i : RunOf(new, i) = RunOf(rows, i)
  BY <1>2 DEF RunOf
<1> QED
  BY <1>2, <1>3 DEF new

\* A row of a role that speaks continues the last run or starts the next one.
LEMMA RunsOfNext ==
  ASSUME NEW rows \in Seq(Row), NEW row \in Row, Speaks(row)
  PROVE  LET new == Append(rows, row)
             m == Len(rows) + 1
             isLast(l) == l \in Heard(rows) /\ \A k \in Heard(rows) : k <= l
             starts == \A l \in Heard(rows) : isLast(l) => rows[l].role # row.role
         IN
         /\ Starts(new) = Starts(rows) \union (IF starts THEN {m} ELSE {})
         /\ \A i \in Heard(rows) : i \in Ends(new) <=>
              i \in Ends(rows) /\ (isLast(i) => rows[i].role # row.role)
         /\ m \in Ends(new)
<1> DEFINE new == Append(rows, row)
           m == Len(rows) + 1
           isLast(l) == l \in Heard(rows) /\ \A k \in Heard(rows) : k <= l
           starts == \A l \in Heard(rows) : isLast(l) => rows[l].role # row.role
<1>1. /\ new[m] = row
      /\ \A i \in Heard(rows) : i # m /\ new[i] = rows[i]
      /\ Heard(new) = Heard(rows) \union (IF Speaks(row) THEN {m} ELSE {})
      /\ \A i, j \in Heard(rows) : Adjacent(new, i, j) <=> Adjacent(rows, i, j)
      /\ \A i : ~ Adjacent(new, m, i)
      /\ \A i \in Heard(rows) : Adjacent(new, i, m) <=> isLast(i)
  BY OneMoreRow
<1>2. Heard(new) = Heard(rows) \union {m}
  BY <1>1
<1> HIDE DEF new, m, isLast
<1>3. \A j \in Heard(rows) : j \in Starts(new) <=> j \in Starts(rows)
  BY <1>1, <1>2 DEF Starts
<1>4. m \in Starts(new) <=> starts
  BY <1>1, <1>2 DEF Starts
<1>5. Starts(new) \subseteq Heard(new) /\ Starts(rows) \subseteq Heard(rows)
  BY DEF Starts
<1>6. Starts(new) = Starts(rows) \union (IF starts THEN {m} ELSE {})
  <2> HIDE DEF starts
  <2> QED
    BY <1>1, <1>2, <1>3, <1>4, <1>5
<1>7. ASSUME NEW i \in Heard(rows)
      PROVE  i \in Ends(new) <=> i \in Ends(rows) /\ (isLast(i) => rows[i].role # row.role)
  BY <1>1, <1>2 DEF Ends
<1>8. m \in Ends(new)
  BY <1>1, <1>2 DEF Ends
<1> QED
  BY <1>6, <1>7, <1>8 DEF new, m, isLast

\* Numbers of the runs of the rows before: nothing changes.
LEMMA RunNumbers ==
  ASSUME NEW rows \in Seq(Row), NEW row \in Row, Speaks(row)
  PROVE  LET new == Append(rows, row)
             m == Len(rows) + 1 IN
         /\ \A i \in Heard(rows) : RunOf(new, i) = RunOf(rows, i)
         /\ RunOf(new, m) = Cardinality(Starts(new))
         /\ m \notin Starts(new) => Starts(new) = Starts(rows)
         /\ m \in Starts(new) => Cardinality(Starts(new)) = Cardinality(Starts(rows)) + 1
<1> DEFINE new == Append(rows, row)
           m == Len(rows) + 1
<1>1. /\ new \in Seq(Row)
      /\ \A i \in Heard(rows) : i < m /\ i \in Nat /\ i # m
      /\ Starts(rows) \subseteq Heard(rows) /\ IsFiniteSet(Starts(rows)) /\ m \in Nat
  BY OneMoreRow, HeardNat
<1>2. Starts(new) = Starts(rows) \/ Starts(new) = Starts(rows) \union {m}
  <2>1. \E b \in BOOLEAN : Starts(new) = Starts(rows) \union (IF b THEN {m} ELSE {})
    BY RunsOfNext
  <2> QED
    BY <2>1
<1> HIDE DEF new, m
<1>3. ASSUME NEW i \in Heard(rows) PROVE RunOf(new, i) = RunOf(rows, i)
  <2>1. {s \in Starts(new) : s <= i} = {s \in Starts(rows) : s <= i}
    <3>1. ~ (m <= i)
      BY <1>1
    <3> QED
      BY <1>2, <3>1
  <2> QED
    BY <2>1 DEF RunOf
<1>4. RunOf(new, m) = Cardinality(Starts(new))
  <2>1. \A s \in Starts(rows) : s <= m
    BY <1>1
  <2>2. m <= m
    BY <1>1
  <2>3. {s \in Starts(new) : s <= m} = Starts(new)
    BY <1>2, <2>1, <2>2
  <2> QED
    BY <2>3 DEF RunOf
<1>5. m \notin Starts(new) => Starts(new) = Starts(rows)
  BY <1>2
<1>6. ASSUME m \in Starts(new) PROVE Cardinality(Starts(new)) = Cardinality(Starts(rows)) + 1
  <2>1. m \notin Starts(rows)
    BY <1>1
  <2>2. Starts(new) = Starts(rows) \union {m}
    BY <1>2, <1>6
  <2> QED
    BY <1>1, <2>1, <2>2, FS_AddElement
<1> QED
  BY <1>3, <1>4, <1>5, <1>6 DEF new, m

\* The row that counts last belongs to the last run, and every other end to an earlier one.
LEMMA LastRun ==
  ASSUME NEW rows \in Seq(Row), NEW last \in Heard(rows), \A k \in Heard(rows) : k <= last
  PROVE  /\ RunOf(rows, last) = Cardinality(Starts(rows))
         /\ \A i \in Ends(rows) : i # last => RunOf(rows, i) < Cardinality(Starts(rows))
<1>1. /\ Starts(rows) \subseteq Heard(rows) /\ Ends(rows) \subseteq Heard(rows)
      /\ \A i \in Heard(rows) : i \in Nat
      /\ IsFiniteSet(Starts(rows)) /\ Cardinality(Starts(rows)) \in Nat
  BY HeardNat
<1>2. RunOf(rows, last) = Cardinality(Starts(rows))
  <2>1. {s \in Starts(rows) : s <= last} = Starts(rows)
    BY <1>1
  <2> QED
    BY <2>1 DEF RunOf
<1>3. ASSUME NEW i \in Ends(rows), i # last PROVE RunOf(rows, i) < Cardinality(Starts(rows))
  <2>1. i < last
    BY <1>1, <1>3
  <2>2. PICK s \in Starts(rows) : i < s
    BY <2>1, RunEnds
  <2> DEFINE S == {t \in Starts(rows) : t <= i}
  <2>3. S \subseteq Starts(rows) /\ s \notin S
    BY <1>1, <2>2
  <2>4. Cardinality(S) < Cardinality(Starts(rows))
    <3>1. S # Starts(rows)
      BY <2>3
    <3>2. S \in SUBSET Starts(rows)
      BY <2>3
    <3> HIDE DEF S
    <3>3. /\ IsFiniteSet(S) /\ Cardinality(S) <= Cardinality(Starts(rows))
          /\ Cardinality(Starts(rows)) # Cardinality(S)
      BY <1>1, <3>1, <3>2, FS_Subset
    <3> QED
      BY <1>1, <3>3, FS_CardinalityType
  <2> QED
    BY <2>4 DEF RunOf
<1> QED
  BY <1>2, <1>3

\* The two roles that speak have different names in a turn.
LEMMA RolesDiffer ==
  ASSUME NEW row, NEW other, Speaks(row), Speaks(other)
  PROVE  /\ NormaliseRole(row.role) = NormaliseRole(other.role) <=> row.role = other.role
         /\ NormaliseRole(row.role) # "none"
  BY DEF Speaks, NormaliseRole

\* Consolidation, one row at a time: turns that are the runs of the rows read so far are
\* those of one row more once it is taken.
LEMMA RunsStay ==
  ASSUME NEW rows \in Seq(Row), NEW row \in Row, NEW seq \in Seq(Turn), AreRuns(seq, rows)
  PROVE  AreRuns(TakeRow(seq, row), Append(rows, row))
<1> DEFINE new == Append(rows, row)
           m == Len(rows) + 1
           n == Len(seq)
<1>1. /\ new \in Seq(Row) /\ new[m] = row
      /\ \A i \in Heard(rows) : i # m /\ new[i] = rows[i]
      /\ Heard(new) = Heard(rows) \union (IF Speaks(row) THEN {m} ELSE {})
  BY OneMoreRow
<1>2. n = Cardinality(Starts(rows)) /\ n \in Nat
  BY DEF AreRuns
<1>3. ASSUME NEW i \in Heard(rows)
      PROVE  LET turn == seq[RunOf(rows, i)] IN
             /\ RunOf(rows, i) \in 1..n
             /\ turn \in Turn
             /\ turn.index = RunOf(rows, i) - 1
             /\ turn.role = NormaliseRole(rows[i].role)
             /\ i \in Starts(rows) => turn.started = ParseReportTime(rows[i].time)
             /\ i \in Ends(rows) => turn.ended = ParseReportTime(rows[i].endTime)
  <2>1. RunOf(rows, i) \in 1..n
    BY <1>2, RunStarts
  <2> QED
    BY <2>1 DEF AreRuns
<1>4. CASE ~ Speaks(row)
  <2>1. TakeRow(seq, row) = seq
    BY <1>4 DEF TakeRow, NormaliseRole, Speaks
  <2>2. Heard(new) = Heard(rows)
    BY <1>1, <1>4
  <2>3. /\ Starts(new) = Starts(rows) /\ Ends(new) = Ends(rows)
        /\ \A i : RunOf(new, i) = RunOf(rows, i)
    BY <1>4, RunsOfOther
  <2> HIDE DEF new
  <2>4. AreRuns(seq, new)
    BY <1>1, <1>2, <1>3, <2>2, <2>3 DEF AreRuns
  <2> QED
    BY <2>1, <2>4 DEF new
<1> DEFINE isLast(l) == l \in Heard(rows) /\ \A k \in Heard(rows) : k <= l
<1>5. ASSUME Speaks(row)
      PROVE  /\ Heard(new) = Heard(rows) \union {m}
             /\ Starts(new) = Starts(rows) \union
                  (IF \A l \in Heard(rows) : isLast(l) => rows[l].role # row.role THEN {m} ELSE {})
             /\ \A i \in Heard(rows) : i \in Ends(new) <=>
                  i \in Ends(rows) /\ (isLast(i) => rows[i].role # row.role)
             /\ m \in Ends(new)
             /\ \A i \in Heard(rows) : RunOf(new, i) = RunOf(rows, i)
             /\ RunOf(new, m) = Cardinality(Starts(new))
             /\ m \notin Starts(new) => Starts(new) = Starts(rows)
             /\ m \in Starts(new) => Cardinality(Starts(new)) = n + 1
             /\ Starts(rows) \subseteq Heard(rows)
  <2>1. Heard(new) = Heard(rows) \union {m}
    BY <1>1, <1>5
  <2>2. /\ \A i \in Heard(rows) : RunOf(new, i) = RunOf(rows, i)
        /\ RunOf(new, m) = Cardinality(Starts(new))
        /\ m \notin Starts(new) => Starts(new) = Starts(rows)
        /\ m \in Starts(new) => Cardinality(Starts(new)) = n + 1
    BY <1>2, <1>5, RunNumbers
  <2>3. /\ Starts(new) = Starts(rows) \union
             (IF \A l \in Heard(rows) : isLast(l) => rows[l].role # row.role THEN {m} ELSE {})
        /\ \A i \in Heard(rows) : i \in Ends(new) <=>
             i \in Ends(rows) /\ (isLast(i) => rows[i].role # row.role)
        /\ m \in Ends(new)
    BY <1>5, RunsOfNext
  <2> QED
    BY <2>1, <2>2, <2>3, HeardNat
<1>6. ASSUME NEW l, isLast(l)
      PROVE  /\ l \in Heard(rows) /\ RunOf(rows, l) = n /\ n \in 1..n
             /\ seq[n].role = NormaliseRole(rows[l].role) /\ Speaks(rows[l])
             /\ \A i \in Ends(rows) : i # l => RunOf(rows, i) < n
  <2>1. l \in Heard(rows) /\ \A k \in Heard(rows) : k <= l
    BY <1>6
  <2>2. RunOf(rows, l) = n /\ \A i \in Ends(rows) : i # l => RunOf(rows, i) < n
    BY <1>2, <2>1, LastRun
  <2>3. RunOf(rows, l) \in 1..n /\ seq[RunOf(rows, l)].role = NormaliseRole(rows[l].role)
    BY <1>3, <2>1
  <2>4. Speaks(rows[l])
    BY <2>1 DEF Heard, Speaks
  <2> QED
    BY <2>1, <2>2, <2>3, <2>4
<1>7. n # 0 => \E l : isLast(l)
  <2> SUFFICES ASSUME n # 0 PROVE \E l : isLast(l)
    OBVIOUS
  <2>1. Starts(rows) # {}
    BY <1>2, FS_EmptySet
  <2>2. Heard(rows) \in SUBSET (0..Len(rows)) /\ Heard(rows) # {} /\ Len(rows) \in Nat
    BY <2>1, HeardNat DEF Heard
  <2> QED
    BY <2>2, Greatest
<1> DEFINE time == ParseReportTime(row.endTime)
<1>8. ASSUME Speaks(row), NEW l, isLast(l), rows[l].role = row.role
      PROVE  AreRuns(TakeRow(seq, row), new)
  <2> DEFINE longer == [seq EXCEPT ![n].ended = time]
  <2>1. /\ l \in Heard(rows) /\ RunOf(rows, l) = n /\ n \in 1..n
        /\ seq[n].role = NormaliseRole(row.role) /\ NormaliseRole(row.role) # "none"
        /\ \A i \in Ends(rows) : i # l => RunOf(rows, i) < n
    BY <1>6, <1>8, RolesDiffer
  <2>2. TakeRow(seq, row) = longer
    <3>1. Continues(seq, row)
      BY <1>2, <2>1 DEF Continues
    <3> QED
      BY <2>1, <3>1 DEF TakeRow
  <2>3. /\ Len(longer) = n
        /\ \A k \in 1..n : /\ longer[k].index = seq[k].index /\ longer[k].role = seq[k].role
                           /\ longer[k].started = seq[k].started
                           /\ k # n => longer[k].ended = seq[k].ended
        /\ longer[n].ended = time
    BY <2>1 DEF Turn
  <2> HIDE DEF longer, time
  <2>4. m \notin Starts(new) /\ Starts(new) = Starts(rows)
    BY <1>1, <1>5, <1>8
  <2>5. ASSUME NEW i \in Heard(rows)
        PROVE  LET turn == longer[RunOf(new, i)] IN
               /\ turn.index = RunOf(new, i) - 1
               /\ turn.role = NormaliseRole(new[i].role)
               /\ i \in Starts(new) => turn.started = ParseReportTime(new[i].time)
               /\ i \in Ends(new) => turn.ended = ParseReportTime(new[i].endTime)
    <3>1. RunOf(new, i) = RunOf(rows, i) /\ RunOf(rows, i) \in 1..n /\ new[i] = rows[i]
      BY <1>1, <1>3, <1>5, <1>8
    <3>2. i \in Ends(new) => i \in Ends(rows) /\ RunOf(rows, i) < n
      BY <1>5, <1>8, <2>1
    <3>3. i \in Ends(new) => longer[RunOf(rows, i)].ended = seq[RunOf(rows, i)].ended
      BY <1>2, <2>3, <3>1, <3>2
    <3> QED
      BY <1>3, <2>3, <2>4, <3>1, <3>2, <3>3
  <2>6. /\ longer[RunOf(new, m)].index = RunOf(new, m) - 1
        /\ longer[RunOf(new, m)].role = NormaliseRole(new[m].role)
        /\ longer[RunOf(new, m)].ended = ParseReportTime(new[m].endTime)
    <3>1. RunOf(new, m) = n /\ new[m] = row
      BY <1>1, <1>2, <1>5, <1>8, <2>4
    <3>2. seq[n].index = n - 1
      BY <1>3, <2>1
    <3> QED
      BY <2>1, <2>3, <3>1, <3>2 DEF time
  <2>7. AreRuns(longer, new)
    BY <1>2, <1>5, <1>8, <2>3, <2>4, <2>5, <2>6 DEF AreRuns
  <2> QED
    BY <2>2, <2>7
<1>9. ASSUME Speaks(row), \A l \in Heard(rows) : isLast(l) => rows[l].role # row.role
      PROVE  AreRuns(TakeRow(seq, row), new)
  <2> DEFINE turn0 == NewTurn(seq, row)
             more == Append(seq, turn0)
  <2>1. TakeRow(seq, row) = more
    <3>1. ~ Continues(seq, row)
      <4>1. ASSUME seq # << >> PROVE seq[n].role # NormaliseRole(row.role)
        <5>1. PICK l : isLast(l)
          BY <1>2, <1>7, <4>1
        <5>2. rows[l].role # row.role /\ Speaks(rows[l]) /\ seq[n].role = NormaliseRole(rows[l].role)
          BY <1>6, <1>9, <5>1
        <5> QED
          BY <1>9, <5>2, RolesDiffer
      <4> QED
        BY <4>1 DEF Continues
    <3>2. NormaliseRole(row.role) # "none"
      BY <1>9, RolesDiffer
    <3> QED
      BY <3>1, <3>2 DEF TakeRow
  <2>2. /\ turn0.index = n /\ turn0.role = NormaliseRole(row.role)
        /\ turn0.started = ParseReportTime(row.time) /\ turn0.ended = ParseReportTime(row.endTime)
    BY DEF NewTurn
  <2>3. Len(more) = n + 1 /\ more[n + 1] = turn0 /\ \A k \in 1..n : more[k] = seq[k]
    OBVIOUS
  <2> HIDE DEF turn0, more
  <2>4. m \in Starts(new) /\ Starts(new) = Starts(rows) \union {m} /\ Cardinality(Starts(new)) = n + 1
    BY <1>5, <1>9
  <2>5. ASSUME NEW i \in Heard(rows)
        PROVE  LET turn == more[RunOf(new, i)] IN
               /\ turn.index = RunOf(new, i) - 1
               /\ turn.role = NormaliseRole(new[i].role)
               /\ i \in Starts(new) => turn.started = ParseReportTime(new[i].time)
               /\ i \in Ends(new) => turn.ended = ParseReportTime(new[i].endTime)
    <3>1. RunOf(new, i) = RunOf(rows, i) /\ RunOf(rows, i) \in 1..n /\ new[i] = rows[i] /\ i # m
      BY <1>1, <1>3, <1>5, <1>9
    <3>2. i \in Ends(new) => i \in Ends(rows)
      BY <1>5, <1>9
    <3> QED
      BY <1>3, <2>3, <2>4, <3>1, <3>2
  <2>6. /\ more[RunOf(new, m)].index = RunOf(new, m) - 1
        /\ more[RunOf(new, m)].role = NormaliseRole(new[m].role)
        /\ more[RunOf(new, m)].started = ParseReportTime(new[m].time)
        /\ more[RunOf(new, m)].ended = ParseReportTime(new[m].endTime)
    <3>1. RunOf(new, m) = n + 1 /\ new[m] = row /\ (n + 1) - 1 = n
      BY <1>1, <1>2, <1>5, <1>9, <2>4
    <3> QED
      BY <2>2, <2>3, <3>1
  <2>7. AreRuns(more, new)
    BY <1>5, <1>9, <2>3, <2>4, <2>5, <2>6 DEF AreRuns
  <2> QED
    BY <2>1, <2>7
<1> QED
  BY <1>4, <1>8, <1>9

\* Every number up to that of the runs is that of one start.
LEMMA RunsNumbered ==
  ASSUME NEW rows \in Seq(Row)
  PROVE  /\ \A s, t \in Starts(rows) : RunOf(rows, s) = RunOf(rows, t) => s = t
         /\ \A k \in 1..Cardinality(Starts(rows)) : \E s \in Starts(rows) : RunOf(rows, s) = k
<1> DEFINE St == Starts(rows)
           n == Cardinality(St)
           f == [s \in St |-> RunOf(rows, s)]
<1>1. /\ St \subseteq Heard(rows) /\ \A s \in St : s \in Nat
      /\ IsFiniteSet(St) /\ n \in Nat /\ \A i : IsFiniteSet({s \in St : s <= i})
  <2>1. St \subseteq Heard(rows) /\ \A s \in St : s \in Nat
    BY HeardNat
  <2>2. IsFiniteSet(St) /\ n \in Nat
    BY HeardNat
  <2>3. \A i : IsFiniteSet({s \in St : s <= i})
    BY HeardNat
  <2> QED
    BY <2>1, <2>2, <2>3
<1>2. ASSUME NEW s \in St, NEW t \in St, s < t PROVE RunOf(rows, s) < RunOf(rows, t)
  <2> DEFINE A == {u \in St : u <= s}
             B == {u \in St : u <= t}
  <2>1. A \in SUBSET B /\ t \in B /\ t \notin A
    BY <1>1, <1>2
  <2>2. IsFiniteSet(B) /\ RunOf(rows, s) = Cardinality(A) /\ RunOf(rows, t) = Cardinality(B)
    BY <1>1 DEF RunOf
  <2>3. A # B
    BY <2>1
  <2> HIDE DEF A, B
  <2>4. IsFiniteSet(A) /\ Cardinality(A) <= Cardinality(B) /\ Cardinality(B) # Cardinality(A)
    BY <2>1, <2>2, <2>3, FS_Subset
  <2> QED
    BY <2>2, <2>4, FS_CardinalityType
<1>3. ASSUME NEW s \in St, NEW t \in St, RunOf(rows, s) = RunOf(rows, t) PROVE s = t
  <2>1. RunOf(rows, s) \in Nat /\ RunOf(rows, t) \in Nat
    BY HeardNat
  <2>2. s < t \/ t < s \/ s = t
    BY <1>1
  <2> QED
    BY <1>2, <1>3, <2>1, <2>2
<1>4. f \in [St -> 1..n]
  BY <1>1, RunStarts
<1>5. f \in Injection(St, 1..n)
  <2>1. \A s, t \in St : f[s] = f[t] => s = t
    BY <1>3
  <2> QED
    BY <1>4, <2>1 DEF Injection, IsInjective
<1>6. IsFiniteSet(1..n) /\ Cardinality(1..n) = n
  <2>1. n \in Int /\ 1 \in Int /\ (1 > n <=> n = 0)
    BY <1>1
  <2> HIDE DEF n
  <2> QED
    BY <1>1, <2>1, FS_Interval
<1>7. f \in Surjection(St, 1..n)
  <2> HIDE DEF f
  <2> QED
    BY <1>5, <1>6, FS_Injection
<1>8. \A k \in 1..n : \E s \in St : RunOf(rows, s) = k
  BY <1>7 DEF Surjection
<1> QED
  BY <1>3, <1>8

\* The next row that counts continues the run or is the start of the next one, behind
\* the end of this one.
LEMMA NextRow ==
  ASSUME NEW rows \in Seq(Row), NEW i, NEW j, Adjacent(rows, i, j)
  PROVE  /\ rows[i].role = rows[j].role => RunOf(rows, j) = RunOf(rows, i)
         /\ rows[i].role # rows[j].role =>
              i \in Ends(rows) /\ j \in Starts(rows) /\ RunOf(rows, j) = RunOf(rows, i) + 1
<1>1. /\ i \in Heard(rows) /\ j \in Heard(rows) /\ i < j /\ i \in Nat /\ j \in Nat
      /\ \A k \in Heard(rows) : k \in Nat /\ (k <= i \/ j <= k)
      /\ Starts(rows) \subseteq Heard(rows)
  BY HeardNat DEF Adjacent
<1> DEFINE upTo(k) == {s \in Starts(rows) : s <= k}
<1>2. \A k \in Heard(rows) : (Adjacent(rows, i, k) => k = j) /\ (Adjacent(rows, k, j) => k = i)
  BY <1>1 DEF Adjacent
<1>3. ASSUME rows[i].role = rows[j].role PROVE RunOf(rows, j) = RunOf(rows, i)
  <2>1. j \notin Starts(rows)
    BY <1>1, <1>3 DEF Starts
  <2>2. ASSUME NEW s \in Starts(rows) PROVE s <= j <=> s <= i
    <3>1. s \in Nat /\ s # j /\ (s <= i \/ j <= s)
      BY <1>1, <2>1
    <3> QED
      BY <1>1, <3>1
  <2>3. upTo(j) = upTo(i)
    BY <2>2
  <2> QED
    BY <2>3 DEF RunOf
<1>4. ASSUME rows[i].role # rows[j].role
      PROVE  i \in Ends(rows) /\ j \in Starts(rows) /\ RunOf(rows, j) = RunOf(rows, i) + 1
  <2>1. i \in Ends(rows) /\ j \in Starts(rows)
    BY <1>1, <1>2, <1>4 DEF Starts, Ends
  <2>2. ASSUME NEW s \in Starts(rows) PROVE s <= j <=> (s <= i \/ s = j)
    <3>1. s \in Nat /\ (s <= i \/ j <= s)
      BY <1>1
    <3> QED
      BY <1>1, <3>1
  <2>a. ~ (j <= i)
    BY <1>1
  <2>3. upTo(j) = upTo(i) \union {j} /\ j \notin upTo(i)
    BY <2>1, <2>2, <2>a
  <2>4. IsFiniteSet(upTo(i))
    BY HeardNat
  <2>5. Cardinality(upTo(i) \union {j}) = Cardinality(upTo(i)) + 1
    <3> HIDE DEF upTo
    <3> QED
      BY <2>3, <2>4, FS_AddElement
  <2>6. RunOf(rows, j) = RunOf(rows, i) + 1
    BY <2>3, <2>5 DEF RunOf
  <2> QED
    BY <2>1, <2>6
<1> QED
  BY <1>3, <1>4

\* Every run has an end.
LEMMA RunsEnd ==
  ASSUME NEW rows \in Seq(Row), NEW k \in 1..Cardinality(Starts(rows))
  PROVE  \E e \in Ends(rows) : RunOf(rows, e) = k
<1> DEFINE T == {h \in Heard(rows) : RunOf(rows, h) = k}
<1>1. T \in SUBSET (0..Len(rows)) /\ T # {} /\ Len(rows) \in Nat
  <2>1. \E s \in Heard(rows) : RunOf(rows, s) = k
    BY RunsNumbered, HeardNat
  <2>2. T \subseteq 1..Len(rows) /\ Len(rows) \in Nat
    BY HeardNat
  <2> QED
    BY <2>1, <2>2
<1>2. PICK e \in T : \A h \in T : h <= e
  BY <1>1, Greatest
<1>3. ASSUME NEW j \in Heard(rows), Adjacent(rows, e, j) PROVE rows[e].role # rows[j].role
  <2>1. j \notin T
    <3>1. e < j /\ e \in Nat /\ j \in Nat
      BY <1>1, <1>3, HeardNat DEF Adjacent
    <3> QED
      BY <1>2, <3>1
  <2>2. RunOf(rows, j) # RunOf(rows, e)
    BY <2>1
  <2> QED
    BY <1>3, <2>2, NextRow
<1> QED
  BY <1>2, <1>3 DEF Ends

\* Before the start of every run but the first there is a row that counts.
LEMMA RowBefore ==
  ASSUME NEW rows \in Seq(Row), NEW s \in Starts(rows), RunOf(rows, s) # 1
  PROVE  \E i \in Heard(rows) : Adjacent(rows, i, s) /\ rows[i].role # rows[s].role
<1> DEFINE T == {h \in Heard(rows) : h < s}
<1>1. /\ s \in Heard(rows) /\ s \in Nat /\ \A h \in Heard(rows) : h \in Nat
      /\ T \in SUBSET (0..Len(rows)) /\ Len(rows) \in Nat
      /\ Starts(rows) \subseteq Heard(rows)
  <2>1. Heard(rows) \subseteq 1..Len(rows) /\ Starts(rows) \subseteq Heard(rows) /\ Len(rows) \in Nat
    BY HeardNat
  <2> QED
    BY <2>1
<1>2. T # {}
  <2>1. SUFFICES ASSUME T = {} PROVE RunOf(rows, s) = 1
    OBVIOUS
  <2>a. \A t \in Starts(rows) : ~ (t < s)
    BY <1>1, <2>1
  <2>b. \A t \in Starts(rows) : t <= s <=> t = s
    BY <1>1, <2>a
  <2>2. {t \in Starts(rows) : t <= s} = {s}
    BY <2>b
  <2> QED
    BY <2>2, FS_Singleton DEF RunOf
<1>3. PICK i \in T : \A h \in T : h <= i
  BY <1>1, <1>2, Greatest
<1>4. Adjacent(rows, i, s)
  BY <1>1, <1>3 DEF Adjacent
<1> QED
  BY <1>4 DEF Starts

\* A time is given exactly if the row holds a natural number, and is that number.
LEMMA TimeGiven ==
  ASSUME NEW raw
  PROVE  /\ ParseReportTime(raw) # NoTime <=> raw \in Nat
         /\ raw \in Nat => ParseReportTime(raw) = raw
  BY ThresholdAssumption DEF ParseReportTime

\* What the turn of a row says of its run.
LEMMA TurnOfRow ==
  ASSUME NEW rows \in Seq(Row), NEW seq \in Seq(Turn), AreRuns(seq, rows), NEW i \in Heard(rows)
  PROVE  LET turn == seq[RunOf(rows, i)] IN
         /\ RunOf(rows, i) \in 1..Len(seq) /\ Len(seq) = Cardinality(Starts(rows))
         /\ turn.index = RunOf(rows, i) - 1
         /\ turn.role = NormaliseRole(rows[i].role)
         /\ rows[i].role \in {"bot", "user"}
         /\ i \in Starts(rows) => turn.started = ParseReportTime(rows[i].time)
         /\ i \in Ends(rows) => turn.ended = ParseReportTime(rows[i].endTime)
  BY RunStarts DEF AreRuns, Heard

\* The lists of the report agree on its turns exactly if they align.
LEMMA AgreeIsAligned ==
  ASSUME NEW rows \in Seq(Row), NEW seq \in Seq(Turn), AreRuns(seq, rows), NEW list
  PROVE  Agree(list, rows) <=> Aligned(list, seq)
<1>1. Len(seq) = Cardinality(Starts(rows))
  BY DEF AreRuns
<1>2. ASSUME Agree(list, rows) PROVE Aligned(list, seq)
  <2>1. ASSUME NEW k \in 1..Len(seq) PROVE Spoken(list)[k].role = seq[k].role
    <3>1. PICK s \in Starts(rows) : RunOf(rows, s) = k
      BY <1>1, RunsNumbered
    <3>2. s \in Heard(rows)
      BY HeardNat
    <3>3. seq[k].role = NormaliseRole(rows[s].role)
      BY <3>1, <3>2, TurnOfRow
    <3> QED
      BY <1>2, <3>1, <3>2, <3>3 DEF Agree
  <2> QED
    BY <1>1, <1>2, <2>1 DEF Agree, Aligned
<1>3. ASSUME Aligned(list, seq) PROVE Agree(list, rows)
  <2>1. ASSUME NEW i \in Heard(rows)
        PROVE  Spoken(list)[RunOf(rows, i)].role = NormaliseRole(rows[i].role)
    <3>1. RunOf(rows, i) \in 1..Len(seq) /\ seq[RunOf(rows, i)].role = NormaliseRole(rows[i].role)
      BY TurnOfRow
    <3> QED
      BY <1>3, <3>1 DEF Aligned
  <2> QED
    BY <1>1, <1>3, <2>1 DEF Agree, Aligned
<1> QED
  BY <1>2, <1>3

\* A silence between two rows is one between the turns they belong to.
LEMMA SilentQualifies ==
  ASSUME NEW rows \in Seq(Row), NEW seq \in Seq(Turn), AreRuns(seq, rows), NEW i, NEW j,
         Silent(rows, i, j)
  PROVE  LET k == RunOf(rows, i) IN
         /\ i \in Heard(rows) /\ j \in Starts(rows) /\ RunOf(rows, j) = k + 1
         /\ k \in 1..(Len(seq) - 1) /\ Qualifies(seq[k], seq[k + 1])
         /\ seq[k + 1].started = rows[j].time /\ rows[j].time \in Nat
         /\ seq[k + 1].index = k
<1> DEFINE k == RunOf(rows, i)
<1>1. /\ i \in Ends(rows) /\ j \in Starts(rows) /\ RunOf(rows, j) = k + 1
      /\ i \in Heard(rows) /\ j \in Heard(rows)
      /\ rows[i].role = "bot" /\ rows[j].role = "user"
  <2>1. Adjacent(rows, i, j) /\ rows[i].role = "bot" /\ rows[j].role = "user"
    BY DEF Silent
  <2>2. rows[i].role # rows[j].role
    BY <2>1
  <2> QED
    BY <2>1, <2>2, NextRow DEF Adjacent
<1>2. PICK first \in Starts(rows), last \in Ends(rows) :
        /\ RunOf(rows, first) = k /\ RunOf(rows, last) = RunOf(rows, j)
        /\ InOrder(rows[first].time, rows[i].endTime)
        /\ InOrder(rows[j].time, rows[last].endTime)
  BY DEF Silent
<1>3. first \in Heard(rows) /\ last \in Heard(rows)
  BY HeardNat
<1>4. k \in 1..Len(seq) /\ k + 1 \in 1..Len(seq) /\ Len(seq) \in Nat
  BY <1>1, TurnOfRow
<1>5. /\ seq[k].role = "assistant" /\ seq[k].index = k - 1
      /\ seq[k].ended = ParseReportTime(rows[i].endTime)
      /\ seq[k + 1].role = "user" /\ seq[k + 1].index = (k + 1) - 1
      /\ seq[k + 1].started = ParseReportTime(rows[j].time)
  BY <1>1, TurnOfRow DEF NormaliseRole
<1>6. seq[k].started = ParseReportTime(rows[first].time)
  BY <1>2, <1>3, TurnOfRow
<1>7. seq[k + 1].ended = ParseReportTime(rows[last].endTime)
  BY <1>1, <1>2, <1>3, TurnOfRow
<1> HIDE DEF k
<1>8. /\ seq[k].started = rows[first].time /\ seq[k].ended = rows[i].endTime
      /\ seq[k + 1].started = rows[j].time /\ seq[k + 1].ended = rows[last].endTime
      /\ rows[first].time \in Nat /\ rows[i].endTime \in Nat /\ rows[first].time <= rows[i].endTime
      /\ rows[j].time \in Nat /\ rows[last].endTime \in Nat /\ rows[j].time <= rows[last].endTime
  BY <1>2, <1>5, <1>6, <1>7, TimeGiven DEF InOrder
<1>9. ValidTurn(seq[k]) /\ ValidTurn(seq[k + 1])
  BY <1>8, ThresholdAssumption DEF ValidTurn
<1>10. rows[i].endTime + Threshold <= rows[j].time /\ Threshold \in Nat
  BY ThresholdAssumption DEF Silent
<1>11. seq[k + 1].started - seq[k].ended >= Threshold
  BY <1>8, <1>10
<1>12. seq[k + 1].index > seq[k].index /\ seq[k + 1].index = k /\ k \in 1..(Len(seq) - 1)
  BY <1>4, <1>5
<1>13. Qualifies(seq[k], seq[k + 1])
  BY <1>5, <1>9, <1>11, <1>12 DEF Qualifies
<1> QED
  BY <1>1, <1>8, <1>12, <1>13 DEF k

\* A silence between two turns is one between the last row of the first and the first
\* row of the second.
LEMMA QualifiesSilent ==
  ASSUME NEW rows \in Seq(Row), NEW seq \in Seq(Turn), AreRuns(seq, rows),
         NEW k \in 1..(Len(seq) - 1), Qualifies(seq[k], seq[k + 1])
  PROVE  \E i \in Heard(rows), j \in Starts(rows) :
           Silent(rows, i, j) /\ RunOf(rows, i) = k /\ RunOf(rows, j) = k + 1
<1> DEFINE n == Cardinality(Starts(rows))
<1>1. n = Len(seq) /\ n \in Nat /\ k \in 1..n /\ k + 1 \in 1..n /\ k + 1 # 1
  BY DEF AreRuns
<1> HIDE DEF n
<1>2. PICK first \in Starts(rows) : RunOf(rows, first) = k
  BY <1>1, RunsNumbered DEF n
<1>3. PICK j \in Starts(rows) : RunOf(rows, j) = k + 1
  BY <1>1, RunsNumbered DEF n
<1>4. PICK last \in Ends(rows) : RunOf(rows, last) = k + 1
  BY <1>1, RunsEnd DEF n
<1>5. PICK i \in Heard(rows) : Adjacent(rows, i, j) /\ rows[i].role # rows[j].role
  BY <1>1, <1>3, RowBefore
<1>6. i \in Ends(rows) /\ RunOf(rows, i) = k
  <2>1. i \in Ends(rows) /\ RunOf(rows, j) = RunOf(rows, i) + 1
    BY <1>5, NextRow
  <2>2. RunOf(rows, i) \in Nat
    BY HeardNat
  <2> QED
    BY <1>1, <1>3, <2>1, <2>2
<1>7. first \in Heard(rows) /\ j \in Heard(rows) /\ last \in Heard(rows)
  BY HeardNat
<1>8. /\ seq[k].role = NormaliseRole(rows[i].role) /\ rows[i].role \in {"bot", "user"}
      /\ seq[k].ended = ParseReportTime(rows[i].endTime)
      /\ seq[k].started = ParseReportTime(rows[first].time)
  BY <1>2, <1>6, <1>7, TurnOfRow
<1>9. /\ seq[k + 1].role = NormaliseRole(rows[j].role) /\ rows[j].role \in {"bot", "user"}
      /\ seq[k + 1].started = ParseReportTime(rows[j].time)
      /\ seq[k + 1].ended = ParseReportTime(rows[last].endTime)
  BY <1>3, <1>4, <1>7, TurnOfRow
<1>10. /\ seq[k].role = "assistant" /\ seq[k + 1].role = "user"
       /\ seq[k].started # NoTime /\ seq[k].ended # NoTime /\ seq[k].started <= seq[k].ended
       /\ seq[k + 1].started # NoTime /\ seq[k + 1].ended # NoTime
       /\ seq[k + 1].started <= seq[k + 1].ended
       /\ seq[k + 1].started - seq[k].ended >= Threshold
  BY DEF Qualifies, ValidTurn
<1>11. rows[i].role = "bot" /\ rows[j].role = "user"
  BY <1>8, <1>9, <1>10 DEF NormaliseRole
<1>12. /\ rows[first].time \in Nat /\ rows[i].endTime \in Nat
       /\ rows[j].time \in Nat /\ rows[last].endTime \in Nat
       /\ seq[k].started = rows[first].time /\ seq[k].ended = rows[i].endTime
       /\ seq[k + 1].started = rows[j].time /\ seq[k + 1].ended = rows[last].endTime
  BY <1>8, <1>9, <1>10, TimeGiven
<1>13. /\ InOrder(rows[first].time, rows[i].endTime) /\ InOrder(rows[j].time, rows[last].endTime)
       /\ rows[i].endTime + Threshold <= rows[j].time
  BY <1>10, <1>12, ThresholdAssumption DEF InOrder
<1>14. RunOf(rows, first) = RunOf(rows, i) /\ RunOf(rows, last) = RunOf(rows, j)
  BY <1>2, <1>3, <1>4, <1>6
<1>15. Silent(rows, i, j)
  BY <1>5, <1>11, <1>13, <1>14 DEF Silent
<1> QED
  BY <1>3, <1>6, <1>15

\* One interval for each gap of the rows: they end at the same times, and are as many.
LEMMA GapsAreIntervals ==
  ASSUME NEW rows \in Seq(Row), NEW seq \in Seq(Turn), AreRuns(seq, rows)
  PROVE  /\ IsFiniteSet(Intervals(seq)) /\ Cardinality(Intervals(seq)) = Cardinality(Gaps(rows))
         /\ \A j \in Gaps(rows) : rows[j].time \in Nat /\ \E x \in Intervals(seq) : x.ended = rows[j].time
         /\ \A x \in Intervals(seq) : \E j \in Gaps(rows) : x.ended = rows[j].time
<1> DEFINE gaps == Gaps(rows)
           between(k) == [started |-> seq[k].ended, ended |-> seq[k + 1].started,
                          user |-> seq[k + 1].index]
           interval == [j \in gaps |-> between(RunOf(rows, j) - 1)]
<1>1. ASSUME NEW j \in gaps
      PROVE  /\ j \in Starts(rows) /\ rows[j].time \in Nat
             /\ interval[j] \in Intervals(seq)
             /\ interval[j].ended = rows[j].time /\ interval[j].user = RunOf(rows, j) - 1
  <2>1. PICK i : Silent(rows, i, j)
    BY DEF Gaps
  <2> DEFINE k == RunOf(rows, i)
  <2>2. /\ j \in Starts(rows) /\ RunOf(rows, j) = k + 1
        /\ k \in 1..(Len(seq) - 1) /\ Qualifies(seq[k], seq[k + 1])
        /\ seq[k + 1].started = rows[j].time /\ rows[j].time \in Nat
        /\ seq[k + 1].index = k
    BY <2>1, SilentQualifies
  <2>3. RunOf(rows, j) - 1 = k
    BY <2>2
  <2>4. interval[j] = between(k)
    BY <2>3
  <2> HIDE DEF k
  <2>5. between(k) \in Intervals(seq)
    BY <2>2 DEF Intervals
  <2> QED
    BY <2>2, <2>3, <2>4, <2>5
<1>2. ASSUME NEW x \in Intervals(seq)
      PROVE  \E j \in gaps : interval[j] = x
  <2>1. PICK k \in 1..(Len(seq) - 1) : Qualifies(seq[k], seq[k + 1]) /\ x = between(k)
    BY DEF Intervals
  <2>2. PICK i \in Heard(rows), j \in Starts(rows) :
          Silent(rows, i, j) /\ RunOf(rows, i) = k /\ RunOf(rows, j) = k + 1
    BY <2>1, QualifiesSilent
  <2>3. j \in gaps
    BY <2>2, HeardNat DEF Gaps
  <2>4. RunOf(rows, j) - 1 = k
    BY <2>2
  <2> QED
    BY <2>1, <2>3, <2>4
<1>3. gaps \in SUBSET Starts(rows)
  BY <1>1
<1>4. IsFiniteSet(gaps)
  BY <1>3, HeardNat, FS_Subset
<1>5. ASSUME NEW i \in gaps, NEW j \in gaps, interval[i] = interval[j] PROVE i = j
  <2>1. RunOf(rows, i) - 1 = RunOf(rows, j) - 1
    BY <1>1, <1>5
  <2>2. RunOf(rows, i) \in Nat /\ RunOf(rows, j) \in Nat
    BY HeardNat
  <2>3. RunOf(rows, i) = RunOf(rows, j)
    BY <2>1, <2>2
  <2>4. i \in Starts(rows) /\ j \in Starts(rows)
    BY <1>1
  <2> QED
    BY <2>3, <2>4, RunsNumbered
<1>6. interval \in [gaps -> Intervals(seq)]
  <2>1. interval = [j \in gaps |-> interval[j]] /\ DOMAIN interval = gaps
    OBVIOUS
  <2> HIDE DEF interval
  <2> QED
    BY <1>1, <2>1
<1> HIDE DEF interval, gaps
<1>7. interval \in Bijection(gaps, Intervals(seq))
  <2>1. interval \in Injection(gaps, Intervals(seq))
    BY <1>5, <1>6 DEF Injection, IsInjective
  <2>2. interval \in Surjection(gaps, Intervals(seq))
    BY <1>2, <1>6 DEF Surjection
  <2> QED
    BY <2>1, <2>2 DEF Bijection
<1>8. IsFiniteSet(Intervals(seq)) /\ Cardinality(Intervals(seq)) = Cardinality(gaps)
  <2>1. ExistsBijection(gaps, Intervals(seq))
    BY <1>7 DEF ExistsBijection
  <2> QED
    BY <1>4, <2>1, FS_Bijection
<1> QED
  BY <1>1, <1>2, <1>8 DEF gaps

\* The silences a report tells of, found by its turns, are the gaps between its rows.
LEMMA SilencesOfRuns ==
  ASSUME NEW rows \in Seq(Row), NEW seq \in Seq(Turn), AreRuns(seq, rows), NEW list
  PROVE  LET gaps  == Gaps(rows)
             found == DetectSilence(TimedTurns(list, seq))
         IN IF Agree(list, rows) /\ gaps # {}
            THEN /\ found.count = Cardinality(gaps)
                 /\ \E j \in gaps : found.at = rows[j].time
                 /\ \A j \in gaps : found.at >= rows[j].time
            ELSE found = NoSilence
<1> DEFINE gaps == Gaps(rows)
           found == DetectSilence(TimedTurns(list, seq))
           ends == {x.ended : x \in Intervals(seq)}
<1>1. Agree(list, rows) <=> Aligned(list, seq)
  BY AgreeIsAligned
<1>2. CASE ~ Agree(list, rows)
  <2>1. TimedTurns(list, seq) = << >>
    BY <1>1, <1>2 DEF TimedTurns
  <2>2. Intervals(<< >>) = {}
    <3>1. 1..(Len(<< >>) - 1) = {}
      OBVIOUS
    <3> QED
      BY <3>1 DEF Intervals
  <2>3. found = NoSilence
    BY <2>1, <2>2 DEF DetectSilence
  <2> QED
    BY <1>2, <2>3
<1>3. CASE Agree(list, rows)
  <2>1. TimedTurns(list, seq) = seq
    BY <1>1, <1>3 DEF TimedTurns
  <2>2. /\ IsFiniteSet(Intervals(seq)) /\ Cardinality(Intervals(seq)) = Cardinality(gaps)
        /\ \A j \in gaps : rows[j].time \in Nat /\ \E x \in Intervals(seq) : x.ended = rows[j].time
        /\ \A x \in Intervals(seq) : \E j \in gaps : x.ended = rows[j].time
    BY GapsAreIntervals
  <2>3. gaps = {} <=> Intervals(seq) = {}
    BY <2>2
  <2>4. CASE gaps = {}
    <3>1. found = NoSilence
      BY <2>1, <2>3, <2>4 DEF DetectSilence
    <3> QED
      BY <2>4, <3>1
  <2>5. CASE gaps # {}
    <3>1. ends \in SUBSET Nat /\ ends # {}
      BY <2>2, <2>3, <2>5
    <3>2. IsFiniteSet(ends)
      <4> DEFINE f == [x \in Intervals(seq) |-> x.ended]
      <4>1. f \in Surjection(Intervals(seq), ends)
        BY DEF Surjection
      <4> HIDE DEF f, ends
      <4> QED
        BY <2>2, <4>1, FS_Surjection
    <3>3. \E m \in ends : \A k \in ends : k <= m
      <4> HIDE DEF ends
      <4> QED
        BY <3>1, <3>2, FiniteGreatest
    <3>4. PICK m \in ends : \A k \in ends : k <= m
      BY <3>3
    <3>5. \E x \in ends : \A y \in ends : x >= y
      BY <3>1, <3>4
    <3>6. Sets!Max(ends) \in ends /\ \A y \in ends : Sets!Max(ends) >= y
      <4> HIDE DEF ends
      <4> QED
        BY <3>5 DEF Sets!Max
    <3>7. found = [count |-> Cardinality(Intervals(seq)), at |-> Sets!Max(ends)]
      BY <2>1, <2>3, <2>5 DEF DetectSilence
    <3> HIDE DEF found
    <3>8. found.count = Cardinality(gaps) /\ found.at = Sets!Max(ends)
      BY <2>2, <3>7
    <3>9. \E j \in gaps : found.at = rows[j].time
      BY <2>2, <3>6, <3>8
    <3>10. \A j \in gaps : found.at >= rows[j].time
      BY <2>2, <3>6, <3>8
    <3> QED
      BY <1>3, <2>5, <3>8, <3>9, <3>10 DEF found
  <2> QED
    BY <2>4, <2>5
<1> QED
  BY <1>2, <1>3

------------------------------------------------------------------------------
(* The two readings of a report.                                               *)

(* The turns in hand are the runs of the rows in hand, and both are typed.     *)
ReadingInv == ReportInv /\ TurnsAreRuns

\* No row makes no run.
LEMMA NothingRead ==
  AreRuns(<< >>, << >>)
<1>1. Heard(<< >>) = {} /\ Starts(<< >>) = {}
  BY DEF Heard, Starts
<1> QED
  BY <1>1, FS_EmptySet DEF AreRuns

\* Rows are taken one by one, and dropped with their turns; no other step touches either.
LEMMA ReadingKept ==
  ASSUME ReadingInv, [ReportNext]_reportVars
  PROVE  TurnsAreRuns'
<1>1. messages \in Seq(Row) /\ turns \in Seq(Turn) /\ AreRuns(turns, messages)
  BY DEF ReadingInv, ReportInv, ReportTypeOK, TurnsAreRuns
<1>2. ASSUME NEW row \in Row, ReadRow(row) PROVE AreRuns(turns', messages')
  BY <1>1, <1>2, RunsStay DEF ReadRow
<1>3. CASE Derive
  BY <1>3, NothingRead DEF Derive, TurnsAreRuns
<1>4. ASSUME messages' = messages, turns' = turns PROVE TurnsAreRuns'
  BY <1>1, <1>4 DEF TurnsAreRuns
<1>5. CASE \E type \in MidCall : Observe(type)
  BY <1>4, <1>5 DEF Observe, reading
<1>6. CASE \E type \in {"SESSION_ENDED", "SESSION_FAILED"}, list \in Formatted, timing \in Timing :
             End(type, list, timing)
  BY <1>4, <1>6 DEF End
<1>7. CASE RecordContent \/ RecordSilence \/ RecordNothing \/ JudgeFails
  BY <1>4, <1>7 DEF RecordContent, RecordSilence, RecordNothing, JudgeFails, reading
<1>8. CASE \E goal \in {"CONVERSATION_GOAL_ACHIEVED", "CONVERSATION_GOAL_FAILED"} : RecordVerdict(goal)
  BY <1>4, <1>8 DEF RecordVerdict, reading
<1>9. CASE EvaluateTrace \/ EvaluationRaises \/ RecordFlags \/ Reevaluate
  BY <1>4, <1>9 DEF EvaluateTrace, EvaluationRaises, RecordFlags, Reevaluate, reading
<1>10. CASE UNCHANGED reportVars
  BY <1>4, <1>10 DEF reportVars, reading
<1>11. CASE \E row \in Row : ReadRow(row)
  BY <1>2, <1>11 DEF TurnsAreRuns
<1> QED
  BY <1>3, <1>5, <1>6, <1>7, <1>8, <1>9, <1>10, <1>11 DEF ReportNext

\* The reading of every report keeps its turns and its rows in step.
THEOREM ReadingInvariant == ReportSpec => []ReadingInv
<1>1. ReportInit => ReadingInv
  BY ReportInit_Inv, NothingRead DEF ReportInit, ReadingInv, TurnsAreRuns
<1>2. ReadingInv /\ [ReportNext]_reportVars => ReadingInv'
  BY ReportNext_Inv, ReadingKept DEF ReadingInv
<1> QED
  BY <1>1, <1>2, PTL DEF ReportSpec

\* Consolidation row by row (vapi_mapping.py:352), which looks at the last turn only, finds the
\* longest runs of rows of one role, with their boundaries: for every list of rows.
THEOREM ConsolidationIsRuns == ReportSpec => []TurnsAreRuns
<1>1. ReadingInv => TurnsAreRuns
  BY DEF ReadingInv
<1> QED
  BY <1>1, ReadingInvariant, PTL

\* The detector, which never sees a row, counts the gaps between the rows of a report whose
\* lists agree, and fails closed on all others (vapi_mapping.py:406): for every list of rows,
\* every list of entries and every threshold.
THEOREM SilencesAreCounted == ReportSpec => []SilencesAreGaps
<1>1. ASSUME ReadingInv PROVE SilencesAreGaps
  <2>1. messages \in Seq(Row) /\ turns \in Seq(Turn) /\ AreRuns(turns, messages)
    BY <1>1 DEF ReadingInv, ReportInv, ReportTypeOK, TurnsAreRuns
  <2> QED
    BY <2>1, SilencesOfRuns DEF SilencesAreGaps
<1>2. ReadingInv => SilencesAreGaps
  BY <1>1
<1> QED
  BY <1>2, ReadingInvariant, PTL
===============================================================================
