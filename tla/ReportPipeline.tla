---------------------------- MODULE ReportPipeline -----------------------------
(* The way of one session to its report: the events the webhook records, the   *)
(* terminal report, what a worker derives from it, the judge's verdict, and    *)
(* the evaluations, each of which sees what the earlier ones left in the trace *)
(* (infrastructure/celery/tasks.py and the domain code it calls).  Who writes  *)
(* when, and in which transaction, is the matter of EvaluationTask; here it is *)
(* what is concluded from what was written.                                    *)
EXTENDS ConversationTurns, Scoring

CONSTANTS
  Row,         \* the rows "messages" of a report may hold
  Formatted,   \* the lists "messagesOpenAIFormatted" it may hold
  Timing,      \* the pairs of raw turn latencies and of a duration it may hold
  MaxSize,     \* bound on the events recorded while the call lasts and the rows of its report
  MaxRuns      \* bound on the evaluations

LOCAL Seqs == INSTANCE SequencesExt
LOCAL FinSets == INSTANCE FiniteSetsExt

\* evidence_builder.py and _normalise_turn_latencies keep the finite non-negative numbers.
TurnLatencies(raw) == SelectSeq(raw, LAMBDA value : value \in Nat)

Summary(raw) ==
  LET values == TurnLatencies(raw) IN
  [number  |-> Len(values),
   total   |-> Seqs!FoldLeft(LAMBDA sum, value : sum + value, 0, values),
   longest |-> Seqs!FoldLeft(LAMBDA top, value : IF value > top THEN value ELSE top, 0, values)]

\* A trace without a terminal event has none.
NoLatencies == [number |-> 0, total |-> 0, longest |-> 0]

\* An entry of messagesOpenAIFormatted; text: whether its content is a string.
Entry == [role : {"system", "assistant", "user", "tool"}, text : BOOLEAN]

ASSUME ReportAssumption ==
  /\ Formatted \subseteq Seq(Entry)
  /\ \A t \in Timing :
       t.duration \in Nat /\ Summary(t.latencies) \in [number : Nat, total : Nat, longest : Nat]
  /\ MaxSize \in Nat /\ MaxRuns \in Nat

VARIABLES
  phase,      \* what happens next
  facts,      \* the facts of the trace
  formatted,  \* the turns of the report without times, while it is read
  messages,   \* the rows read so far
  turns,      \* the turns made of them so far
  derived,    \* what was derived from the report
  attempts,   \* calls of the judge that failed in this evaluation
  recorded,   \* the derived events the trace holds, by identity
  report,     \* the report of the last evaluation
  runs        \* number of evaluations

reportVars == <<phase, facts, formatted, messages, turns, derived, attempts, recorded, report, runs>>
reading == <<formatted, messages, turns>>

Phases == {"call", "read", "content", "silence", "judge", "evaluate", "observe", "done"}

MaxAttempts == 3

MidCall == {"CONVERSATION_AGENT_RESPONSE", "CONVERSATION_USER_INPUT",
            "CONVERSATION_INTERRUPTION_DETECTED", "SYSTEM_MODEL_INVOCATION", "SYSTEM_WARNING",
            "SYSTEM_FLAG_RAISED"}

NoReport == [result |-> "pending"]

ReportInit ==
  /\ phase = "call"
  /\ facts = [count |-> [type \in Counted |-> 0], silence |-> 0,
              latencies |-> NoLatencies, duration |-> Absent]
  /\ formatted = << >> /\ messages = << >> /\ turns = << >>
  /\ derived = [agents |-> 0, users |-> 0, silence |-> 0]
  /\ attempts = 0
  /\ recorded = {}
  /\ report = NoReport
  /\ runs = 0

------------------------------------------------------------------------------
(* The call.                                                                   *)

Live == FinSets!MapThenSumSet(LAMBDA type : facts.count[type], MidCall)

Observe(type) ==
  /\ phase = "call"
  /\ Live < MaxSize
  /\ facts' = [facts EXCEPT !.count[type] = @ + 1]
  /\ UNCHANGED <<phase, reading, derived, attempts, recorded, report, runs>>

\* The terminal report; that of a failed call also records its error.
End(type, list, timing) ==
  /\ phase = "call"
  /\ facts' = [facts EXCEPT !.count[type] = 1,
                            !.count["SYSTEM_ERROR"] = IF type = "SESSION_FAILED" THEN 1 ELSE 0,
                            !.latencies = Summary(timing.latencies),
                            !.duration = timing.duration]
  /\ formatted' = list
  /\ phase' = "read"
  /\ UNCHANGED <<messages, turns, derived, attempts, recorded, report, runs>>

------------------------------------------------------------------------------
(* What is derived from the report.                                            *)

ReadRow(row) ==
  /\ phase = "read"
  /\ Live + Len(messages) < MaxSize
  /\ messages' = Append(messages, row)
  /\ turns' = TakeRow(turns, row)
  /\ UNCHANGED <<phase, facts, formatted, derived, attempts, recorded, report, runs>>

\* The content events of a role, one for each entry; their dates are left out.
Spoke(role) == Cardinality({i \in 1..Len(formatted) : formatted[i].role = role /\ formatted[i].text})

\* The lists are read to their end; they are local to the functions that read them.
Derive ==
  /\ phase = "read"
  /\ derived' = [agents  |-> Spoke("assistant"), users |-> Spoke("user"),
                 silence |-> DetectSilence(TimedTurns(formatted, turns)).count]
  /\ formatted' = << >> /\ messages' = << >> /\ turns' = << >>
  /\ phase' = "content"
  /\ UNCHANGED <<facts, attempts, recorded, report, runs>>

\* Content events are identified by turn and text: recording them again adds nothing.
RecordContent ==
  /\ phase = "content"
  /\ facts' = IF "content" \in recorded THEN facts
              ELSE [facts EXCEPT !.count["CONVERSATION_AGENT_RESPONSE"] = @ + derived.agents,
                                 !.count["CONVERSATION_USER_INPUT"] = @ + derived.users]
  /\ recorded' = recorded \union {"content"}
  /\ phase' = "silence"
  /\ UNCHANGED <<reading, derived, attempts, report, runs>>

\* A session has one silence event, identified by the version of the detector.
RecordSilence ==
  /\ phase = "silence"
  /\ derived.silence > 0
  /\ facts' = [facts EXCEPT !.silence = derived.silence]
  /\ phase' = "judge"
  /\ UNCHANGED <<reading, derived, attempts, recorded, report, runs>>

\* Mutant: the judge is asked until it answers.
JudgingOn == phase = "judge" /\ derived.agents + derived.users > 0

\* The judge is asked only if there is a transcript, and three times at most.
Judging == phase = "judge" /\ derived.agents + derived.users > 0 /\ attempts < MaxAttempts

JudgeFails ==
  /\ Judging
  /\ attempts' = attempts + 1
  /\ UNCHANGED <<phase, facts, reading, derived, recorded, report, runs>>

\* The goal event is identified by the verdict: a second verdict that differs joins the first.
RecordVerdict(goal) ==
  /\ Judging
  /\ facts' = [facts EXCEPT !.count[goal] = 1]
  /\ attempts' = 0
  /\ phase' = "evaluate"
  /\ UNCHANGED <<reading, derived, recorded, report, runs>>

NextPhase == [content |-> "silence", silence |-> "judge", judge |-> "evaluate", observe |-> "done"]

\* A best-effort step has nothing to record, or fails and leaves its fact absent.
RecordNothing ==
  /\ phase \in DOMAIN NextPhase
  /\ attempts' = 0
  /\ phase' = NextPhase[phase]
  /\ UNCHANGED <<facts, reading, derived, recorded, report, runs>>

------------------------------------------------------------------------------
(* Evaluation.                                                                 *)

EvaluateTrace ==
  /\ phase = "evaluate"
  /\ report' = Evaluate(facts)
  /\ runs' = runs + 1
  /\ phase' = "observe"
  /\ UNCHANGED <<facts, reading, derived, attempts, recorded>>

\* The evaluation raises: the old report stays and the error is recorded, once.
EvaluationRaises ==
  /\ phase = "evaluate"
  /\ facts' = IF "error" \in recorded THEN facts
              ELSE [facts EXCEPT !.count["SYSTEM_ERROR"] = @ + 1]
  /\ recorded' = recorded \union {"error"}
  /\ runs' = runs + 1
  /\ phase' = "done"
  /\ UNCHANGED <<reading, derived, attempts, report>>

\* One flag event for each blocking flag that no earlier evaluation recorded.
RecordFlags ==
  /\ phase = "observe"
  /\ facts' = [facts EXCEPT !.count["SYSTEM_FLAG_RAISED"] = @ + Cardinality(report.flags \ recorded)]
  /\ recorded' = recorded \union report.flags
  /\ phase' = "done"
  /\ UNCHANGED <<reading, derived, attempts, report, runs>>

\* A redelivered report has the session evaluated again.
Reevaluate ==
  /\ phase = "done"
  /\ runs < MaxRuns
  /\ phase' = "content"
  /\ UNCHANGED <<facts, reading, derived, attempts, recorded, report, runs>>

ReportNext ==
  \/ \E type \in MidCall : Observe(type)
  \/ \E type \in {"SESSION_ENDED", "SESSION_FAILED"}, list \in Formatted, timing \in Timing :
       End(type, list, timing)
  \/ \E row \in Row : ReadRow(row)
  \/ Derive \/ RecordContent \/ RecordSilence \/ RecordNothing
  \/ JudgeFails
  \/ \E goal \in {"CONVERSATION_GOAL_ACHIEVED", "CONVERSATION_GOAL_FAILED"} : RecordVerdict(goal)
  \/ EvaluateTrace \/ EvaluationRaises \/ RecordFlags \/ Reevaluate

ReportSpec == ReportInit /\ [][ReportNext]_reportVars
------------------------------------------------------------------------------
(* Properties: what is derived.                                                *)

Reports == [score : Int, result : {"passed", "failed"},
            dimensions : [Dimension -> Int \union {Absent}], flags : SUBSET FlagCode]

Time == Nat \union {NoTime}

Turn == [role : {"assistant", "user"}, index : Nat, started : Time, ended : Time]

ReportTypeOK ==
  /\ phase \in Phases
  /\ facts \in Facts
  /\ formatted \in Seq(Entry) /\ messages \in Seq(Row) /\ turns \in Seq(Turn)
  /\ derived \in [agents : Nat, users : Nat, silence : Nat]
  /\ attempts \in 0..MaxAttempts
  /\ recorded \subseteq {"content", "error"} \union FlagCode
  /\ report \in Reports \union {NoReport} /\ (phase = "observe" => report \in Reports)
  /\ runs \in Nat

\* The rows that count are those of the two who speak.
Heard(rows) == {i \in 1..Len(rows) : rows[i].role \in {"bot", "user"}}

\* Of the rows that count, j is the next after i.
Adjacent(rows, i, j) ==
  i \in Heard(rows) /\ j \in Heard(rows) /\ i < j /\ \A k \in Heard(rows) : k <= i \/ j <= k

Starts(rows) ==
  {j \in Heard(rows) : \A i \in Heard(rows) : Adjacent(rows, i, j) => rows[i].role # rows[j].role}
Ends(rows) ==
  {i \in Heard(rows) : \A j \in Heard(rows) : Adjacent(rows, i, j) => rows[i].role # rows[j].role}

\* The number of the run of rows of one role that row i belongs to.
RunOf(rows, i) == Cardinality({j \in Starts(rows) : j <= i})

AreRuns(seq, rows) ==
  /\ Len(seq) = Cardinality(Starts(rows))
  /\ \A i \in Heard(rows) :
       LET turn == seq[RunOf(rows, i)] IN
       /\ turn.index = RunOf(rows, i) - 1
       /\ turn.role = NormaliseRole(rows[i].role)
       /\ i \in Starts(rows) => turn.started = ParseReportTime(rows[i].time)
       /\ i \in Ends(rows) => turn.ended = ParseReportTime(rows[i].endTime)

\* Turn indices and times follow from the rows alone ("consecutive same-role fragments",
\* vapi_mapping.py:352): a turn is a longest run of rows of one role, rows of other
\* roles left out, from the first one's start to the last one's end.
TurnsAreRuns == AreRuns(turns, messages)

\* The report gives the times, and they are in order.
InOrder(time, later) == time \in Nat /\ later \in Nat /\ time <= later

\* The user keeps silent from the end of row i to the start of row j, the next that
\* counts, and the two runs around the gap have an order in time.
Silent(rows, i, j) ==
  /\ Adjacent(rows, i, j) /\ rows[i].role = "bot" /\ rows[j].role = "user"
  /\ \E first \in Starts(rows), last \in Ends(rows) :
       /\ RunOf(rows, first) = RunOf(rows, i) /\ RunOf(rows, last) = RunOf(rows, j)
       /\ InOrder(rows[first].time, rows[i].endTime)
       /\ InOrder(rows[j].time, rows[last].endTime)
  /\ rows[i].endTime + Threshold <= rows[j].time

\* The starts of user rows that end a silence.
Gaps(rows) == {j \in Heard(rows) : \E i \in Heard(rows) : Silent(rows, i, j)}

\* The two lists of the report tell of the same turns.
Agree(list, rows) ==
  LET spoken == Spoken(list) IN
  /\ Len(spoken) = Cardinality(Starts(rows))
  /\ \A i \in Heard(rows) : spoken[RunOf(rows, i)].role = NormaliseRole(rows[i].role)

\* "silence evidence must fail closed unless the formatted and raw turn sequences agree
\* exactly in both count and role" (vapi_mapping.py:406): then all gaps of the rows are
\* counted, those of exactly the threshold too, and otherwise none is.
SilencesAreGaps ==
  LET gaps  == Gaps(messages)
      found == DetectSilence(TimedTurns(formatted, turns))
  IN IF Agree(formatted, messages) /\ gaps # {}
     THEN /\ found.count = Cardinality(gaps)
          /\ \E j \in gaps : found.at = messages[j].time
          /\ \A j \in gaps : found.at >= messages[j].time
     ELSE found = NoSilence

------------------------------------------------------------------------------
(* Properties: what is concluded.                                              *)

\* f and g differ in the events of the given types and in silences only, and g has no
\* fewer of them.
MoreOf(types, f, g) ==
  /\ g.latencies = f.latencies /\ g.duration = f.duration
  /\ \A type \in Counted \ types : g.count[type] = f.count[type]
  /\ \A type \in types : g.count[type] >= f.count[type]
  /\ g.silence >= f.silence

BadNews == {"CONVERSATION_INTERRUPTION_DETECTED", "CONVERSATION_GOAL_FAILED", "SYSTEM_WARNING",
            "SYSTEM_ERROR", "SYSTEM_FLAG_RAISED"}

\* An event that speaks against a session never raises a score of it, and never clears a
\* blocking flag, whatever else the trace holds (the clamps, inverses and omissions of
\* metric_spec.py and catalogue.py together).
BadNewsNeverHelps ==
  [][facts' # facts /\ MoreOf(BadNews, facts, facts') =>
       /\ Evaluate(facts').score <= Evaluate(facts).score
       /\ \A d \in Dimension \ {"operational"} :
            Evaluate(facts').dimensions[d] <= Evaluate(facts).dimensions[d]
       /\ Evaluate(facts).flags \subseteq Evaluate(facts').flags]_reportVars

\* A goal once achieved stays so: a later evaluation whose judge says otherwise changes
\* nothing in the report (evidence_builder.py:74).
AchievedStands ==
  [][facts' # facts /\ Occurs(facts, "CONVERSATION_GOAL_ACHIEVED") /\ MoreOf({"CONVERSATION_GOAL_FAILED"}, facts, facts')
       /\ facts'.silence = facts.silence
     => Evaluate(facts') = Evaluate(facts)]_reportVars

\* A passed session has ended in good order, and it left at least one turn or an achieved
\* goal in the trace: a call in which nobody is heard does not pass on the metrics it has
\* no evidence against.
PassIsEarned ==
  report.result = "passed" =>
    /\ Occurs(facts, "SESSION_ENDED") /\ ~ Occurs(facts, "SESSION_FAILED")
    /\ AllTurns(facts) > 0 \/ Occurs(facts, "CONVERSATION_GOAL_ACHIEVED")

\* Every metric with evidence scores 0 to 100, a dimension lies between the least and the
\* greatest score of the metrics that have evidence and a weight, and the global score
\* between those of the dimensions: metrics that are omitted or informational have no
\* part in a mean, and none is over nothing (evaluator.py:45).
ScoresAreMeans ==
  phase = "observe" =>
    LET e == Evidences(facts)
        score == Score(e)
    IN /\ \A m \in Measured(e) : score[m] \in 0..Full
       /\ \A d \in ScoredDimensions(e) : \E low, high \in Group(e, d) :
            score[low] <= report.dimensions[d] /\ report.dimensions[d] <= score[high]
       /\ \E low, high \in ScoredDimensions(e) :
            report.dimensions[low] <= report.score /\ report.score <= report.dimensions[high]
===============================================================================
