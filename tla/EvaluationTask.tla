---------------------------- MODULE EvaluationTask ----------------------------
(* The Celery task build_session_evidences (infrastructure/celery/tasks.py):   *)
(* workers that mark a closed session, enrich its trace in three best-effort   *)
(* transactions, evaluate the reloaded trace, replace its evidences and report *)
(* in one transaction, and record what the evaluation observed in another.     *)
(* Two workers may hold tasks of one session.                                  *)
(*                                                                             *)
(* Postgres runs every transaction at READ COMMITTED: a DELETE works on the    *)
(* rows committed when the statement starts, waits for those another open      *)
(* transaction deletes, and does not see rows inserted meanwhile.  Inserting a *)
(* row that references the session shares its key (FOR KEY SHARE) until the    *)
(* transaction ends, which SELECT ... FOR UPDATE waits for and the other way   *)
(* round.                                                                      *)
EXTENDS TraceStore, TaskQueue

CONSTANTS
  Worker,      \* the Celery worker processes
  Turns,       \* the content commands derived from a terminal report, in order: each
               \* turn is identified by its place in the report
  HasSilence,  \* whether the report's timed turns hold a prolonged silence
  Verdict,     \* the verdicts the judge may give; it may also give none
  TaskFault,   \* which faults may happen: "kill", "abort"
  MaxRun       \* bound on the evaluations started

ASSUME TaskAssumption ==
  /\ Worker \subseteq Process
  /\ Turns \in Seq({cmd \in Command : cmd.op = "content"})
  /\ \A i, j \in 1..Len(Turns) : Turns[i] = Turns[j] => i = j
  /\ HasSilence \in BOOLEAN
  /\ Verdict \subseteq [goal : {"achieved", "failed"}, topics : {0, 2}]
  /\ TaskFault \subseteq {"kill", "abort"}
  /\ MaxRun \in Nat

VARIABLES
  evidences,  \* call -> committed evidence rows, one per evaluation that wrote them
  reports,    \* call -> committed report rows
  keyShare,   \* call -> workers whose open transaction references the session row
  step,       \* worker -> the step its task is at
  task,       \* worker -> what its task holds in memory and in its open transaction
  runs        \* number of evaluations started

taskVars == <<evidences, reports, keyShare, step, task, runs>>
allTaskVars == <<vars, queue, taskVars>>

Steps == {"idle", "taken", "marker", "content", "contentTxn", "silence", "silenceTxn",
          "judge", "judgeTxn", "reload", "evaluate", "dropEvidences", "addEvidences",
          "replaceReport", "dropReport", "addReport", "commit", "conflict", "failed",
          "errorTxn", "observe", "observeTxn"}

------------------------------------------------------------------------------
(* What an evaluation concludes from a trace (domain/evidence_builder.py and   *)
(* scoring/flags.py), reduced to the values later runs may change.             *)

Count(E, types) == Cardinality({e \in E : e.type \in types})

\* "unknown" stands for the goal evidence that is left out when nothing signals a goal.
GoalOutcome(E) ==
  IF "CONVERSATION_GOAL_ACHIEVED" \in Types(E) THEN "achieved"
  ELSE IF "CONVERSATION_GOAL_FAILED" \in Types(E) THEN "failed" ELSE "unknown"

Findings(E) ==
  [turns   |-> Count(E, ConversationContentEvents),
   flags   |-> Count(E, {"SYSTEM_FLAG_RAISED"}),
   errors  |-> Count(E, {"SYSTEM_ERROR"}),
   silence |-> Count(E, {"CONVERSATION_SILENCE_DETECTED"}) > 0,
   failed  |-> "SESSION_FAILED" \in Types(E),
   goal    |-> GoalOutcome(E)]

BlockingFlags(f) ==
  {code \in {"session_failed", "goal_not_completed", "unrecovered_error"} :
     \/ code = "session_failed" /\ f.failed
     \/ code = "goal_not_completed" /\ f.goal = "failed"
     \/ code = "unrecovered_error" /\ f.failed /\ f.errors > 0}

NoWork == [call |-> None, loaded |-> {}, run |-> 0, oldEvidences |-> {}, oldReports |-> {}]

\* A row of an evaluation: all its evidences, or its report.
Row(w) == [run |-> task[w].run, findings |-> Findings(task[w].loaded)]

TaskInit ==
  /\ evidences = [c \in Call |-> {}]
  /\ reports = [c \in Call |-> {}]
  /\ keyShare = [c \in Call |-> {}]
  /\ step = [w \in Worker |-> "idle"]
  /\ task = [w \in Worker |-> NoWork]
  /\ runs = 0

------------------------------------------------------------------------------
(* Starting.                                                                   *)

GoOn(w, s) == step' = [step EXCEPT ![w] = s]

EndTask(w) == GoOn(w, "idle") /\ task' = [task EXCEPT ![w] = NoWork]

Accept(w, c) ==
  /\ step[w] = "idle"
  /\ Take(c)
  /\ GoOn(w, "taken")
  /\ task' = [task EXCEPT ![w].call = c]
  /\ UNCHANGED <<vars, evidences, reports, keyShare, runs>>

MarkerPlan == <<[op |-> "marker", type |-> "SESSION_EVALUATION_TRIGGERED", key |-> "none"]>>

\* The session is read without a lock; a closed one gets its marker.
Mark(w) ==
  LET c == task[w].call IN
  /\ step[w] = "taken"
  /\ sessionRow[c] \in Closed
  /\ Begin(w, c, MarkerPlan)
  /\ task' = [task EXCEPT ![w].loaded = trace[c]]
  /\ GoOn(w, "marker")
  /\ UNCHANGED <<queue, evidences, reports, keyShare, runs>>

\* No session: nothing to do.  An active one: append_marker raises and the task fails.
NotEvaluable(w) ==
  /\ step[w] = "taken"
  /\ sessionRow[task[w].call] \notin Closed
  /\ EndTask(w)
  /\ UNCHANGED <<vars, queue, evidences, reports, keyShare, runs>>

TraceTxn == {"marker", "contentTxn", "silenceTxn", "judgeTxn", "errorTxn", "observeTxn"}

\* SELECT ... FOR UPDATE also waits for the transactions that share the key of the row.
KeyRespected == \A c \in Call : rowLock[c] = None /\ rowLock'[c] # None => keyShare[c] = {}

TaskStatement(w) ==
  /\ step[w] \in TraceTxn
  /\ Work(w)
  /\ KeyRespected
  /\ UNCHANGED <<queue, taskVars>>

Marked(w) ==
  /\ step[w] = "marker"
  /\ Commit(w)
  /\ GoOn(w, "content")
  /\ UNCHANGED <<queue, evidences, reports, keyShare, task, runs>>

------------------------------------------------------------------------------
(* Enrichment from the terminal event of the session as first loaded.          *)

HasTerminal(w) == Types(task[w].loaded) \intersect TerminalEvents # {}

\* The next enrichment, and the step a stage without commands goes to.
StageOf(s) ==
  CASE s = "content" -> [txn |-> "contentTxn", next |-> "silence"]
    [] s = "silence" -> [txn |-> "silenceTxn", next |-> "judge"]
    [] s = "judge"   -> [txn |-> "judgeTxn", next |-> "reload"]

SilencePlan == <<[op |-> "signal", type |-> "CONVERSATION_SILENCE_DETECTED", key |-> "v1"]>>

VerdictPlan(v) ==
  (IF v.topics = 0 THEN << >>
   ELSE <<[op |-> "signal", type |-> "CONVERSATION_TOPIC_CHANGE", key |-> "two"]>>) \o
  <<IF v.goal = "achieved"
    THEN [op |-> "signal", type |-> "CONVERSATION_GOAL_ACHIEVED", key |-> "achieved"]
    ELSE [op |-> "signal", type |-> "CONVERSATION_GOAL_FAILED", key |-> "failed"]>>

\* What a stage may have to record; the judge sees a transcript only if there are turns.
StagePlans(s) ==
  CASE s = "content" -> {Turns}
    [] s = "silence" -> {IF HasSilence THEN SilencePlan ELSE << >>}
    [] s = "judge"   -> IF Turns = << >> THEN {<< >>}
                        ELSE {VerdictPlan(v) : v \in Verdict} \union {<< >>}

Enrich(w) ==
  /\ step[w] \in {"content", "silence", "judge"}
  /\ \E plan \in StagePlans(step[w]) :
       IF plan = << >> \/ ~ HasTerminal(w)
       THEN GoOn(w, StageOf(step[w]).next) /\ UNCHANGED vars
       ELSE Begin(w, task[w].call, plan) /\ GoOn(w, StageOf(step[w]).txn)
  /\ UNCHANGED <<queue, evidences, reports, keyShare, task, runs>>

\* Each enrichment commits, or fails and leaves its fact absent; the task goes on.
Enriched(w) ==
  /\ \E s \in {"content", "silence", "judge"} :
       step[w] = StageOf(s).txn /\ GoOn(w, StageOf(s).next)
  /\ Commit(w) \/ Refuse(w) \/ ("abort" \in TaskFault /\ Abort(w))
  /\ UNCHANGED <<queue, evidences, reports, keyShare, task, runs>>

------------------------------------------------------------------------------
(* Evaluation: one transaction that replaces evidences and report.             *)

\* Mutant: the evaluation works on the session as first loaded.
EvaluateStale(w) ==
  /\ step[w] = "reload"
  /\ runs < MaxRun
  /\ runs' = runs + 1
  /\ task' = [task EXCEPT ![w].run = runs + 1]
  /\ GoOn(w, "evaluate")
  /\ UNCHANGED <<vars, queue, evidences, reports, keyShare>>

Reload(w) ==
  /\ step[w] = "reload"
  /\ runs < MaxRun
  /\ runs' = runs + 1
  /\ task' = [task EXCEPT ![w].loaded = trace[task[w].call], ![w].run = runs + 1]
  /\ GoOn(w, "evaluate")
  /\ UNCHANGED <<vars, queue, evidences, reports, keyShare>>

\* Mutant: evidences are added without deleting the old ones.
AppendEvidences(w) ==
  /\ step[w] = "evaluate"
  /\ task' = [task EXCEPT ![w].oldEvidences = {}]
  /\ GoOn(w, "dropEvidences")
  /\ UNCHANGED <<vars, queue, evidences, reports, keyShare, runs>>

\* DELETE FROM evidences starts: it will remove the rows it sees now ...
FindEvidences(w) ==
  /\ step[w] = "evaluate"
  /\ task' = [task EXCEPT ![w].oldEvidences = evidences[task[w].call]]
  /\ GoOn(w, "dropEvidences")
  /\ UNCHANGED <<vars, queue, evidences, reports, keyShare, runs>>

\* The steps at which a worker's open transaction has deleted its old rows.
HoldsEvidences == {"addEvidences", "replaceReport", "dropReport", "addReport", "commit"}
HoldsReports == {"addReport", "commit"}

\* ... and goes on once no other open transaction has deleted one of them.
DropEvidences(w) ==
  /\ step[w] = "dropEvidences"
  /\ \A v \in Worker \ {w} :
       step[v] \in HoldsEvidences => task[v].oldEvidences \intersect task[w].oldEvidences = {}
  /\ task' = [task EXCEPT ![w].oldEvidences = @ \intersect evidences[task[w].call]]
  /\ GoOn(w, "addEvidences")
  /\ UNCHANGED <<vars, queue, evidences, reports, keyShare, runs>>

\* INSERT INTO evidences shares the key of the session row.
AddEvidences(w) ==
  LET c == task[w].call IN
  /\ step[w] = "addEvidences"
  /\ rowLock[c] = None
  /\ keyShare' = [keyShare EXCEPT ![c] = @ \union {w}]
  /\ GoOn(w, "replaceReport")
  /\ UNCHANGED <<vars, queue, evidences, reports, task, runs>>

\* DELETE FROM evaluation_reports, in the same two parts.
FindReport(w) ==
  /\ step[w] = "replaceReport"
  /\ task' = [task EXCEPT ![w].oldReports = reports[task[w].call]]
  /\ GoOn(w, "dropReport")
  /\ UNCHANGED <<vars, queue, evidences, reports, keyShare, runs>>

\* Mutant: the deletion of the old report is committed on its own.
DropReportNow(w) ==
  /\ step[w] = "dropReport"
  /\ reports' = [reports EXCEPT ![task[w].call] = @ \ task[w].oldReports]
  /\ GoOn(w, "addReport")
  /\ UNCHANGED <<vars, queue, evidences, keyShare, task, runs>>

DropReport(w) ==
  /\ step[w] = "dropReport"
  /\ \A v \in Worker \ {w} :
       step[v] \in HoldsReports => task[v].oldReports \intersect task[w].oldReports = {}
  /\ task' = [task EXCEPT ![w].oldReports = @ \intersect reports[task[w].call]]
  /\ GoOn(w, "addReport")
  /\ UNCHANGED <<vars, queue, evidences, reports, keyShare, runs>>

\* Mutant: session_id is not unique in evaluation_reports.
AddReportUnchecked(w) ==
  /\ step[w] = "addReport"
  /\ GoOn(w, "commit")
  /\ UNCHANGED <<vars, queue, evidences, reports, keyShare, task, runs>>

\* INSERT INTO evaluation_reports: the unique session_id makes it wait for another open
\* insert, and fail on a row that is committed and not deleted here.
AddReport(w) ==
  LET c == task[w].call IN
  /\ step[w] = "addReport"
  /\ \A v \in Worker \ {w} : ~ (step[v] = "commit" /\ task[v].call = c)
  /\ GoOn(w, IF reports[c] \subseteq task[w].oldReports THEN "commit" ELSE "conflict")
  /\ UNCHANGED <<vars, queue, evidences, reports, keyShare, task, runs>>

\* Mutant: the report is committed without its evidences.
CommitReportOnly(w) ==
  LET c == task[w].call IN
  /\ step[w] = "commit"
  /\ evidences' = [evidences EXCEPT ![c] = @ \ task[w].oldEvidences]
  /\ reports' = [reports EXCEPT ![c] = (@ \ task[w].oldReports) \union {Row(w)}]
  /\ keyShare' = [keyShare EXCEPT ![c] = @ \ {w}]
  /\ GoOn(w, "observe")
  /\ UNCHANGED <<vars, queue, task, runs>>

\* Mutant: the transaction stays open, and with it its share of the session's key.
CommitAndHold(w) ==
  LET c == task[w].call IN
  /\ step[w] = "commit"
  /\ evidences' = [evidences EXCEPT ![c] = (@ \ task[w].oldEvidences) \union {Row(w)}]
  /\ reports' = [reports EXCEPT ![c] = (@ \ task[w].oldReports) \union {Row(w)}]
  /\ GoOn(w, "observe")
  /\ UNCHANGED <<vars, queue, keyShare, task, runs>>

CommitEvaluation(w) ==
  LET c == task[w].call IN
  /\ step[w] = "commit"
  /\ evidences' = [evidences EXCEPT ![c] = (@ \ task[w].oldEvidences) \union {Row(w)}]
  /\ reports' = [reports EXCEPT ![c] = (@ \ task[w].oldReports) \union {Row(w)}]
  /\ keyShare' = [keyShare EXCEPT ![c] = @ \ {w}]
  /\ GoOn(w, "observe")
  /\ UNCHANGED <<vars, queue, task, runs>>

Evaluating == {"evaluate", "dropEvidences", "addEvidences", "replaceReport", "dropReport",
               "addReport", "commit"}

\* Any other error inside the evaluation.
EvaluationFails(w) ==
  /\ "abort" \in TaskFault
  /\ step[w] \in Evaluating
  /\ GoOn(w, "failed")
  /\ UNCHANGED <<vars, queue, evidences, reports, keyShare, task, runs>>

\* What an evaluation failed of: the unique report, or anything else.  The type of the
\* error is part of the identity of its observation.
Failures == {"conflict", "failed"}

ErrorPlan(failure) == <<[op |-> "observe", type |-> "SYSTEM_ERROR", key |-> failure]>>

\* The evaluation is rolled back first, then its error is recorded.
RecordError(w) ==
  /\ step[w] \in Failures
  /\ keyShare' = [keyShare EXCEPT ![task[w].call] = @ \ {w}]
  /\ Begin(w, task[w].call, ErrorPlan(step[w]))
  /\ GoOn(w, "errorTxn")
  /\ UNCHANGED <<queue, evidences, reports, task, runs>>

\* The flag of a blocking code, if the report has it.
FlagPlan(code, codes) ==
  IF code \in codes THEN <<[op |-> "observe", type |-> "SYSTEM_FLAG_RAISED", key |-> code]>> ELSE << >>

\* One timing observation and one flag per blocking flag, in the order of the report.
ObservationPlan(codes) ==
  <<[op |-> "observe", type |-> "SYSTEM_LATENCY_MEASURED", key |-> "evidence_evaluation"]>> \o
  (FlagPlan("session_failed", codes) \o
   (FlagPlan("goal_not_completed", codes) \o FlagPlan("unrecovered_error", codes)))

RecordObservations(w) ==
  /\ step[w] = "observe"
  /\ Begin(w, task[w].call, ObservationPlan(BlockingFlags(Row(w).findings)))
  /\ GoOn(w, "observeTxn")
  /\ UNCHANGED <<queue, evidences, reports, keyShare, task, runs>>

\* Best effort; the task ends, having raised if the evaluation failed.
Observed(w) ==
  /\ step[w] \in {"errorTxn", "observeTxn"}
  /\ Commit(w) \/ Refuse(w) \/ ("abort" \in TaskFault /\ Abort(w))
  /\ EndTask(w)
  /\ UNCHANGED <<queue, evidences, reports, keyShare, runs>>

\* The worker process dies, or the marker's transaction fails: the task was acknowledged
\* when taken and is not retried.
Kill(w) ==
  /\ "kill" \in TaskFault
  /\ step[w] # "idle"
  /\ IF txn[w].phase = "idle" THEN UNCHANGED vars ELSE Abort(w)
  /\ keyShare' = [c \in Call |-> keyShare[c] \ {w}]
  /\ EndTask(w)
  /\ UNCHANGED <<queue, evidences, reports, runs>>

------------------------------------------------------------------------------
\* Plan holds every plan a worker runs.
ASSUME TaskPlans ==
  /\ MarkerPlan \in Plan
  /\ \A failure \in Failures : ErrorPlan(failure) \in Plan
  /\ \A s \in {"content", "silence", "judge"} : StagePlans(s) \ {<< >>} \subseteq Plan
  /\ \A codes \in SUBSET {"session_failed", "goal_not_completed", "unrecovered_error"} :
       ObservationPlan(codes) \in Plan

TaskStep(w) ==
  \/ Mark(w) \/ NotEvaluable(w) \/ TaskStatement(w) \/ Marked(w)
  \/ Enrich(w) \/ Enriched(w)
  \/ Reload(w) \/ FindEvidences(w) \/ DropEvidences(w) \/ AddEvidences(w)
  \/ FindReport(w) \/ DropReport(w) \/ AddReport(w) \/ CommitEvaluation(w)
  \/ EvaluationFails(w) \/ RecordError(w) \/ RecordObservations(w) \/ Observed(w)

TaskNext ==
  \E w \in Worker :
    \/ \E c \in Call : Accept(w, c)
    \/ TaskStep(w)
    \/ Kill(w)

------------------------------------------------------------------------------
(* Properties.                                                                 *)

Rows == [run : Nat \ {0},
         findings : [turns : Nat, flags : Nat, errors : Nat, silence : BOOLEAN, failed : BOOLEAN,
                     goal : {"achieved", "failed", "unknown"}]]

TaskTypeOK ==
  /\ TypeOK /\ QueueTypeOK
  /\ evidences \in [Call -> SUBSET Rows]
  /\ reports \in [Call -> SUBSET Rows]
  /\ keyShare \in [Call -> SUBSET Worker]
  /\ step \in [Worker -> Steps]
  /\ task \in [Worker -> [call : Call \union {None}, loaded : SUBSET Event, run : Nat,
                          oldEvidences : SUBSET Rows, oldReports : SUBSET Rows]]
  /\ runs \in 0..MaxRun

\* A session has one report (evaluation_reports.session_id is unique), also when two
\* tasks evaluate it at once.
OneReport == \A c \in Call : Cardinality(reports[c]) <= 1

\* "replace any existing ones ... to stay idempotent" (add_evidences): the evidences of a
\* session all come from one evaluation.
EvidencesReplaced == \A c \in Call : Cardinality(evidences[c]) <= 1

\* A report can be audited: it is there only with the evidences it was computed from, on
\* a closed session whose trace holds the marker.
ReportAuditable ==
  \A c \in Call : \A r \in reports[c] :
    /\ \E e \in evidences[c] : e = r
    /\ sessionRow[c] \in Closed
    /\ "SESSION_EVALUATION_TRIGGERED" \in Types(trace[c])

\* The events of E up to a sequence number.
UpTo(E, n) == {e \in E : e.seq <= n}

TurnId(i) == <<Turns[i].type, Turns[i].key, 0>>

\* What an enrichment adds is there as a whole or not at all: all turns of the report or
\* none, and no topic change without the goal of the same verdict.
Whole(E) ==
  /\ \A i, j \in 1..Len(Turns) : TurnId(i) \in Ids(E) => TurnId(j) \in Ids(E)
  /\ "CONVERSATION_TOPIC_CHANGE" \in Types(E) =>
       Types(E) \intersect {"CONVERSATION_GOAL_ACHIEVED", "CONVERSATION_GOAL_FAILED"} # {}

\* A failed enrichment leaves its fact absent from a report, never a part of it: a report
\* says what the trace said at one moment after its marker, when each enrichment was there
\* as a whole or not at all (tasks.py, the isolated best-effort transactions, the reload).
ReportOfTrace ==
  \A c \in Call : \A r \in reports[c] :
    \E last \in trace[c] :
      LET E == UpTo(trace[c], last.seq) IN
      /\ "SESSION_EVALUATION_TRIGGERED" \in Types(E)
      /\ Whole(E)
      /\ r.findings = Findings(E)

\* Evidence is built from the reloaded trace: no report misses the turns and the silence
\* its task recorded, when no enrichment fails (tasks.py, the order of the stages).
ReportSeesEnrichment ==
  \A c \in Call : \A r \in reports[c] :
    /\ HasSilence => r.findings.silence
    /\ r.findings.turns >= Len(Turns)

\* "re-evaluating replaces it, so scoring stays idempotent" (db/models.py:137): a report
\* that replaces another of the same goal, so that the judge changed nothing, says the same.
ScoringIdempotent ==
  [][\A c \in Call : \A old \in reports[c], new \in reports'[c] :
       old.findings.goal = new.findings.goal => old.findings = new.findings]_allTaskVars
===============================================================================
