--------------------------- MODULE MCEvaluationTask ---------------------------
(* Instances of EvaluationTask for TLC: one session as the webhook leaves it,  *)
(* with two deliveries' worth of pending tasks.                                *)
EXTENDS EvaluationTask, TLC

CONSTANTS c1, w1, w2, Outcomes

MCKey == {"none", "evidence_evaluation", "conflict", "session_failed", "goal_not_completed",
          "unrecovered_error", "terminal_failure", "turn0", "turn1", "v1", "two", "achieved", "failed"}

MCTurns == <<[op |-> "content", type |-> "CONVERSATION_AGENT_RESPONSE", key |-> "turn0"],
             [op |-> "content", type |-> "CONVERSATION_USER_INPUT", key |-> "turn1"]>>
OneTurn == <<[op |-> "content", type |-> "CONVERSATION_USER_INPUT", key |-> "turn0"]>>

Achieved == [goal |-> "achieved", topics |-> 0]
Missed   == [goal |-> "failed", topics |-> 2]

OneVerdict == {Missed}
GoodVerdict == {Achieved}
BothVerdicts == {Achieved, Missed}

\* Every plan a worker may run.
MCPlan == {MarkerPlan} \union {ErrorPlan(failure) : failure \in Failures}
            \union UNION {StagePlans(s) : s \in {"content", "silence", "judge"}}
            \union {ObservationPlan(codes) :
                      codes \in SUBSET {"session_failed", "goal_not_completed", "unrecovered_error"}}

E(n, type, key, nonce) == [seq |-> n, type |-> type, key |-> key, nonce |-> nonce]

\* The trace of the session when its tasks are enqueued, by the outcome of the call; the
\* nonces are those of the webhook's transactions.
InitialTrace(status) ==
  CASE status = "ended"  -> {E(1, "SESSION_STARTED", "none", 1), E(2, "SESSION_ENDED", "none", 2)}
    [] status = "failed" -> {E(1, "SESSION_STARTED", "none", 1), E(2, "SESSION_FAILED", "none", 2),
                             E(3, "SYSTEM_ERROR", "terminal_failure", 0)}
    [] status = "active" -> {E(1, "SESSION_STARTED", "none", 1)}
    [] status = "absent" -> {}

MCInit ==
  /\ \E outcome \in Outcomes : /\ sessionRow = [c \in Call |-> outcome]
                              /\ trace = [c \in Call |-> InitialTrace(outcome)]
  /\ rowLock = [c \in Call |-> None]
  /\ txn = [p \in Process |-> Idle]
  /\ begun = 2
  /\ queue = [c \in Call |-> 2]
  /\ TaskInit

Symmetry == Permutations({w1, w2})

Terminating == (\A c \in Call : queue[c] = 0) /\ (\A w \in Worker : step[w] = "idle") /\ UNCHANGED allTaskVars
MCNext == TaskNext \/ Terminating
MCSpec == MCInit /\ [][MCNext]_allTaskVars
===============================================================================
