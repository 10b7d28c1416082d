------------------------------ MODULE MCPlatform ------------------------------
(* Instances of Platform for TLC.                                              *)
EXTENDS Platform, TLC

CONSTANTS c1, a1, h1, h2, w1, w2

MCAgentOf == [c \in Call |-> a1]
MCKey == {"none", "terminal_failure", "ingestion", "injection", "evidence_evaluation", "conflict",
          "session_failed", "goal_not_completed", "unrecovered_error", "turn0", "v1", "achieved", "failed"}

Started == [type |-> "status-update", call |-> c1, status |-> "in-progress"]
Ended   == [type |-> "end-of-call-report", call |-> c1, endedReason |-> "clean"]
Failed  == [type |-> "end-of-call-report", call |-> c1, endedReason |-> "error"]
Orphan  == [type |-> "transcript", call |-> c1, role |-> "other", detectedThreats |-> {"injection"}]

FailMessages == {Failed, Orphan}
EndMessages  == {Started, Ended}

MCTurns == <<[op |-> "content", type |-> "CONVERSATION_USER_INPUT", key |-> "turn0"]>>
NoTurns == << >>
MCVerdict == {[goal |-> "achieved", topics |-> 0]}
NoVerdict == {}

MCPlan == UNION {{OwnCommand(m) \o ObserveCommands(m), ObserveCommands(m)} : m \in Message}
            \union {LatencyPlan, MarkerPlan} \union {ErrorPlan(failure) : failure \in Failures}
            \union UNION {StagePlans(s) : s \in {"content", "silence", "judge"}}
            \union {ObservationPlan(codes) :
                      codes \in SUBSET {"session_failed", "goal_not_completed", "unrecovered_error"}}

Symmetry == Permutations({h1, h2})

Terminating ==
  /\ \A m \in Message : delivered[m] = MaxDelivery
  /\ \A h \in Handler : pc[h] = "idle"
  /\ \A w \in Worker : step[w] = "idle"
  /\ \A c \in Call : queue[c] = 0
  /\ UNCHANGED allVars
MCNext == PlatformNext \/ Terminating
MCSpec == PlatformInit /\ [][MCNext]_allVars
===============================================================================
