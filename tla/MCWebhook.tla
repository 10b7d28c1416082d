------------------------------ MODULE MCWebhook -------------------------------
(* Instances of Webhook for TLC: one call of one agent, two request handlers,  *)
(* and the messages that meet in one hazard each.                              *)
EXTENDS Webhook, TLC

CONSTANTS c1, a1, h1, h2

MCAgentOf == [c \in Call |-> a1]
MCKey == {"none", "terminal_failure", "ingestion", "injection"}

Started == [type |-> "status-update", call |-> c1, status |-> "in-progress"]
Joined  == [type |-> "assistant.started", call |-> c1]
Speech  == [type |-> "speech-update", call |-> c1, status |-> "started", role |-> "user"]
Silent  == [type |-> "speech-update", call |-> c1, status |-> "stopped", role |-> "user"]
Barge   == [type |-> "user-interrupted", call |-> c1]
Failed  == [type |-> "end-of-call-report", call |-> c1, endedReason |-> "error"]

LiveMessages == {Started, Joined, Speech, Silent, Barge, Failed}
FewMessages  == {Started, Failed}

\* Every plan a handler may run.
MCPlan == UNION {{OwnCommand(m) \o ObserveCommands(m), ObserveCommands(m)} : m \in Message}
            \union {LatencyPlan}

Symmetry == Permutations({h1, h2})

Drained == \A m \in Message : delivered[m] = MaxDelivery
Terminating == Drained /\ (\A h \in Handler : pc[h] = "idle") /\ UNCHANGED allWebhookVars
MCNext == WebhookNext \/ Terminating
MCSpec == WebhookInit /\ [][MCNext]_allWebhookVars
===============================================================================
