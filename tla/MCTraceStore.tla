----------------------------- MODULE MCTraceStore -----------------------------
(* Instances of TraceStore for TLC: the plans the webhook and the evaluation   *)
(* task really run, on one call and a few concurrent processes.                *)
EXTENDS TraceStoreInvariant, TLC

CONSTANTS c1, p1, p2, p3

Cmd(op, type, key) == [op |-> op, type |-> type, key |-> key]
Ingest(type) == Cmd("ingest", type, "none")

MCKey == {"none", "report", "threat", "op", "turn0", "v1", "v2"}

StartPlan   == <<Ingest("SESSION_STARTED")>>
ThreatPlan  == <<Ingest("CONVERSATION_USER_INPUT"), Cmd("observe", "SYSTEM_FLAG_RAISED", "threat")>>
FailPlan    == <<Ingest("SESSION_FAILED"), Cmd("observe", "SYSTEM_ERROR", "report")>>
EndPlan     == <<Ingest("SESSION_ENDED")>>
ErrorPlan   == <<Cmd("observe", "SYSTEM_ERROR", "report")>>
MarkerPlan  == <<Cmd("marker", "SESSION_EVALUATION_TRIGGERED", "none")>>
ContentPlan == <<Cmd("content", "CONVERSATION_USER_INPUT", "turn0")>>
SilencePlan(v) == <<Cmd("signal", "CONVERSATION_SILENCE_DETECTED", v)>>

OrphanPlan  == <<Cmd("observe", "SYSTEM_FLAG_RAISED", "threat"),
                 Cmd("observe", "SYSTEM_FLAG_RAISED", "op")>>

MCPlan == {StartPlan, ThreatPlan, FailPlan, EndPlan, ErrorPlan, MarkerPlan,
           ContentPlan, SilencePlan("v1"), SilencePlan("v2"), OrphanPlan}

SmallPlan == {StartPlan, EndPlan, ThreatPlan, ErrorPlan}

Processes == Permutations({p1, p2, p3})

Terminating == begun = MaxTxn /\ (\A p \in Process : txn[p] = Idle) /\ UNCHANGED vars
MCNext == Next \/ Terminating
MCSpec == Init /\ [][MCNext]_vars
===============================================================================
