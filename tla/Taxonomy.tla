------------------------------- MODULE Taxonomy -------------------------------
(* The canonical event taxonomy of the governance trace (domain/enums.py), the *)
(* event sets each append path of the Session aggregate admits                 *)
(* (domain/session.py), and the translation of a Vapi server message into the  *)
(* canonical event it promotes (adapters/rest/vapi_mapping.py).  No state.     *)

Lifecycle == {"SESSION_STARTED", "SESSION_ENDED", "SESSION_FAILED",
              "SESSION_EVALUATION_TRIGGERED"}

Conversation == {"CONVERSATION_TURN_STARTED", "CONVERSATION_TURN_ENDED",
                 "CONVERSATION_AGENT_RESPONSE", "CONVERSATION_USER_INPUT",
                 "CONVERSATION_SILENCE_DETECTED", "CONVERSATION_INTERRUPTION_DETECTED",
                 "CONVERSATION_TOPIC_CHANGE", "CONVERSATION_GOAL_ACHIEVED",
                 "CONVERSATION_GOAL_FAILED"}

System == {"SYSTEM_LATENCY_MEASURED", "SYSTEM_MODEL_INVOCATION", "SYSTEM_ERROR",
           "SYSTEM_WARNING", "SYSTEM_FLAG_RAISED"}

EventType == Lifecycle \union Conversation \union System

\* The events that close a session.
TerminalEvents == {"SESSION_ENDED", "SESSION_FAILED"}

\* What each post-terminal append path of the aggregate admits.
MarkerEvents == {"SESSION_EVALUATION_TRIGGERED"}
SystemObservationEvents == {"SYSTEM_LATENCY_MEASURED", "SYSTEM_ERROR", "SYSTEM_FLAG_RAISED"}
ConversationContentEvents == {"CONVERSATION_AGENT_RESPONSE", "CONVERSATION_USER_INPUT"}
SignalEvents == {"CONVERSATION_SILENCE_DETECTED", "CONVERSATION_TOPIC_CHANGE",
                 "CONVERSATION_GOAL_ACHIEVED", "CONVERSATION_GOAL_FAILED"}

\* The turn lifecycle drives the live store only and is never ingested.
LiveOnlyEvents == {"CONVERSATION_TURN_STARTED", "CONVERSATION_TURN_ENDED"}

------------------------------------------------------------------------------
(* A Vapi message, reduced to the fields the translation looks at.             *)

Role == {"assistant", "user", "other"}

\* endedReason, by the class classify_terminal_event puts it in: "error" stands for
\* the reasons that match one of the failure lists, "clean" for every other string,
\* "none" for an absent, empty or non-string reason.
EndedReason == {"error", "clean", "none"}

ClassifyTerminalEvent(endedReason) ==
  IF endedReason = "error" THEN "SESSION_FAILED" ELSE "SESSION_ENDED"

ResolveRoleMessage(role) ==
  CASE role = "assistant" -> "CONVERSATION_AGENT_RESPONSE"
    [] role = "user"      -> "CONVERSATION_USER_INPUT"
    [] role = "other"     -> "none"

ResolveSpeechUpdate(status, role) ==
  CASE status = "started" -> "CONVERSATION_TURN_STARTED"
    [] status = "stopped" -> "CONVERSATION_TURN_ENDED"
    [] status = "none"    -> ResolveRoleMessage(role)
    [] OTHER              -> "none"

\* Message types that only warn: three by name, and one for each of the prefixes "chat."
\* and "session." that stand for a family of them.
SystemWarningTypes == {"transfer-update", "hang", "language-change-detected",
                       "chat.created", "session.updated"}

\* _resolve: the canonical event a message promotes to, "none" when it only lands raw.
Resolve(m) ==
  CASE m.type = "status-update"           ->
         IF m.status = "in-progress" THEN "SESSION_STARTED" ELSE "none"
    [] m.type = "assistant.started"       -> "SESSION_STARTED"
    [] m.type = "end-of-call-report"      -> ClassifyTerminalEvent(m.endedReason)
    [] m.type = "speech-update"           -> ResolveSpeechUpdate(m.status, m.role)
    [] m.type = "assistant.speechStarted" -> "CONVERSATION_AGENT_RESPONSE"
    [] m.type = "transcript"              -> ResolveRoleMessage(m.role)
    [] m.type = "user-interrupted"        -> "CONVERSATION_INTERRUPTION_DETECTED"
    [] m.type = "model-output"            -> "SYSTEM_MODEL_INVOCATION"
    [] m.type \in SystemWarningTypes       -> "SYSTEM_WARNING"
    [] OTHER                              -> "none"

\* map_vapi_system_observations: the observations a message carries besides its own
\* event, as (type, stable identity) pairs: the terminal error of a failed report and
\* one flag per distinct threat of a transcript, whatever its role resolves to.
SystemObservations(m) ==
  CASE m.type = "end-of-call-report" /\ m.endedReason = "error" ->
         {<<"SYSTEM_ERROR", "terminal_failure">>}
    [] m.type = "transcript" ->
         {<<"SYSTEM_FLAG_RAISED", code>> : code \in m.detectedThreats}
    [] OTHER -> {}
===============================================================================
