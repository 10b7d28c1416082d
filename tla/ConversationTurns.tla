--------------------------- MODULE ConversationTurns ---------------------------
(* What a worker derives from the artifact of a terminal report                *)
(* (adapters/rest/vapi_mapping.py) and the silences it finds in it             *)
(* (application/use_cases/detect_conversation_silence.py).  No state.          *)
(*                                                                             *)
(* The artifact holds one conversation twice: "messagesOpenAIFormatted" has an *)
(* entry per turn and no times, "messages" has rows with times, several of     *)
(* which may belong to one turn.  Times are in seconds; a time that is absent, *)
(* negative or does not parse is NoTime once parsed.                           *)
EXTENDS Integers, Sequences, FiniteSets

CONSTANTS
  NoTime,     \* a boundary that the report does not give
  Threshold   \* SILENCE_THRESHOLD_MS, the shortest gap that counts

ASSUME ThresholdAssumption == Threshold \in Nat \ {0} /\ NoTime \notin Nat

Sets == INSTANCE FiniteSetsExt

------------------------------------------------------------------------------
(* Turns.                                                                      *)

NormaliseRole(role) ==
  CASE role = "bot"  -> "assistant"
    [] role = "user" -> "user"
    [] OTHER         -> "none"

ParseReportTime(raw) == IF raw \in Nat THEN raw ELSE NoTime

NewTurn(turns, row) ==
  [role |-> NormaliseRole(row.role), index |-> Len(turns),
   started |-> ParseReportTime(row.time), ended |-> ParseReportTime(row.endTime)]

Continues(turns, row) == turns # << >> /\ turns[Len(turns)].role = NormaliseRole(row.role)

\* Mutant: a row of an unknown role ends the turn before it.
TakeEveryRow(turns, row) ==
  CASE turns # << >> /\ turns[Len(turns)].role = NormaliseRole(row.role) ->
         [turns EXCEPT ![Len(turns)].ended = ParseReportTime(row.endTime)]
    [] OTHER -> Append(turns, NewTurn(turns, row))

\* One round of the loop of _consolidate_messages_by_turn: a row of an unknown role is
\* passed over, a row of the role that speaks moves the end of its turn.
TakeRow(turns, row) ==
  CASE NormaliseRole(row.role) = "none" -> turns
    [] NormaliseRole(row.role) # "none" /\ Continues(turns, row) ->
         [turns EXCEPT ![Len(turns)].ended = ParseReportTime(row.endTime)]
    [] OTHER -> Append(turns, NewTurn(turns, row))

\* The entries that are turns: system and tool entries and those without text are not.
Spoken(formatted) ==
  SelectSeq(formatted, LAMBDA entry : entry.role \in {"assistant", "user"} /\ entry.text)

\* Mutant: only the number of turns must agree.
AlignedCount(formatted, turns) == Len(Spoken(formatted)) = Len(turns)

\* The two sequences agree in count and roles.
Aligned(formatted, turns) ==
  LET spoken == Spoken(formatted) IN
  /\ Len(spoken) = Len(turns)
  /\ \A i \in 1..Len(turns) : spoken[i].role = turns[i].role

\* derive_conversation_timed_turns; its None and the empty tuple both mean no silence.
TimedTurns(formatted, turns) == IF Aligned(formatted, turns) THEN turns ELSE << >>

------------------------------------------------------------------------------
(* Silences.                                                                   *)

ValidTurn(turn) ==
  /\ turn.started # NoTime /\ turn.ended # NoTime
  /\ turn.started <= turn.ended

\* Mutant: a gap of exactly the threshold is not prolonged.
GapAbove(assistant, user) ==
  /\ assistant.role = "assistant" /\ user.role = "user"
  /\ ValidTurn(assistant) /\ ValidTurn(user)
  /\ user.index > assistant.index
  /\ user.started - assistant.ended > Threshold

Qualifies(assistant, user) ==
  /\ assistant.role = "assistant" /\ user.role = "user"
  /\ ValidTurn(assistant) /\ ValidTurn(user)
  /\ user.index > assistant.index
  /\ user.started - assistant.ended >= Threshold

Intervals(turns) ==
  {[started |-> turns[i].ended, ended |-> turns[i + 1].started, user |-> turns[i + 1].index] :
     i \in {j \in 1..(Len(turns) - 1) : Qualifies(turns[j], turns[j + 1])}}

NoSilence == [count |-> 0, at |-> NoTime]

\* The aggregate is dated by the interval that ends last, wherever it stands.
DetectSilence(turns) ==
  LET intervals == Intervals(turns) IN
  IF intervals = {} THEN NoSilence
  ELSE [count |-> Cardinality(intervals), at |-> Sets!Max({i.ended : i \in intervals})]
===============================================================================
