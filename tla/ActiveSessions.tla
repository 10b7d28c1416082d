---------------------------- MODULE ActiveSessions ----------------------------
(* The live store: one Redis hash with an entry per session in progress.  Each *)
(* operation is one command or one Lua script, hence one atomic step.          *)
EXTENDS Identifiers

VARIABLE live

LiveRole == {"agent", "user", None}

\* The fields of a snapshot that more than one kind of message writes: the status as
\* last read from the sessions row, and the two live fields.
LiveEntry == [status : {"active", "ended", "failed"}, speaking : LiveRole, interrupted : BOOLEAN]

LiveInit == live = [c \in Call |-> None]

LiveTypeOK == live \in [Call -> LiveEntry \union {None}]

\* Mutant: the snapshot is written as a whole, live fields included.
OverwriteLifecycle(c, status) ==
  live' = [live EXCEPT ![c] = [status |-> status, speaking |-> None, interrupted |-> FALSE]]

\* upsert_lifecycle: overwrites the lifecycle fields and keeps the live ones, or creates
\* the entry with null live fields.
UpsertLifecycle(c, status) ==
  live' = [live EXCEPT ![c] =
             IF @ = None THEN [status |-> status, speaking |-> None, interrupted |-> FALSE]
             ELSE [@ EXCEPT !.status = status]]

\* mark_ended
MarkEnded(c) == live' = [live EXCEPT ![c] = None]

\* Mutant: a speech update creates the entry it does not find.
SpeakOrCreate(c, role) ==
  live' = [live EXCEPT ![c] =
             IF @ = None THEN [status |-> "active", speaking |-> role, interrupted |-> FALSE]
             ELSE [@ EXCEPT !.speaking = role]]

\* set_speaking_role and mark_interruption merge one field into an existing entry.
SetSpeakingRole(c, role) ==
  live' = IF live[c] = None THEN live ELSE [live EXCEPT ![c].speaking = role]

MarkInterruption(c) ==
  live' = IF live[c] = None THEN live ELSE [live EXCEPT ![c].interrupted = TRUE]
===============================================================================
