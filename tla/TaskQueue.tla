------------------------------ MODULE TaskQueue -------------------------------
(* The Celery broker: build_session_evidences tasks, named by their session.   *)
(* The broker keeps no order the code relies on and does not deduplicate, so a *)
(* queue is the number of pending tasks of each session.  Workers acknowledge  *)
(* a task when they take it and the task declares no retry, so that a task     *)
(* taken is gone.                                                              *)
EXTENDS Identifiers, Naturals

VARIABLE queue

QueueInit == queue = [c \in Call |-> 0]

QueueTypeOK == queue \in [Call -> Nat]

\* build_session_evidences.delay(session_id)
Enqueue(c) == queue' = [queue EXCEPT ![c] = @ + 1]

\* A worker receives and acknowledges a task.
Take(c) == queue[c] > 0 /\ queue' = [queue EXCEPT ![c] = @ - 1]
===============================================================================
