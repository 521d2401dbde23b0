--------------------------- MODULE TaskLifecycle ---------------------------
(***************************************************************************)
(* What the table scraping_tasks promises to the owner of a task when      *)
(* every message is delivered once and every reported error is one: a task *)
(* moves forward through its statuses, ends in exactly one final status    *)
(* and has a result exactly when that status is SUCCESS.                   *)
(* TaskPipeline implements this specification.                             *)
(***************************************************************************)
CONSTANT Tasks

VARIABLES
  phase,    \* phase[t]: the status of t, or "unknown" while it has no row
  result    \* result[t]: whether a result can be read

vars == <<phase, result>>

Init ==
  /\ phase = [t \in Tasks |-> "unknown"]
  /\ result = [t \in Tasks |-> FALSE]

\* The row appears; a refused prompt may make it appear as FAILED.
Record(t) ==
  /\ phase[t] = "unknown"
  /\ \E s \in {"PENDING", "FAILED"} : phase' = [phase EXCEPT ![t] = s]
  /\ UNCHANGED result

Start(t) ==
  /\ phase[t] = "PENDING"
  /\ phase' = [phase EXCEPT ![t] = "IN_PROGRESS"]
  /\ UNCHANGED result

Succeed(t) ==
  /\ phase[t] = "IN_PROGRESS"
  /\ phase' = [phase EXCEPT ![t] = "SUCCESS"]
  /\ result' = [result EXCEPT ![t] = TRUE]

Fail(t) ==
  /\ phase[t] \in {"PENDING", "IN_PROGRESS"}
  /\ phase' = [phase EXCEPT ![t] = "FAILED"]
  /\ UNCHANGED result

Next == \E t \in Tasks : Record(t) \/ Start(t) \/ Succeed(t) \/ Fail(t)

Spec == Init /\ [][Next]_vars

\* A task that is known is worked on until it ends.
Progress(t) == Start(t) \/ Succeed(t) \/ Fail(t)

Progresses(t) == WF_vars(Progress(t))

FairSpec == Spec /\ \A t \in Tasks : Progresses(t)
=============================================================================
