-------------------------------- MODULE Task --------------------------------
(***************************************************************************)
(* The domain object of rsufz (internal/domain/task.go): the status of a   *)
(* background task, the transitions its state machine allows and the retry *)
(* rule.  Pure definitions, no state.                                      *)
(*                                                                         *)
(* Payload, result, last error and creation time are carried by the code   *)
(* and never looked at by it; they are left out.  A task type is reduced   *)
(* to the one thing the code asks of it: does the worker's registry hold a *)
(* handler for it.                                                         *)
(***************************************************************************)
EXTENDS Integers

Status == {"pending", "running", "completed", "failed", "cancelled"}

TaskType == {"registered", "unregistered"}

\* Priority 0..10, larger is more urgent.
PriorityMax == 10

allowedTransitions ==
  [s \in Status |->
     CASE s = "pending"   -> {"running", "cancelled"}
       [] s = "running"   -> {"completed", "failed", "pending"}
       [] s = "failed"    -> {"pending"}
       [] s = "completed" -> {}
       [] s = "cancelled" -> {}]

\* A wrong TransitionTo that forgets to consult the table.
TransitionUnchecked(from, next) == from \in Status

\* TransitionTo(next) succeeds in status from.
CanTransition(from, next) == from \in Status /\ next \in allowedTransitions[from]

\* A wrong CanRetry that lets one attempt too many through.
CanRetryOffByOne(attemptCount, retryLimit) == attemptCount <= retryLimit

CanRetry(attemptCount, retryLimit) == attemptCount < retryLimit
=============================================================================
