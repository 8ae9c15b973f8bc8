---------------------------- MODULE TaskLifecycle ---------------------------
(***************************************************************************)
(* What rsufz promises about a task, with no store, broker, scheduler or   *)
(* worker in sight: the state machine of internal/domain/task.go plus the  *)
(* rule that a task starts only after everything it depends on.  Rsufz is  *)
(* shown to implement it.                                                  *)
(***************************************************************************)
CONSTANT TaskID

VARIABLES status,      \* status of every task, "absent" before it is created
          deps         \* the tasks it depends on

Init ==
  /\ status = [t \in TaskID |-> "absent"]
  /\ deps = [t \in TaskID |-> {}]

\* A task is created after the tasks it depends on, so dependencies are acyclic.
Create(t, D) ==
  /\ status[t] = "absent"
  /\ \A d \in D : status[d] # "absent"
  /\ status' = [status EXCEPT ![t] = "pending"]
  /\ deps' = [deps EXCEPT ![t] = D]

\* Tasks S change to status next, and nothing else changes.
Become(S, next) ==
  /\ status' = [t \in TaskID |-> IF t \in S THEN next ELSE status[t]]
  /\ UNCHANGED deps

Start(S) ==
  /\ \A t \in S : status[t] = "pending" /\ \A d \in deps[t] : status[d] = "completed"
  /\ Become(S, "running")

Requeue(S) ==
  /\ \A t \in S : status[t] \in {"running", "failed"}
  /\ Become(S, "pending")

Finish(t, next) ==
  /\ status[t] = "running"
  /\ next \in {"completed", "failed"}
  /\ Become({t}, next)

Cancel(t) ==
  /\ status[t] = "pending"
  /\ Become({t}, "cancelled")

Next ==
  \/ \E t \in TaskID, D \in SUBSET TaskID : Create(t, D)
  \/ \E S \in SUBSET TaskID : Start(S) \/ Requeue(S)
  \/ \E t \in TaskID, next \in {"completed", "failed"} : Finish(t, next)
  \/ \E t \in TaskID : Cancel(t)

Spec == Init /\ [][Next]_<<status, deps>>
=============================================================================
