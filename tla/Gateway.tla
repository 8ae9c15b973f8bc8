------------------------------ MODULE Gateway -------------------------------
(***************************************************************************)
(* The API gateway's operations on tasks (internal/usecase/enqueue.go and  *)
(* tasks.go): each is one call of the store.  A request that fails (a      *)
(* missing dependency, a transition the status forbids) changes nothing.   *)
(***************************************************************************)
EXTENDS TaskRepo

CONSTANT Cmds  \* the commands clients send, after Validate

ASSUME GatewayAssumption ==
  Cmds \subseteq [type : TaskType, priority : 0..PriorityMax, retry_limit : Int,
                  wait : Nat, key : Key \cup {NoKey}]

\* EnqueueUseCase.Handle of a command without an idempotency key; IdempotentEnqueue
\* has the steps of a command with one.
Enqueue(t, cmd, D) == cmd.key = NoKey /\ Create(t, cmd, D)

\* CancelUseCase.Handle.
Cancel(t) == UpdateTask(t, "cancelled", tasks[t])

\* RepublishUseCase.Handle; scheduled_at and worker_id keep their values.
Republish(t) == UpdateTask(t, "pending", [tasks[t] EXCEPT !.attempt_count = 0])
=============================================================================
