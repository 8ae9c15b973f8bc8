----------------------------- MODULE Accounting -----------------------------
(***************************************************************************)
(* Rsufz together with the counters the processes export                   *)
(* (internal/adapter/metrics/prom/metrics.go) and a history of how often   *)
(* the handler of each task was started.                                   *)
(*                                                                         *)
(* No code reads the counters, so they are functions of the steps of       *)
(* Rsufz: process counts an outcome when the handler has returned, before  *)
(* it is stored; a task of an unregistered type is failed without being    *)
(* counted; the scheduler counts a dispatch after its publish.  A shutdown *)
(* while a handler runs is counted as a failure that is then not stored    *)
(* (execute.go:132-148): the step of HandlerError to "fail", and then a    *)
(* CallError or WorkerStop.  A worker that is killed counts nothing.  A    *)
(* counter here is the sum over the processes of everything ever counted.  *)
(* The gauge of pending tasks is never set by any code, and latencies and  *)
(* durations are left out.                                                 *)
(***************************************************************************)
EXTENDS Rsufz

VARIABLES metrics,     \* the counters
          executions   \* history: starts of the handler of each task

accountingVars == <<vars, metrics, executions>>

AccountingInit ==
  /\ Init
  /\ metrics = [enqueued |-> 0, dispatched |-> 0, completed |-> 0, failed |-> 0, retried |-> 0]
  /\ executions = [t \in TaskID |-> 0]

\* The workers whose process goes from one place to another in this step.
Moving(from, to) == {w \in WorkerID : pc[w] = from /\ pc'[w] = to}

\* Wrong counters that count an outcome once it is stored.
CountedStored ==
  [enqueued   |-> Cardinality({t \in TaskID : tasks[t].status = "absent" /\ tasks'[t].status # "absent"}),
   dispatched |-> Len(stream') - Len(stream),
   completed  |-> Cardinality(Moving("complete", "ack")),
   failed     |-> Cardinality(Moving("fail", "dlq")),
   retried    |-> Cardinality(Moving("retry", "ack"))]

Counted ==
  [enqueued   |-> Cardinality({t \in TaskID : tasks[t].status = "absent" /\ tasks'[t].status # "absent"}),
   dispatched |-> Len(stream') - Len(stream),
   completed  |-> Cardinality(Moving("run", "complete")),
   failed     |-> Cardinality(Moving("run", "fail")),
   retried    |-> Cardinality(Moving("run", "retry"))]

Account ==
  /\ metrics' = [c \in DOMAIN metrics |-> metrics[c] + Counted[c]]
  /\ executions' = [t \in TaskID |->
                      executions[t] + Cardinality({w \in Moving("get", "run") : TaskOf(w) = t})]

AccountingNext == Next /\ Account

AccountingSpec == AccountingInit /\ [][AccountingNext]_accountingVars

-----------------------------------------------------------------------------
\* The executions RetryLimit stands for: at least one.
Allowed(t) == IF tasks[t].retry_limit > 1 THEN tasks[t].retry_limit ELSE 1

(***************************************************************************)
(* "The maximal number of attempts" (task.go:63): as long as nothing       *)
(* fails, the handler of a task is started at most RetryLimit times, or    *)
(* once if that is zero.  A reset by the monitor (repo.go:505) and a       *)
(* redelivery do not count as attempts; while workers live and store their *)
(* outcomes neither adds a start.  After a worker's death it may.          *)
(***************************************************************************)
ExecutionsWithinLimit ==
  faults = 0 => \A t \in TaskID : Exists(t) => executions[t] <= Allowed(t)

(***************************************************************************)
(* "How many attempts there have been" (task.go:62): as long as nothing    *)
(* fails, AttemptCount of a task that waits is the number of starts of its *)
(* handler, and of a task that runs, that number or one less: markRetry    *)
(* (execute.go:179-205) writes the number the process computed from its    *)
(* own copy of the task, not the number in the store.  A finished task     *)
(* always shows one less, contrary to the comment: markCompleted and       *)
(* markFailed (execute.go:164-177, 207-215) leave the stored number alone, *)
(* so a task that failed after RetryLimit attempts shows RetryLimit - 1.   *)
(***************************************************************************)
AttemptsRecorded ==
  faults = 0 =>
    \A t \in TaskID :
      /\ tasks[t].status = "pending" => executions[t] = tasks[t].attempt_count
      /\ tasks[t].status = "running" =>
           executions[t] \in {tasks[t].attempt_count, tasks[t].attempt_count + 1}
      /\ tasks[t].status \in {"completed", "failed"} /\ tasks[t].type = "registered" =>
           executions[t] = tasks[t].attempt_count + 1

-----------------------------------------------------------------------------
\* The workers about to store an outcome they have counted.
Storing(place) ==
  Cardinality({w \in WorkerID : pc[w] = place /\ tasks[TaskOf(w)].type = "registered"})

\* The tasks a worker has a handler for that are in status s.
Having(s) == Cardinality({t \in TaskID : tasks[t].status = s /\ tasks[t].type = "registered"})

\* The recorded attempts, numbered.
Attempts == UNION {{t} \X (1..tasks[t].attempt_count) : t \in TaskID}

(***************************************************************************)
(* As long as nothing fails and no client cancels or republishes, no       *)
(* outcome is counted that is not stored or about to be: outcomes are      *)
(* counted first (execute.go:144-156), and neither a second execution nor  *)
(* a refusal of the store leaves one that is counted too often.            *)
(***************************************************************************)
CountedIsStored ==
  faults = 0 =>
    /\ metrics.completed <= Having("completed") + Storing("complete")
    /\ metrics.failed <= Having("failed") + Storing("fail")
    /\ metrics.retried = Cardinality(Attempts) + Storing("retry")

(***************************************************************************)
(* No outcome in the store goes uncounted, whatever fails and whatever     *)
(* clients do: process counts before it stores (execute.go:144-156), so    *)
(* neither a lost reply of the store nor a worker that dies after the      *)
(* commit hides a finished task from the counters.                         *)
(***************************************************************************)
OutcomesCounted ==
  /\ Having("completed") + Storing("complete") <= metrics.completed
  /\ Having("failed") + Storing("fail") <= metrics.failed
=============================================================================
