------------------------------ MODULE TaskRepo ------------------------------
(***************************************************************************)
(* The task store (internal/adapter/repo/postgres/repo.go and the schema   *)
(* in migrations/001_init.sql).  Every operation of the repository is one  *)
(* transaction (or one statement), so each is one atomic definition here,  *)
(* used by the actions of the components that call it.                     *)
(*                                                                         *)
(* Time is relative.  wait is the number of clock ticks until scheduled_at *)
(* (0: already due) and age the number of ticks since updated_at, so that  *)
(* "scheduled_at <= NOW()" is wait = 0 and "updated_at < NOW() - timeout"  *)
(* is age > timeout.  age stops one past the largest threshold it is       *)
(* compared with.  The clocks of the processes and of the database are one *)
(* clock.                                                                  *)
(*                                                                         *)
(* A row never inserted has status "absent", a row removed by              *)
(* CleanupExpired "deleted": identifiers are UUIDs and are never reused.   *)
(***************************************************************************)
EXTENDS Identifiers, Task, Sequences, FiniteSets

CONSTANTS Key,         \* idempotency keys
          NoKey,       \* idempotency_key IS NULL
          HBTimeout,   \* age past which a running task is reset
          TTL          \* age past which a finished task is deleted; 0: never

ASSUME RepoAssumption ==
  /\ IsFiniteSet(TaskID)
  /\ NoKey \notin Key
  /\ HBTimeout \in Nat
  /\ TTL \in Nat

VARIABLES tasks,       \* table tasks
          deps         \* table task_dependencies

repoVars == <<tasks, deps>>

Row == [status        : Status \cup {"absent", "deleted"},
        type          : TaskType,
        priority      : 0..PriorityMax,
        retry_limit   : Int,
        attempt_count : Nat,
        wait          : Nat,
        age           : Nat,
        worker_id     : WorkerID \cup {NoWorker},
        key           : Key \cup {NoKey}]

NoRow == [status |-> "absent", type |-> "unregistered", priority |-> 0,
          retry_limit |-> 0, attempt_count |-> 0, wait |-> 0, age |-> 0,
          worker_id |-> NoWorker, key |-> NoKey]

RepoTypeOK ==
  /\ tasks \in [TaskID -> Row]
  /\ deps \in [TaskID -> SUBSET TaskID]

RepoInit ==
  /\ tasks = [t \in TaskID |-> NoRow]
  /\ deps = [t \in TaskID |-> {}]

Exists(t) == tasks[t].status \in Status

\* A wrong schema without the unique constraint on idempotency_key.
CreatableAnyKey(t, cmd, D) == tasks[t].status = "absent" /\ \A d \in D : Exists(d)

(***************************************************************************)
(* Create: the row and its dependency rows in one transaction.  A missing  *)
(* dependency breaks the foreign key, a used idempotency key the unique    *)
(* constraint; the transaction is then rolled back and the caller gets an  *)
(* error.  cmd is the command's type, priority, retry_limit, wait and key. *)
(***************************************************************************)
Creatable(t, cmd, D) ==
  /\ tasks[t].status = "absent"
  /\ \A d \in D : Exists(d)
  /\ cmd.key = NoKey \/ \A u \in TaskID : tasks[u].key # cmd.key

Create(t, cmd, D) ==
  /\ Creatable(t, cmd, D)
  /\ tasks' = [tasks EXCEPT ![t] =
                 [status |-> "pending", type |-> cmd.type,
                  priority |-> cmd.priority, retry_limit |-> cmd.retry_limit,
                  attempt_count |-> 0, wait |-> cmd.wait, age |-> 0,
                  worker_id |-> NoWorker, key |-> cmd.key]]
  /\ deps' = [deps EXCEPT ![t] = D]

(***************************************************************************)
(* UpdateTask: SELECT ... FOR UPDATE, mutate, UPDATE.  Every mutate in the *)
(* code starts with TransitionTo(next), whose failure rolls back; row is   *)
(* the locked row with the other fields mutate assigns.                    *)
(***************************************************************************)
UpdateTask(t, next, row) ==
  /\ CanTransition(tasks[t].status, next)
  /\ tasks' = [tasks EXCEPT ![t] = [row EXCEPT !.status = next, !.age = 0]]
  /\ UNCHANGED deps

\* NOT EXISTS (a dependency that is not completed).
Ready(t) == \A d \in deps[t] : tasks[d].status = "completed"

\* A wrong pick that forgets the dependency filter.
DueIgnoringDeps == {t \in TaskID : tasks[t].status = "pending" /\ tasks[t].wait = 0}

Due == {t \in TaskID : tasks[t].status = "pending" /\ tasks[t].wait = 0 /\ Ready(t)}

(***************************************************************************)
(* The result sets of ORDER BY priority DESC, scheduled_at ASC LIMIT limit:*)
(* the order of tasks of one priority that are all due is left open.  No   *)
(* row is locked when an atomic pick runs, so SKIP LOCKED has no effect:   *)
(* a pick that skips the rows of a pick in progress comes after that one.  *)
(***************************************************************************)
Batches(limit) ==
  LET n == IF Cardinality(Due) < limit THEN Cardinality(Due) ELSE limit
  IN  {q \in [1..n -> Due] :
         /\ \A i, j \in 1..n : i < j => /\ q[i] # q[j]
                                        /\ tasks[q[i]].priority >= tasks[q[j]].priority
         /\ \A t \in Due \ {q[i] : i \in 1..n} :
              \A i \in 1..n : tasks[q[i]].priority >= tasks[t].priority}

\* The UPDATE of PickAndMarkRunning: worker_id keeps its old value.
MarkRunning(batch) ==
  /\ tasks' = [t \in TaskID |->
                 IF \E i \in DOMAIN batch : batch[i] = t
                 THEN [tasks[t] EXCEPT !.status = "running", !.age = 0]
                 ELSE tasks[t]]
  /\ UNCHANGED deps

\* A wrong heartbeat that forgets "AND status = 'running'".
BeatAnyStatus(t, w) ==
  tasks' = [tasks EXCEPT ![t] = [@ EXCEPT !.age = 0, !.worker_id = w]]

\* A wrong heartbeat that forgets updated_at.
BeatKeepsAge(t, w) ==
  tasks' = IF tasks[t].status = "running"
           THEN [tasks EXCEPT ![t].worker_id = w]
           ELSE tasks

\* Heartbeat: no row matches (and nothing changes) unless the task runs.
Beat(t, w) ==
  tasks' = IF tasks[t].status = "running"
           THEN [tasks EXCEPT ![t] = [@ EXCEPT !.age = 0, !.worker_id = w]]
           ELSE tasks

\* A wrong monitor that only looks at tasks some worker has taken.
StuckTaken == {t \in TaskID : tasks[t].status = "running" /\ tasks[t].age > HBTimeout
                              /\ tasks[t].worker_id # NoWorker}

\* The rows the monitor's UPDATE matches.
Stuck == {t \in TaskID : tasks[t].status = "running" /\ tasks[t].age > HBTimeout}

ResetStuckRunning ==
  /\ tasks' = [t \in TaskID |->
                 IF t \in Stuck
                 THEN [tasks[t] EXCEPT !.status = "pending", !.worker_id = NoWorker,
                                       !.age = 0]
                 ELSE tasks[t]]
  /\ UNCHANGED deps

\* A wrong cleanup that takes failed tasks too.
ExpiredFailedToo ==
  {t \in TaskID : /\ TTL # 0 /\ tasks[t].age > TTL
                  /\ tasks[t].status \in {"completed", "failed", "cancelled"}}

Expired ==
  {t \in TaskID : TTL # 0 /\ tasks[t].status \in {"completed", "cancelled"} /\ tasks[t].age > TTL}

\* CleanupExpired; the dependency rows on either side go too (ON DELETE CASCADE).
CleanupExpired ==
  /\ tasks' = [t \in TaskID |->
                 IF t \in Expired THEN [NoRow EXCEPT !.status = "deleted"] ELSE tasks[t]]
  /\ deps' = [t \in TaskID |-> IF t \in Expired THEN {} ELSE deps[t] \ Expired]

\* The clock ticks: rows come due and grow old.
AgeCap(status) ==
  CASE status = "running"                              -> HBTimeout + 1
    [] status \in {"completed", "failed", "cancelled"} -> IF TTL = 0 THEN 0 ELSE TTL + 1
    [] OTHER                                           -> 0

RowsAge ==
  tasks' = [t \in TaskID |->
              [tasks[t] EXCEPT !.wait = IF @ > 0 THEN @ - 1 ELSE 0,
                               !.age  = IF @ < AgeCap(tasks[t].status) THEN @ + 1 ELSE @]]
=============================================================================
