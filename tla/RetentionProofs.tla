--------------------------- MODULE RetentionProofs ---------------------------
(***************************************************************************)
(* CleanupExpired deletes finished tasks and the dependency rows on both   *)
(* sides of them.  This lets no task start early, except past a            *)
(* dependency that was cancelled, for every number of tasks, workers,      *)
(* schedulers, messages and failures and every retention time.             *)
(***************************************************************************)
EXTENDS Retention, RsufzProofs

retentionVars == <<vars, declared, done, dropped>>

-----------------------------------------------------------------------------
(* The invariant. *)

Begun == {"running", "completed", "failed"}

\* The dependencies that hold nobody back any more.
Over == done \cup dropped

\* The scheduler has picked t at least once and some trace of it is left.
Started(t) ==
  \/ tasks[t].status \in Begun
  \/ \E s \in SchedulerID : t \in Members(outbox[s])
  \/ \E m \in 1..Len(stream) : stream[m] = t

HistoryTypeOK == declared \in [TaskID -> SUBSET TaskID] /\ Over \subseteq TaskID

\* done remembers the completed tasks.
CompletedDone == \A t \in TaskID : tasks[t].status = "completed" => t \in done

\* A dependency without a row in task_dependencies any more is over.
DeclaredKept ==
  \A t \in TaskID : tasks[t].status # "deleted" => declared[t] \subseteq deps[t] \cup Over

\* The declared dependencies of what was dispatched once are over.
StartedDone ==
  \A t \in TaskID : Started(t) => tasks[t].status # "absent" /\ declared[t] \subseteq Over

RetentionInv == TypeInv /\ HistoryTypeOK /\ CompletedDone /\ DeclaredKept /\ StartedDone

-----------------------------------------------------------------------------
(* What a step does to one task. *)

\* Rows do not vanish or come back, keep their dependencies, and begin only when ready.
TaskStep(t) ==
  /\ tasks[t].status # "absent" => tasks'[t].status # "absent" /\ deps'[t] = deps[t]
  /\ tasks'[t].status \in Begun =>
       tasks[t].status \in Begun \/ (tasks[t].status = "pending" /\ Ready(t))
  /\ tasks[t].status = "deleted" => tasks'[t].status = "deleted"

LEMMA TaskSteps ==
  ASSUME TypeInv, [Next]_vars, NEW t \in TaskID
  PROVE  TaskStep(t)
<1> USE DEF TypeInv, TypeOK
<1>0. Stat[t] = tasks[t].status /\ Stat'[t] = tasks'[t].status
  BY DEF Stat
<1>1. SUFFICES /\ Stat[t] # "absent" => Stat'[t] # "absent" /\ deps'[t] = deps[t]
               /\ Stat'[t] \in Begun =>
                    Stat[t] \in Begun \/ (Stat[t] = "pending" /\ Ready(t))
               /\ Stat[t] = "deleted" => Stat'[t] = "deleted"
  BY <1>0 DEF TaskStep
<1>2. CASE UNCHANGED <<Stat, deps>>
  BY <1>2
<1>3. ASSUME NEW u \in TaskID, NEW D \in SUBSET TaskID, Lifecycle!Create(u, D)
      PROVE  /\ Stat[t] # "absent" => Stat'[t] # "absent" /\ deps'[t] = deps[t]
             /\ Stat'[t] \in Begun =>
                  Stat[t] \in Begun \/ (Stat[t] = "pending" /\ Ready(t))
             /\ Stat[t] = "deleted" => Stat'[t] = "deleted"
  <2>1. Stat[u] = "absent" /\ Stat' = [Stat EXCEPT ![u] = "pending"]
        /\ deps' = [deps EXCEPT ![u] = D]
    BY <1>3 DEF Lifecycle!Create, Stat
  <2> QED
    BY <2>1 DEF Begun, Stat, RepoTypeOK
<1>4. ASSUME NEW S \in SUBSET TaskID, Lifecycle!Start(S)
      PROVE  /\ Stat[t] # "absent" => Stat'[t] # "absent" /\ deps'[t] = deps[t]
             /\ Stat'[t] \in Begun =>
                  Stat[t] \in Begun \/ (Stat[t] = "pending" /\ Ready(t))
             /\ Stat[t] = "deleted" => Stat'[t] = "deleted"
  <2>1. /\ Stat'[t] = IF t \in S THEN "running" ELSE Stat[t]
        /\ UNCHANGED deps
    BY <1>4 DEF Lifecycle!Start, Lifecycle!Become, Stat
  <2>2. t \in S => Stat[t] = "pending" /\ Ready(t)
    BY <1>4 DEF Lifecycle!Start, Stat, Ready, RepoTypeOK
  <2> QED
    BY <2>1, <2>2
<1>5. ASSUME NEW S \in SUBSET TaskID, NEW next, next # "absent",
             Stat'[t] = IF t \in S THEN next ELSE Stat[t], UNCHANGED deps,
             t \in S /\ next \in Begun => Stat[t] = "running",
             t \in S => Stat[t] # "deleted"
      PROVE  /\ Stat[t] # "absent" => Stat'[t] # "absent" /\ deps'[t] = deps[t]
             /\ Stat'[t] \in Begun =>
                  Stat[t] \in Begun \/ (Stat[t] = "pending" /\ Ready(t))
             /\ Stat[t] = "deleted" => Stat'[t] = "deleted"
  BY <1>5 DEF Begun
<1>6. ASSUME NEW S \in SUBSET TaskID, Lifecycle!Requeue(S)
      PROVE  /\ "pending" # "absent" /\ "pending" \notin Begun
             /\ Stat'[t] = IF t \in S THEN "pending" ELSE Stat[t]
             /\ UNCHANGED deps
             /\ t \in S => Stat[t] # "deleted"
  BY <1>6 DEF Lifecycle!Requeue, Lifecycle!Become, Stat, Begun
<1>7. ASSUME NEW u \in TaskID, NEW next \in {"completed", "failed"}, Lifecycle!Finish(u, next)
      PROVE  /\ next # "absent" /\ {u} \in SUBSET TaskID
             /\ Stat'[t] = IF t \in {u} THEN next ELSE Stat[t]
             /\ UNCHANGED deps
             /\ t \in {u} => Stat[t] = "running"
  BY <1>7 DEF Lifecycle!Finish, Lifecycle!Become, Stat
<1>8. ASSUME NEW u \in TaskID, Lifecycle!Cancel(u)
      PROVE  /\ "cancelled" # "absent" /\ "cancelled" \notin Begun /\ {u} \in SUBSET TaskID
             /\ Stat'[t] = IF t \in {u} THEN "cancelled" ELSE Stat[t]
             /\ UNCHANGED deps
             /\ t \in {u} => Stat[t] # "deleted"
  BY <1>8 DEF Lifecycle!Cancel, Lifecycle!Become, Stat, Begun
<1>9. CASE Lifecycle!Next
  BY <1>3, <1>4, <1>5, <1>6, <1>7, <1>8, <1>9 DEF Lifecycle!Next
<1> QED
  BY <1>2, <1>9, LifecycleStep

\* A task that has started after a step had started before it or was ready.
LEMMA StartedStep ==
  ASSUME TypeInv, [Next]_vars, NEW t \in TaskID, Started(t)'
  PROVE  Started(t) \/ (Exists(t) /\ Ready(t))
<1>1. /\ \A s \in SchedulerID : \A u \in Members(outbox[s])' :
           u \in Due \/ \E v \in SchedulerID : u \in Members(outbox[v])
      /\ \A m \in 1..Len(stream)' :
           \/ \E k \in 1..Len(stream) : stream'[m] = stream[k]
           \/ \E v \in SchedulerID : stream'[m] \in Members(outbox[v])
  BY DispatchStep
<1>2. \A u \in Due : Exists(u) /\ Ready(u)
  BY DEF Due, Exists, Status
<1>3. CASE tasks'[t].status \in Begun
  BY <1>3, TaskSteps DEF TaskStep, Started, Exists, Status
<1>4. CASE \E s \in SchedulerID : t \in Members(outbox[s])'
  BY <1>1, <1>2, <1>4 DEF Started
<1>5. CASE \E m \in 1..Len(stream)' : stream'[m] = t
  BY <1>1, <1>5 DEF Started
<1> QED
  BY <1>3, <1>4, <1>5 DEF Started

-----------------------------------------------------------------------------
(* The steps. *)

LEMMA NextKeeps ==
  ASSUME RetentionInv, Next, Remember
  PROVE  RetentionInv'
<1> USE DEF RetentionInv
<1>1. TypeInv'
  BY TypeInvNext
<1>2. /\ deps \in [TaskID -> SUBSET TaskID] /\ deps' \in [TaskID -> SUBSET TaskID]
      /\ Over \subseteq Over' /\ done \subseteq Over
      /\ \A t \in TaskID : declared'[t] =
           IF tasks[t].status = "absent" THEN deps'[t] ELSE declared[t]
  BY <1>1 DEF TypeInv, TypeOK, RepoTypeOK, Remember, Over
<1>3. HistoryTypeOK' /\ CompletedDone'
  BY <1>2 DEF HistoryTypeOK, CompletedDone, Remember, Over
<1>4. DeclaredKept'
  <2> SUFFICES ASSUME NEW t \in TaskID, tasks'[t].status # "deleted"
               PROVE  declared'[t] \subseteq deps'[t] \cup Over'
    BY DEF DeclaredKept
  <2>1. CASE tasks[t].status = "absent"
    BY <1>2, <2>1
  <2>2. CASE tasks[t].status # "absent"
    <3>1. deps'[t] = deps[t] /\ tasks[t].status # "deleted"
      BY <2>2, TaskSteps DEF TaskStep
    <3> QED
      BY <1>2, <2>2, <3>1 DEF DeclaredKept
  <2> QED
    BY <2>1, <2>2
<1>5. StartedDone'
  <2> SUFFICES ASSUME NEW t \in TaskID, Started(t)'
               PROVE  tasks'[t].status # "absent" /\ declared'[t] \subseteq Over'
    BY DEF StartedDone
  <2>1. tasks[t].status # "absent" /\ declared[t] \subseteq Over
    <3>1. CASE Started(t)
      BY <3>1 DEF StartedDone
    <3>2. CASE Exists(t) /\ Ready(t)
      <4>1. deps[t] \subseteq Over
        BY <1>2, <3>2 DEF Ready, CompletedDone
      <4> QED
        BY <3>2, <4>1 DEF DeclaredKept, Exists, Status
    <3> QED
      BY <3>1, <3>2, StartedStep
  <2> QED
    BY <1>2, <2>1, TaskSteps DEF TaskStep
<1> QED
  BY <1>1, <1>3, <1>4, <1>5

LEMMA CleanupType == ASSUME TypeInv, CleanupStep PROVE TypeInv'
<1>1. /\ NoRow \in Row /\ [NoRow EXCEPT !.status = "deleted"] \in Row
  BY DEF NoRow, Row, Status, TaskType, PriorityMax
<1>2. RepoTypeOK'
  BY <1>1 DEF TypeInv, TypeOK, RepoTypeOK, CleanupStep, CleanupExpired
<1>3. UNCHANGED <<stream, last, owner, idle, dlq, lost, faults, outbox,
                  pc, chan, job, snap, hb, ran>>
  BY DEF CleanupStep, brokerVars, workerVars
<1> QED
  BY <1>2, <1>3 DEF TypeInv, TypeOK, BrokerTypeOK, FaultsTypeOK, SchedulerTypeOK,
                    WorkerTypeOK, JobOK, PendingInStream

\* The deleted tasks had completed or been cancelled, so they are over.
LEMMA CleanupKeeps ==
  ASSUME RetentionInv, CleanupStep, Remember
  PROVE  RetentionInv'
<1> USE DEF RetentionInv
<1>0. PICK gone : gone = Expired
  OBVIOUS
<1>1. /\ \A t \in TaskID : tasks'[t] = IF t \in gone THEN [NoRow EXCEPT !.status = "deleted"]
                                       ELSE tasks[t]
      /\ tasks' = [t \in TaskID |-> tasks'[t]]
      /\ deps' = [t \in TaskID |-> IF t \in gone THEN {} ELSE deps[t] \ gone]
      /\ UNCHANGED <<brokerVars, faults, outbox, workerVars>>
  BY <1>0 DEF CleanupStep, CleanupExpired
<1>2. /\ NoRow \in Row /\ [NoRow EXCEPT !.status = "deleted"] \in Row
      /\ [NoRow EXCEPT !.status = "deleted"].status = "deleted"
  BY DEF NoRow, Row, Status, TaskType, PriorityMax
<1>3. TypeInv'
  BY CleanupType
<1>4. /\ \A t \in TaskID : tasks'[t].status = IF t \in gone THEN "deleted" ELSE tasks[t].status
      /\ gone \subseteq TaskID /\ gone \subseteq Over'
  <2>1. \A t \in TaskID : tasks'[t].status = IF t \in gone THEN "deleted" ELSE tasks[t].status
    <3> HIDE DEF RetentionInv
    <3> QED
      BY <1>1, <1>2
  <2>2. \A t \in gone : t \in TaskID /\ tasks[t].status \in {"completed", "cancelled"}
    BY <1>0 DEF Expired
  <2> QED
    BY <2>1, <2>2 DEF CompletedDone, Remember, Over
<1>5. /\ deps \in [TaskID -> SUBSET TaskID] /\ deps' \in [TaskID -> SUBSET TaskID]
      /\ Over \subseteq Over' /\ done \subseteq Over
      /\ \A t \in TaskID : declared'[t] =
           IF tasks[t].status = "absent" THEN deps'[t] ELSE declared[t]
  BY <1>3 DEF TypeInv, TypeOK, RepoTypeOK, Remember, Over
<1>6. HistoryTypeOK' /\ CompletedDone'
  BY <1>5 DEF HistoryTypeOK, CompletedDone, Remember, Over
<1>7. \A t \in TaskID : Started(t)' => Started(t)
  <2>1. UNCHANGED <<stream, outbox>>
    BY <1>1 DEF brokerVars
  <2> QED
    BY <1>4, <2>1 DEF Started, Begun, Members
<1>8. StartedDone'
  BY <1>4, <1>5, <1>7 DEF StartedDone
<1>9. DeclaredKept'
  <2> SUFFICES ASSUME NEW t \in TaskID, tasks'[t].status # "deleted"
               PROVE  declared'[t] \subseteq deps'[t] \cup Over'
    BY DEF DeclaredKept
  <2>1. CASE tasks[t].status = "absent"
    BY <1>5, <2>1
  <2>2. CASE t \in gone
    BY <1>4, <2>2
  <2>3. CASE tasks[t].status # "absent" /\ t \notin gone
    <3>1. deps'[t] = deps[t] \ gone /\ declared'[t] = declared[t]
      BY <1>1, <1>5, <2>3
    <3> QED
      BY <1>4, <1>5, <3>1 DEF DeclaredKept
  <2> QED
    BY <2>1, <2>2, <2>3
<1> QED
  BY <1>3, <1>6, <1>8, <1>9

LEMMA RetentionInvNext ==
  ASSUME RetentionInv, [RetentionNext]_retentionVars
  PROVE  RetentionInv'
<1>1. CASE UNCHANGED retentionVars
  <2>1. UNCHANGED vars /\ UNCHANGED <<tasks, deps, stream, outbox, declared, done, dropped>>
    BY <1>1 DEF retentionVars, vars
  <2>2. TypeInv'
    BY <2>1, TypeInvNext DEF RetentionInv
  <2> QED
    BY <2>1, <2>2 DEF RetentionInv, HistoryTypeOK, CompletedDone, DeclaredKept, StartedDone,
                      Started, Members, Over
<1> QED
  BY <1>1, NextKeeps, CleanupKeeps DEF RetentionNext

LEMMA RetentionInvInit == RetentionInit => RetentionInv
<1> SUFFICES ASSUME RetentionInit PROVE RetentionInv
  OBVIOUS
<1>1. TypeInv
  BY TypeInvInit DEF RetentionInit
<1>2. /\ \A t \in TaskID : tasks[t].status = "absent"
      /\ stream = <<>> /\ \A s \in SchedulerID : outbox[s] = <<>>
      /\ declared = [t \in TaskID |-> {}] /\ done = {} /\ dropped = {}
  BY DEF RetentionInit, Init, RepoInit, NoRow, BrokerInit, SchedulerInit
<1>3. HistoryTypeOK /\ CompletedDone /\ DeclaredKept
  BY <1>2 DEF HistoryTypeOK, CompletedDone, DeclaredKept, Over
<1>4. Members(<<>>) = {} /\ 1..Len(<<>>) = {}
  BY DEF Members
<1>5. StartedDone
  BY <1>2, <1>4 DEF StartedDone, Started, Begun
<1> QED
  BY <1>1, <1>3, <1>5 DEF RetentionInv

(***************************************************************************)
(* No handler runs before all dependencies its task was created with have  *)
(* completed, or were cancelled and deleted, although CleanupExpired       *)
(* removes rows of task_dependencies (ON DELETE CASCADE) under tasks that  *)
(* wait, are dispatched or get reset.                                      *)
(***************************************************************************)
THEOREM CleanupKeepsOrder == RetentionSpec => []DeclaredDepsRespected
<1>1. RetentionInv => DeclaredDepsRespected
  <2> SUFFICES ASSUME RetentionInv, NEW w \in WorkerID, pc[w] = "run"
               PROVE  declared[TaskOf(w)] \subseteq Over
    BY DEF DeclaredDepsRespected, Over
  <2>1. job[w] \in 1..Len(stream) /\ TaskOf(w) \in TaskID
    BY TaskOfType DEF RetentionInv, TypeInv, Busy
  <2>2. Started(TaskOf(w))
    BY <2>1 DEF Started, TaskOf
  <2> QED
    BY <2>1, <2>2 DEF RetentionInv, StartedDone
<1>2. RetentionInv /\ [RetentionNext]_retentionVars => RetentionInv'
  BY RetentionInvNext
<1> QED
  BY <1>1, <1>2, RetentionInvInit, PTL DEF RetentionSpec, retentionVars

-----------------------------------------------------------------------------
(* Nothing is cancelled when clients leave the tasks alone.                 *)

NoneCancelled == \A t \in TaskID : tasks[t].status # "cancelled"

LEMMA CommitCancelsNothing ==
  ASSUME TypeInv, NoneCancelled, NEW w \in WorkerID, Commit(w)
  PROVE  NoneCancelled'
<1> USE DEF TypeInv, TypeOK
<1>1. PICK t \in TaskID : t = TaskOf(w)
  BY TaskOfType DEF Commit, Busy
<1>2. tasks[t] \in Row
  BY DEF RepoTypeOK
<1>3. ASSUME NEW row \in Row, NEW next, next # "cancelled", UpdateTask(t, next, row)
      PROVE  NoneCancelled'
  BY <1>3, UpdateStat DEF NoneCancelled
<1>4. CASE SetCompleted(w)
  <2>1. PICK row \in Row : row = [tasks[t] EXCEPT !.worker_id = w]
    BY <1>2 DEF Row
  <2> QED
    BY <1>1, <1>3, <1>4, <2>1 DEF SetCompleted
<1>5. CASE SetRetry(w)
  <2>1. snap[w] \in Nat /\ Delay(BackoffBase, BackoffMax, snap[w]) \in Nat
    BY DelayType DEF WorkerTypeOK
  <2>2. PICK row \in Row :
          row = [tasks[t] EXCEPT !.attempt_count = snap[w],
                                 !.wait = Delay(BackoffBase, BackoffMax, snap[w]),
                                 !.worker_id = NoWorker]
    BY <1>2, <2>1 DEF Row
  <2> QED
    BY <1>1, <1>3, <1>5, <2>2 DEF SetRetry
<1>6. CASE SetFailed(w)
  <2>1. PICK row \in Row : row = [tasks[t] EXCEPT !.worker_id = NoWorker]
    BY <1>2 DEF Row
  <2> QED
    BY <1>1, <1>3, <1>6, <2>1 DEF SetFailed
<1> QED
  BY <1>4, <1>5, <1>6 DEF Commit

LEMMA OnlyClientsCancel ==
  ASSUME Operated = {}, TypeInv, NoneCancelled, [Next]_vars
  PROVE  NoneCancelled'
<1> USE DEF TypeInv, TypeOK
<1>0. ASSUME UNCHANGED tasks PROVE NoneCancelled'
  BY <1>0 DEF NoneCancelled
<1>1. ASSUME Stat' = Stat PROVE NoneCancelled'
  <2>1. \A t \in TaskID : Stat'[t] = tasks'[t].status /\ Stat[t] = tasks[t].status
    BY DEF Stat
  <2> QED
    BY <1>1, <2>1 DEF NoneCancelled
<1>2. CASE ClientStep
  <2>1. PICK t \in TaskID, cmd \in Cmds, D \in SUBSET TaskID : Create(t, cmd, D)
    BY <1>2 DEF ClientStep, Enqueue
  <2>2. \A u \in TaskID : tasks'[u].status = IF u = t THEN "pending" ELSE tasks[u].status
    BY <2>1 DEF RepoTypeOK, Create
  <2> QED
    BY <2>2 DEF NoneCancelled
<1>3. ASSUME NEW s \in SchedulerID, SchedulerStep(s) PROVE NoneCancelled'
  <2>1. CASE Tick(s) \/ TickError(s)
    <3>1. PICK q \in Batches(BatchSize) : MarkRunning(q)
      BY <2>1 DEF Tick, TickError
    <3>2. \A t \in TaskID : [tasks[t] EXCEPT !.status = "running", !.age = 0].status = "running"
      BY DEF RepoTypeOK, Row
    <3>3. \A t \in TaskID : tasks'[t].status \in {"running", tasks[t].status}
      BY <3>1, <3>2 DEF MarkRunning
    <3> QED
      BY <3>3 DEF NoneCancelled
  <2>2. CASE PublishNext(s) \/ PublishError(s) \/ SchedulerStop(s)
    BY <1>0, <2>2 DEF PublishNext, PublishError, SchedulerStop
  <2> QED
    BY <1>3, <2>1, <2>2 DEF SchedulerStep
<1>4. CASE MonitorStep
  <2>1. \A t \in TaskID :
          [tasks[t] EXCEPT !.status = "pending", !.worker_id = NoWorker, !.age = 0].status
            = "pending"
    BY DEF RepoTypeOK, Row
  <2>2. \A t \in TaskID : tasks'[t].status \in {"pending", tasks[t].status}
    BY <1>4, <2>1 DEF MonitorStep, MonitorCheck, ResetStuckRunning
  <2> QED
    BY <2>2 DEF NoneCancelled
<1>5. ASSUME NEW w \in WorkerID, WorkerStep(w) PROVE NoneCancelled'
  <2>1. CASE Mark(w) \/ MarkReplyLost(w)
    BY <2>1, CommitCancelsNothing DEF Mark, MarkReplyLost
  <2>2. CASE Heartbeat(w)
    <3>1. PICK t \in TaskID : t = TaskOf(w)
      BY <2>2, TaskOfType DEF Heartbeat, Busy
    <3> QED
      BY <1>1, <2>2, <3>1, BeatKeepsStatus DEF Heartbeat
  <2> QED
    BY <1>0, <1>5, <2>1, <2>2
       DEF WorkerStep, Subscribe, ReclaimPending, ReclaimError, ReadNew, ReadError, Receive,
           GetTask, GetMissing, HeartbeatError, HandlerOk, HandlerError, MarkRejected,
           PublishDLQ, PublishDLQError, Ack, CallError, WorkerStop
<1>6. CASE Elapse
  BY <1>1, <1>6, AgingKeepsStatus DEF Elapse
<1>7. CASE UNCHANGED vars
  BY <1>0, <1>7 DEF vars
<1> QED
  BY <1>2, <1>3, <1>4, <1>5, <1>6, <1>7 DEF Next

\* A handler runs only after every declared dependency has completed.
DeclaredDepsCompleted ==
  \A w \in WorkerID : pc[w] = "run" => declared[TaskOf(w)] \subseteq done

(***************************************************************************)
(* The documented order without an exception when clients neither cancel   *)
(* nor republish: no process of the system cancels a task by itself, so    *)
(* CleanupExpired (repo.go:519) deletes completed tasks only.              *)
(***************************************************************************)
THEOREM CleanupKeepsOrderUnattended ==
  ASSUME Operated = {}
  PROVE  RetentionSpec => []DeclaredDepsCompleted
<1> DEFINE I == TypeInv /\ NoneCancelled /\ dropped = {}
<1>1. RetentionInit => I
  BY TypeInvInit DEF RetentionInit, Init, RepoInit, NoRow, NoneCancelled
<1>2. I /\ [RetentionNext]_retentionVars => I'
  <2> SUFFICES ASSUME I, [RetentionNext]_retentionVars
               PROVE  TypeInv' /\ NoneCancelled' /\ dropped' = {}
    OBVIOUS
  <2>0. dropped' = {}
    BY DEF NoneCancelled, RetentionNext, Remember, retentionVars
  <2>1. CASE [Next]_vars
    BY <2>0, <2>1, TypeInvNext, OnlyClientsCancel
  <2>2. CASE CleanupStep
    <3>1. [NoRow EXCEPT !.status = "deleted"].status = "deleted"
      BY DEF NoRow
    <3>2. \A t \in TaskID : tasks'[t].status \in {"deleted", tasks[t].status}
      BY <2>2, <3>1 DEF CleanupStep, CleanupExpired
    <3> QED
      BY <2>0, <2>2, <3>2, CleanupType DEF NoneCancelled
  <2> QED
    BY <2>1, <2>2 DEF RetentionNext, retentionVars
<1>3. I /\ DeclaredDepsRespected => DeclaredDepsCompleted
  BY DEF DeclaredDepsRespected, DeclaredDepsCompleted
<1> QED
  BY <1>1, <1>2, <1>3, CleanupKeepsOrder, PTL DEF RetentionSpec, retentionVars
=============================================================================
