-------------------------- MODULE AccountingProofs ---------------------------
(***************************************************************************)
(* As long as nothing fails, a handler is not started more often than the  *)
(* retry limit allows, the attempts in the store are the starts, and the   *)
(* exported counters agree with the store.  Whatever fails, no outcome in  *)
(* the store goes uncounted.                                               *)
(*                                                                         *)
(* The former rests on TimingProofs: a task is in the hands of at most one *)
(* worker, which finds it running when it stores the outcome, so each      *)
(* start is followed by its own outcome and no outcome is refused.         *)
(***************************************************************************)
EXTENDS Accounting, TimingProofs

-----------------------------------------------------------------------------
(* The invariant. *)

\* Where process is between the start of the handler and the stored outcome; it is
\* also at "fail" with a task it has no handler for.
Active == {"run", "complete", "retry", "fail"}

Registered(t) == tasks[t].type = "registered"

\* Worker w has started the handler of its task and not yet stored the outcome.
Begun(w) == pc[w] \in Active /\ Registered(TaskOf(w))

Started(t) == \E w \in WorkerID : Begun(w) /\ TaskOf(w) = t

\* The copy of the attempts a worker has is the number in the store.
CopyInv ==
  \A w \in WorkerID :
    /\ pc[w] \in {"run", "complete", "retry"} => Registered(TaskOf(w))
    /\ pc[w] = "run" => snap[w] = tasks[TaskOf(w)].attempt_count
    /\ pc[w] = "retry" => snap[w] = tasks[TaskOf(w)].attempt_count + 1

\* Every start but the one in progress, or the last one, is a recorded attempt.
StartsRecorded(t) ==
  /\ tasks[t].status \in {"absent", "pending", "running"} =>
       executions[t] = tasks[t].attempt_count + (IF Started(t) THEN 1 ELSE 0)
  /\ tasks[t].status \in {"completed", "failed"} /\ Registered(t) =>
       executions[t] = tasks[t].attempt_count + 1
  /\ executions[t] <= tasks[t].attempt_count + 1
  /\ tasks[t].status = "absent" => tasks[t].attempt_count = 0

ExecInv ==
  /\ executions \in [TaskID -> Nat]
  /\ \A t \in TaskID : StartsRecorded(t)

-----------------------------------------------------------------------------
(* What a step may do, as far as outcomes and counters are concerned. *)

\* Nothing starts, returns or is stored.
Plain ==
  /\ \A t \in TaskID :
       /\ tasks'[t].attempt_count = tasks[t].attempt_count
       /\ tasks'[t].type = tasks[t].type
       /\ \/ tasks'[t].status = tasks[t].status
          \/ tasks'[t].status \in {"pending", "running"} /\ tasks[t].status \in {"pending", "running"}
  /\ \A w \in WorkerID :
       \/ /\ pc'[w] = pc[w] /\ snap'[w] = snap[w]
          /\ pc[w] \in Active => TaskOf(w)' = TaskOf(w)
       \/ pc[w] \notin Active /\ pc'[w] \notin Active

Created(t) ==
  /\ tasks[t].status = "absent" /\ tasks'[t].status = "pending"
  /\ tasks'[t].attempt_count = 0
  /\ \A u \in TaskID \ {t} : tasks'[u] = tasks[u]
  /\ UNCHANGED <<stream, pc, job, snap>>

Begins(w) ==
  /\ pc[w] = "get" /\ pc'[w] = "run" /\ Registered(TaskOf(w))
  /\ snap'[w] = tasks[TaskOf(w)].attempt_count
  /\ tasks' = tasks

Refuses(w) ==
  /\ pc[w] = "get" /\ pc'[w] = "fail" /\ ~Registered(TaskOf(w))
  /\ tasks' = tasks

Returns(w) ==
  /\ pc[w] = "run" /\ pc'[w] \in {"complete", "retry", "fail"}
  /\ pc'[w] = "retry" => snap'[w] = snap[w] + 1
  /\ tasks' = tasks

\* The outcome of task t is stored.
Stores(w, t) ==
  /\ pc[w] \in {"complete", "retry", "fail"} /\ pc'[w] \notin Active
  /\ tasks'[t].status = CASE pc[w] = "complete" -> "completed"
                          [] pc[w] = "retry" -> "pending"
                          [] pc[w] = "fail" -> "failed"
  /\ tasks'[t].attempt_count = IF pc[w] = "retry" THEN snap[w] ELSE tasks[t].attempt_count
  /\ tasks'[t].type = tasks[t].type

Works(w, t) ==
  /\ InHand(w) /\ TaskOf(w) = t /\ tasks[t].status = "running"
  /\ UNCHANGED <<stream, job>>
  /\ \A v \in WorkerID \ {w} : /\ pc'[v] = pc[v] /\ snap'[v] = snap[v]
                               /\ InHand(v) => TaskOf(v) # t
  /\ \A u \in TaskID \ {t} : tasks'[u] = tasks[u]
  /\ Begins(w) \/ Refuses(w) \/ Returns(w) \/ Stores(w, t)

\* A step of a client, a scheduler, the monitor or the clock.
LEMMA OtherStepKinds ==
  ASSUME TypeInv, TypeInv', TimingInv, Operated = {}, faults = 0, ~Fault,
         \/ ClientStep \/ MonitorStep \/ Elapse \/ \E s \in SchedulerID : SchedulerStep(s)
  PROVE  Plain \/ \E t \in TaskID : Created(t)
<1>0. /\ tasks \in [TaskID -> Row]
      /\ \A w \in WorkerID : pc[w] \in Active => job[w] \in 1..Len(stream)
  <2>1. tasks \in [TaskID -> Row]
    BY DEF TypeInv, TypeOK, RepoTypeOK
  <2>2. Active \subseteq Busy
    BY DEF Active, Busy
  <2> QED
    BY <2>1, <2>2, TaskOfType DEF TypeInv
<1>1. CASE ClientStep
  <2>1. PICK t \in TaskID, cmd \in Cmds, D \in SUBSET TaskID : Create(t, cmd, D)
    BY <1>1 DEF ClientStep, Enqueue
  <2>2. UNCHANGED <<stream, pc, job, snap>>
    BY <1>1 DEF ClientStep, brokerVars, workerVars
  <2>3. Created(t)
    BY <1>0, <2>1, <2>2 DEF Create, Creatable, Created
  <2> QED
    BY <2>3
<1>2. CASE MonitorStep
  <2>1. UNCHANGED <<stream, pc, job, snap>>
    BY <1>2 DEF MonitorStep, MonitorCheck, workerVars
  <2>2. ASSUME NEW t \in TaskID
        PROVE  /\ tasks'[t].attempt_count = tasks[t].attempt_count
               /\ tasks'[t].type = tasks[t].type
               /\ \/ tasks'[t].status = tasks[t].status
                  \/ tasks'[t].status = "pending" /\ tasks[t].status = "running"
    <3>1. \/ tasks'[t] = tasks[t]
          \/ /\ tasks[t].status = "running"
             /\ tasks'[t] = [tasks[t] EXCEPT !.status = "pending", !.worker_id = NoWorker, !.age = 0]
      BY <1>2 DEF MonitorStep, MonitorCheck, ResetStuckRunning, Stuck
    <3> QED
      BY <1>0, <3>1 DEF Row
  <2> QED
    BY <2>1, <2>2 DEF Plain, TaskOf
<1>3. CASE Elapse
  <2>1. UNCHANGED <<stream, pc, job, snap>>
    BY <1>3 DEF Elapse
  <2>2. ASSUME NEW t \in TaskID
        PROVE  /\ tasks'[t].attempt_count = tasks[t].attempt_count
               /\ tasks'[t].type = tasks[t].type /\ tasks'[t].status = tasks[t].status
    <3>1. \E x, y : tasks'[t] = [tasks[t] EXCEPT !.wait = x, !.age = y]
      BY <1>3 DEF Elapse, RowsAge
    <3> QED
      BY <1>0, <3>1 DEF Row
  <2> QED
    BY <2>1, <2>2 DEF Plain, TaskOf
<1>4. ASSUME NEW s \in SchedulerID, SchedulerStep(s) PROVE Plain
  <2>1. (Tick(s) \/ PublishNext(s)) /\ UNCHANGED <<pc, job, snap>>
    BY <1>4 DEF SchedulerStep, TickError, PublishError, SchedulerStop, workerVars
  <2>2. CASE Tick(s)
    <3>1. PICK q \in Batches(BatchSize) : MarkRunning(q)
      BY <2>2 DEF Tick
    <3>2. \A i \in DOMAIN q : tasks[q[i]].status = "pending"
      <4> DEFINE n == IF Cardinality(Due) < BatchSize THEN Cardinality(Due) ELSE BatchSize
      <4>1. q \in [1..n -> Due]
        BY DEF Batches
      <4> QED
        BY <4>1 DEF Due
    <3>3. ASSUME NEW t \in TaskID
          PROVE  /\ tasks'[t].attempt_count = tasks[t].attempt_count
                 /\ tasks'[t].type = tasks[t].type
                 /\ \/ tasks'[t].status = tasks[t].status
                    \/ tasks'[t].status = "running" /\ tasks[t].status = "pending"
      <4>1. \/ tasks'[t] = tasks[t]
            \/ /\ tasks[t].status = "pending"
               /\ tasks'[t] = [tasks[t] EXCEPT !.status = "running", !.age = 0]
        BY <3>1, <3>2 DEF MarkRunning
      <4> QED
        BY <1>0, <4>1 DEF Row
    <3> QED
      BY <2>1, <2>2, <3>3 DEF Plain, TaskOf, Tick
  <2>3. CASE PublishNext(s)
    <3>1. Head(outbox[s]) \in TaskID
      BY <2>3 DEF PublishNext, TypeInv, TypeOK, SchedulerTypeOK
    <3>2. tasks' = tasks /\ \A m \in 1..Len(stream) : stream'[m] = stream[m]
      BY <2>3, <3>1, XAddType DEF PublishNext, TypeInv, TypeOK
    <3> QED
      BY <1>0, <2>1, <3>2 DEF Plain, TaskOf
  <2> QED
    BY <2>1, <2>2, <2>3
<1> QED
  BY <1>1, <1>2, <1>3, <1>4

\* A step of a worker.
LEMMA WorkerStepKinds ==
  ASSUME TypeInv, TypeInv', TimingInv, ~Fault, NEW w \in WorkerID, WorkerStep(w)
  PROVE  Plain \/ \E t \in TaskID : Works(w, t)
<1>0. /\ tasks \in [TaskID -> Row] /\ snap \in [WorkerID -> Nat]
      /\ pc \in [WorkerID -> Busy \cup {"down", "claim", "idle"}]
  BY DEF TypeInv, TypeOK, RepoTypeOK, WorkerTypeOK, Busy
<1>1. CASE Subscribe(w) \/ ReclaimPending(w) \/ ReadNew(w) \/ PublishDLQ(w)
  <2>1. UNCHANGED <<tasks, stream, job, snap>>
    BY <1>1 DEF Subscribe, ReclaimPending, ReadNew, PublishDLQ, CreateGroup, XAutoClaim, Reading,
                XReadGroup, XAddDLQ
  <2>2. \/ pc' = pc
        \/ /\ pc[w] \in {"down", "claim", "dlq"} /\ \E to \in {"claim", "idle", "ack"} : pc' = [pc EXCEPT ![w] = to]
    BY <1>1 DEF Subscribe, ReclaimPending, ReadNew, PublishDLQ, Goto
  <2>3. \A v \in WorkerID : \/ pc'[v] = pc[v]
                            \/ pc[v] \notin Active /\ pc'[v] \notin Active
    BY <1>0, <2>2 DEF Active
  <2> QED
    BY <2>1, <2>3 DEF Plain, TaskOf
<1>2. CASE Receive(w) \/ Ack(w)
  <2>1. UNCHANGED <<tasks, stream>>
    BY <1>2 DEF Receive, Ack, brokerVars, XAck
  <2>2. /\ pc[w] \in {"idle", "ack"} /\ pc'[w] \in {"get", "idle"}
        /\ \A v \in WorkerID \ {w} : pc'[v] = pc[v] /\ job'[v] = job[v] /\ snap'[v] = snap[v]
    BY <1>0, <1>2 DEF Receive, Ack, Done, Goto, TypeInv, TypeOK, WorkerTypeOK
  <2> QED
    BY <2>1, <2>2 DEF Plain, TaskOf, Active
<1>3. CASE Heartbeat(w)
  <2>1. UNCHANGED <<stream, pc, job, snap>>
    BY <1>3 DEF Heartbeat, brokerVars
  <2>2. TaskOf(w) \in TaskID
    BY <1>3, InHandFacts DEF Heartbeat, InHand
  <2>3. ASSUME NEW t \in TaskID
        PROVE  /\ tasks'[t].attempt_count = tasks[t].attempt_count
               /\ tasks'[t].type = tasks[t].type /\ tasks'[t].status = tasks[t].status
    <3>1. \/ tasks'[t] = tasks[t]
          \/ tasks'[t] = [tasks[t] EXCEPT !.age = 0, !.worker_id = w]
      BY <1>0, <1>3, <2>2 DEF Heartbeat, Beat
    <3> QED
      BY <1>0, <3>1 DEF Row
  <2> QED
    BY <2>1, <2>3 DEF Plain, TaskOf
<1>4. ASSUME InHand(w), UNCHANGED <<stream, job>>,
             \A v \in WorkerID \ {w} : pc'[v] = pc[v] /\ snap'[v] = snap[v],
             \A u \in TaskID \ {TaskOf(w)} : tasks'[u] = tasks[u],
             Begins(w) \/ Refuses(w) \/ Returns(w) \/ Stores(w, TaskOf(w))
      PROVE  \E t \in TaskID : Works(w, t)
  <2>1. PICK t \in TaskID : t = TaskOf(w) /\ tasks[t].status = "running"
    BY <1>4, InHandFacts
  <2>2. \A v \in WorkerID \ {w} : InHand(v) => TaskOf(v) # t
    BY <1>4, <2>1, HandsDiffer
  <2>3. Works(w, t)
    BY <1>4, <2>1, <2>2 DEF Works
  <2> QED
    BY <2>3
<1>5. CASE GetTask(w)
  <2>1. InHand(w) /\ pc[w] = "get" /\ UNCHANGED <<tasks, stream, job>>
    BY <1>5 DEF GetTask, InHand, brokerVars
  <2>2. tasks[TaskOf(w)].status = "running"
    BY <2>1, InHandFacts
  <2>3. \/ /\ ~Registered(TaskOf(w)) /\ pc' = [pc EXCEPT ![w] = "fail"] /\ snap' = snap
        \/ /\ Registered(TaskOf(w)) /\ pc' = [pc EXCEPT ![w] = "run"]
           /\ snap' = [snap EXCEPT ![w] = tasks[TaskOf(w)].attempt_count]
    BY <1>5, <2>2 DEF GetTask, Goto, Registered
  <2>4. /\ Begins(w) \/ Refuses(w)
        /\ \A v \in WorkerID \ {w} : pc'[v] = pc[v] /\ snap'[v] = snap[v]
    BY <1>0, <2>1, <2>3 DEF Begins, Refuses
  <2> QED
    BY <1>4, <2>1, <2>4
<1>6. CASE HandlerOk(w) \/ HandlerError(w)
  <2>1. InHand(w) /\ pc[w] = "run" /\ UNCHANGED <<tasks, stream, job>>
    BY <1>6 DEF HandlerOk, HandlerError, InHand, brokerVars
  <2>2. \E to \in {"complete", "retry", "fail"}, n \in Nat :
          /\ pc' = [pc EXCEPT ![w] = to] /\ snap' = [snap EXCEPT ![w] = n]
          /\ to = "retry" => n = snap[w] + 1
    <3>1. snap[w] + 1 \in Nat
      BY <1>0
    <3> QED
      BY <1>6, <3>1 DEF HandlerOk, HandlerError, Goto
  <2>3. /\ Returns(w)
        /\ \A v \in WorkerID \ {w} : pc'[v] = pc[v] /\ snap'[v] = snap[v]
    BY <1>0, <2>1, <2>2 DEF Returns
  <2> QED
    BY <1>4, <2>1, <2>3
<1>7. CASE Mark(w)
  <2>1. Commit(w) /\ UNCHANGED <<stream, job>>
    BY <1>7 DEF Mark, brokerVars
  <2>2. /\ InHand(w) /\ pc[w] \in {"complete", "retry", "fail"}
        /\ pc'[w] \notin Active
        /\ \A v \in WorkerID \ {w} : pc'[v] = pc[v] /\ snap'[v] = snap[v]
    BY <1>0, <1>7, <2>1 DEF Mark, Commit, Goto, InHand, Active
  <2>3. PICK t \in TaskID : t = TaskOf(w) /\ tasks[t] \in Row
    BY <2>2, InHandFacts
  <2>4. /\ \A u \in TaskID \ {t} : tasks'[u] = tasks[u]
        /\ Stores(w, t)
    <3>0. RepoTypeOK
      BY DEF TypeInv, TypeOK
    <3>1. CASE pc[w] = "complete"
      <4> DEFINE row == [tasks[t] EXCEPT !.worker_id = w]
      <4>1. row \in Row /\ row.attempt_count = tasks[t].attempt_count /\ row.type = tasks[t].type
        BY <2>3 DEF Row
      <4>2. UpdateTask(t, "completed", row)
        BY <2>1, <2>3, <3>1 DEF Commit, SetCompleted
      <4> HIDE DEF row
      <4>3. /\ \A u \in TaskID \ {t} : tasks'[u] = tasks[u]
            /\ tasks'[t].status = "completed" /\ tasks'[t].type = tasks[t].type
            /\ tasks'[t].attempt_count = tasks[t].attempt_count
        BY <3>0, <4>1, <4>2, UpdateRow
      <4> QED
        BY <2>2, <3>1, <4>3 DEF Stores
    <3>2. CASE pc[w] = "retry"
      <4>0. snap[w] \in Nat /\ Delay(BackoffBase, BackoffMax, snap[w]) \in Nat
        BY <1>0, DelayType
      <4> DEFINE row == [tasks[t] EXCEPT !.attempt_count = snap[w],
                                         !.wait = Delay(BackoffBase, BackoffMax, snap[w]),
                                         !.worker_id = NoWorker]
      <4>1. row \in Row /\ row.attempt_count = snap[w] /\ row.type = tasks[t].type
        BY <2>3, <4>0 DEF Row
      <4>2. UpdateTask(t, "pending", row)
        BY <2>1, <2>3, <3>2 DEF Commit, SetRetry
      <4> HIDE DEF row
      <4>3. /\ \A u \in TaskID \ {t} : tasks'[u] = tasks[u]
            /\ tasks'[t].status = "pending" /\ tasks'[t].type = tasks[t].type
            /\ tasks'[t].attempt_count = snap[w]
        BY <3>0, <4>1, <4>2, UpdateRow
      <4> QED
        BY <2>2, <3>2, <4>3 DEF Stores
    <3>3. CASE pc[w] = "fail"
      <4> DEFINE row == [tasks[t] EXCEPT !.worker_id = NoWorker]
      <4>1. row \in Row /\ row.attempt_count = tasks[t].attempt_count /\ row.type = tasks[t].type
        BY <2>3 DEF Row
      <4>2. UpdateTask(t, "failed", row)
        BY <2>1, <2>3, <3>3 DEF Commit, SetFailed
      <4> HIDE DEF row
      <4>3. /\ \A u \in TaskID \ {t} : tasks'[u] = tasks[u]
            /\ tasks'[t].status = "failed" /\ tasks'[t].type = tasks[t].type
            /\ tasks'[t].attempt_count = tasks[t].attempt_count
        BY <3>0, <4>1, <4>2, UpdateRow
      <4> QED
        BY <2>2, <3>3, <4>3 DEF Stores
    <3> QED
      BY <2>2, <3>1, <3>2, <3>3
  <2> QED
    BY <1>4, <2>1, <2>2, <2>3, <2>4
<1>8. ~GetMissing(w) /\ ~MarkRejected(w)
  BY NothingRefused
<1> QED
  BY <1>1, <1>2, <1>3, <1>5, <1>6, <1>7, <1>8
     DEF WorkerStep, ReclaimError, ReadError, HeartbeatError, MarkReplyLost,
         PublishDLQError, CallError, WorkerStop

LEMMA StepKinds ==
  ASSUME TypeInv, TypeInv', TimingInv, Operated = {}, Next, faults = 0, faults' = 0
  PROVE  Plain \/ (\E t \in TaskID : Created(t)) \/ \E w \in WorkerID, t \in TaskID : Works(w, t)
<1>1. ~Fault
  BY DEF Fault
<1> QED
  BY <1>1, OtherStepKinds, WorkerStepKinds DEF Next

-----------------------------------------------------------------------------
(* Copies and starts. *)

LEMMA ActiveFacts ==
  ASSUME TypeInv, TimingInv, NEW w \in WorkerID, pc[w] \in Active
  PROVE  InHand(w) /\ TaskOf(w) \in TaskID /\ tasks[TaskOf(w)].status = "running"
<1>1. InHand(w)
  BY DEF InHand, Active
<1> QED
  BY <1>1, InHandFacts

\* What the three kinds of step do to the workers that have begun.
LEMMA PlainBegun ==
  ASSUME TypeInv, TimingInv, Plain, NEW w \in WorkerID
  PROVE  /\ Begun(w)' <=> Begun(w)
         /\ pc[w] \in Active \/ pc'[w] \in Active => /\ TaskOf(w)' = TaskOf(w)
                                                     /\ pc'[w] = pc[w] /\ snap'[w] = snap[w]
<1>1. CASE pc[w] \notin Active /\ pc'[w] \notin Active
  BY <1>1 DEF Begun
<1>2. CASE pc'[w] = pc[w] /\ pc[w] \in Active
  BY <1>2, ActiveFacts DEF Plain, Begun, Registered
<1> QED
  BY <1>1, <1>2 DEF Plain

LEMMA CreatedBegun ==
  ASSUME TypeInv, TimingInv, NEW t \in TaskID, Created(t), NEW w \in WorkerID
  PROVE  /\ Begun(w)' <=> Begun(w)
         /\ pc'[w] = pc[w] /\ snap'[w] = snap[w] /\ TaskOf(w)' = TaskOf(w)
         /\ pc[w] \in Active => TaskOf(w) # t /\ tasks'[TaskOf(w)] = tasks[TaskOf(w)]
<1>1. pc'[w] = pc[w] /\ snap'[w] = snap[w] /\ TaskOf(w)' = TaskOf(w)
  BY DEF Created, TaskOf
<1>2. ASSUME pc[w] \in Active
      PROVE  TaskOf(w) # t /\ tasks'[TaskOf(w)] = tasks[TaskOf(w)]
  BY <1>2, ActiveFacts DEF Created
<1> QED
  BY <1>1, <1>2 DEF Begun, Registered

LEMMA WorksBegun ==
  ASSUME TypeInv, TimingInv, NEW w \in WorkerID, NEW t \in TaskID, Works(w, t)
  PROVE  /\ TaskOf(w)' = t /\ tasks'[t].type = tasks[t].type
         /\ \A v \in WorkerID \ {w} :
              /\ Begun(v)' <=> Begun(v)
              /\ pc'[v] = pc[v] /\ snap'[v] = snap[v] /\ TaskOf(v)' = TaskOf(v)
              /\ pc[v] \in Active => TaskOf(v) # t /\ tasks'[TaskOf(v)] = tasks[TaskOf(v)]
<1>1. tasks'[t].type = tasks[t].type /\ \A v \in WorkerID : TaskOf(v)' = TaskOf(v)
  BY DEF Works, Begins, Refuses, Returns, Stores, TaskOf
<1>2. ASSUME NEW v \in WorkerID \ {w}, pc[v] \in Active
      PROVE  TaskOf(v) # t /\ tasks'[TaskOf(v)] = tasks[TaskOf(v)]
  BY <1>2, ActiveFacts DEF Works
<1>3. \A v \in WorkerID \ {w} : pc'[v] = pc[v] /\ snap'[v] = snap[v]
  BY DEF Works
<1>4. TaskOf(w)' = t
  BY <1>1 DEF Works
<1>5. \A v \in WorkerID \ {w} : Begun(v)' <=> Begun(v)
  BY <1>1, <1>2, <1>3 DEF Begun, Registered
<1> QED
  BY <1>1, <1>2, <1>3, <1>4, <1>5

LEMMA CopyNext ==
  ASSUME TypeInv, TimingInv, CopyInv,
         Plain \/ (\E t \in TaskID : Created(t)) \/ \E w \in WorkerID, t \in TaskID : Works(w, t)
  PROVE  CopyInv'
<1> DEFINE Copy(v) ==
             /\ pc[v] \in {"run", "complete", "retry"} => Registered(TaskOf(v))
             /\ pc[v] = "run" => snap[v] = tasks[TaskOf(v)].attempt_count
             /\ pc[v] = "retry" => snap[v] = tasks[TaskOf(v)].attempt_count + 1
<1>0. \A v \in WorkerID : Copy(v)
  BY DEF CopyInv
<1>1. ASSUME NEW v \in WorkerID, pc'[v] = pc[v], snap'[v] = snap[v],
             pc[v] \in Active => /\ TaskOf(v)' = TaskOf(v)
                                 /\ tasks'[TaskOf(v)].type = tasks[TaskOf(v)].type
                                 /\ tasks'[TaskOf(v)].attempt_count = tasks[TaskOf(v)].attempt_count
      PROVE  Copy(v)'
  BY <1>0, <1>1 DEF Active, Registered
<1>2. ASSUME NEW v \in WorkerID, Plain PROVE Copy(v)'
  <2>1. CASE pc'[v] \notin Active
    BY <2>1 DEF Active
  <2>2. CASE pc'[v] \in Active
    <3>1. TaskOf(v)' = TaskOf(v) /\ pc'[v] = pc[v] /\ snap'[v] = snap[v]
      BY <1>2, <2>2, PlainBegun
    <3>2. TaskOf(v) \in TaskID
      BY <2>2, <3>1, ActiveFacts
    <3> QED
      BY <1>1, <1>2, <3>1, <3>2 DEF Plain
  <2> QED
    BY <2>1, <2>2
<1>3. ASSUME NEW v \in WorkerID, NEW t \in TaskID, Created(t) PROVE Copy(v)'
  BY <1>1, <1>3, CreatedBegun
<1>4. ASSUME NEW v \in WorkerID, NEW w \in WorkerID, NEW t \in TaskID, Works(w, t) PROVE Copy(v)'
  <2>1. CASE v # w
    BY <1>1, <1>4, <2>1, WorksBegun
  <2>2. CASE v = w
    <3>1. TaskOf(w) = t /\ TaskOf(w)' = t
      BY <1>4, WorksBegun DEF Works
    <3>2. CASE Begins(w)
      BY <2>2, <3>1, <3>2 DEF Begins, Registered
    <3>3. CASE Refuses(w)
      BY <2>2, <3>3 DEF Refuses
    <3>4. CASE Returns(w)
      BY <1>0, <2>2, <3>1, <3>4 DEF Returns, Registered
    <3>5. CASE Stores(w, t)
      BY <2>2, <3>5 DEF Stores, Active
    <3> QED
      BY <1>4, <3>2, <3>3, <3>4, <3>5 DEF Works
  <2> QED
    BY <2>1, <2>2
<1> QED
  BY <1>2, <1>3, <1>4 DEF CopyInv

\* Who moves where.
LEMMA MovingFacts ==
  ASSUME TypeInv, TimingInv, NEW from, NEW to, from # to, to \in Active
  PROVE  /\ Plain \/ (\E t \in TaskID : Created(t)) => Moving(from, to) = {}
         /\ \A w \in WorkerID, t \in TaskID : Works(w, t) =>
              Moving(from, to) = IF pc[w] = from /\ pc'[w] = to THEN {w} ELSE {}
<1>1. ASSUME Plain PROVE Moving(from, to) = {}
  BY <1>1, PlainBegun DEF Moving
<1>2. ASSUME NEW t \in TaskID, Created(t) PROVE Moving(from, to) = {}
  BY <1>2, CreatedBegun DEF Moving
<1>3. ASSUME NEW w \in WorkerID, NEW t \in TaskID, Works(w, t)
      PROVE  Moving(from, to) = IF pc[w] = from /\ pc'[w] = to THEN {w} ELSE {}
  BY <1>3, WorksBegun DEF Moving
<1> QED
  BY <1>1, <1>2, <1>3

LEMMA ExecutionsNext ==
  ASSUME TypeInv, TimingInv, ExecInv, Account
  PROVE  /\ Plain \/ (\E t \in TaskID : Created(t)) => executions' = executions
         /\ \A w \in WorkerID, t \in TaskID : Works(w, t) =>
              executions' = IF pc[w] = "get" /\ pc'[w] = "run"
                            THEN [executions EXCEPT ![t] = @ + 1] ELSE executions
<1>0. executions \in [TaskID -> Nat]
  BY DEF ExecInv
<1> DEFINE S(u) == {w \in Moving("get", "run") : TaskOf(w) = u}
<1>1. executions' = [u \in TaskID |-> executions[u] + Cardinality(S(u))]
  BY DEF Account
<1>2. ASSUME Moving("get", "run") = {} PROVE executions' = executions
  <2>1. \A u \in TaskID : S(u) = {}
    BY <1>2
  <2> HIDE DEF S
  <2>2. \A u \in TaskID : Cardinality(S(u)) = 0
    BY <2>1, FS_EmptySet, Zenon
  <2> QED
    BY <1>0, <1>1, <2>2
<1>3. ASSUME NEW w \in WorkerID, NEW t \in TaskID, TaskOf(w) = t, Moving("get", "run") = {w}
      PROVE  executions' = [executions EXCEPT ![t] = @ + 1]
  <2>1. S(t) = {w} /\ \A u \in TaskID \ {t} : S(u) = {}
    BY <1>3
  <2> HIDE DEF S
  <2>2. Cardinality(S(t)) = 1 /\ \A u \in TaskID \ {t} : Cardinality(S(u)) = 0
    <3>1. Cardinality({w}) = 1
      BY FS_Singleton
    <3> QED
      BY <2>1, <3>1, FS_EmptySet, Zenon
  <2>3. \A u \in TaskID : executions[u] + Cardinality(S(u))
                            = IF u = t THEN executions[t] + 1 ELSE executions[u]
    <3>1. executions[t] + Cardinality(S(t)) = executions[t] + 1
      BY <2>2
    <3>2. ASSUME NEW u \in TaskID, u # t PROVE executions[u] + Cardinality(S(u)) = executions[u]
      <4>1. Cardinality(S(u)) = 0 /\ executions[u] \in Nat
        BY <1>0, <2>2, <3>2
      <4> QED
        BY <4>1
    <3> QED
      BY <3>1, <3>2
  <2>4. [executions EXCEPT ![t] = @ + 1]
          = [u \in TaskID |-> IF u = t THEN executions[t] + 1 ELSE executions[u]]
    BY <1>0
  <2> QED
    BY <1>1, <2>3, <2>4
<1>4. "run" \in Active
  BY DEF Active
<1> QED
  BY <1>2, <1>3, <1>4, MovingFacts DEF Works

LEMMA ExecNext ==
  ASSUME TypeInv, TypeInv', TimingInv, CopyInv, ExecInv, Account,
         Plain \/ (\E t \in TaskID : Created(t)) \/ \E w \in WorkerID, t \in TaskID : Works(w, t)
  PROVE  ExecInv'
<1>0. /\ executions \in [TaskID -> Nat] /\ \A u \in TaskID : StartsRecorded(u)
      /\ \A u \in TaskID : tasks[u].attempt_count \in Nat /\ tasks'[u].attempt_count \in Nat
  BY DEF ExecInv, TypeInv, TypeOK, RepoTypeOK, Row
<1>1. ASSUME NEW u \in TaskID, executions'[u] = executions[u], Started(u)' <=> Started(u),
             tasks'[u].attempt_count = tasks[u].attempt_count,
             \/ tasks'[u].status = tasks[u].status
             \/ tasks'[u].status \in {"pending", "running"} /\ tasks[u].status \in {"pending", "running"},
             tasks'[u].type = tasks[u].type
      PROVE  StartsRecorded(u)'
  BY <1>0, <1>1 DEF StartsRecorded, Registered
<1>2. CASE Plain
  <2>1. \A u : Started(u)' <=> Started(u)
    BY <1>2, PlainBegun DEF Started, Begun
  <2>2. executions' = executions
    BY <1>2, ExecutionsNext
  <2> QED
    BY <1>0, <1>1, <1>2, <2>1, <2>2 DEF Plain, ExecInv
<1>3. ASSUME NEW t \in TaskID, Created(t) PROVE ExecInv'
  <2>1. /\ \A u : Started(u)' <=> Started(u)
        /\ ~Started(t)
    BY <1>3, CreatedBegun DEF Started, Begun
  <2>2. executions' = executions
    BY <1>3, ExecutionsNext
  <2>3. StartsRecorded(t)'
    BY <1>0, <1>3, <2>1, <2>2 DEF StartsRecorded, Created
  <2>4. \A u \in TaskID \ {t} : StartsRecorded(u)'
    BY <1>0, <1>1, <1>3, <2>1, <2>2 DEF Created
  <2> QED
    BY <1>0, <2>2, <2>3, <2>4 DEF ExecInv
<1>4. ASSUME NEW w \in WorkerID, NEW t \in TaskID, Works(w, t) PROVE ExecInv'
  <2>0. TaskOf(w) = t /\ TaskOf(w)' = t /\ tasks[t].status = "running"
        /\ tasks'[t].type = tasks[t].type
    BY <1>4, WorksBegun DEF Works
  <2>1. /\ \A u \in TaskID \ {t} : Started(u)' <=> Started(u)
        /\ Started(t) <=> Begun(w)
        /\ Started(t)' <=> Begun(w)'
    BY <1>4, <2>0, WorksBegun DEF Started, Begun
  <2>2. executions' = IF pc[w] = "get" /\ pc'[w] = "run"
                      THEN [executions EXCEPT ![t] = @ + 1] ELSE executions
    BY <1>4, ExecutionsNext
  <2>3. executions' \in [TaskID -> Nat] /\ \A u \in TaskID \ {t} : executions'[u] = executions[u]
    BY <1>0, <2>2
  <2>4. \A u \in TaskID \ {t} : StartsRecorded(u)'
    BY <1>1, <1>4, <2>1, <2>3 DEF Works
  <2>5. executions[t] = tasks[t].attempt_count + (IF Begun(w) THEN 1 ELSE 0)
    BY <1>0, <2>0, <2>1 DEF StartsRecorded
  <2>6. StartsRecorded(t)'
    <3>1. CASE Begins(w)
      <4>1. ~Begun(w) /\ Begun(w)'
        BY <2>0, <3>1 DEF Begins, Begun, Active, Registered
      <4>2. executions'[t] = executions[t] + 1
        BY <1>0, <2>2, <3>1 DEF Begins
      <4> QED
        BY <1>0, <2>0, <2>1, <2>5, <3>1, <4>1, <4>2 DEF StartsRecorded, Begins
    <3>2. CASE Refuses(w)
      <4>1. ~Begun(w) /\ ~Begun(w)'
        BY <2>0, <3>2 DEF Refuses, Begun, Active, Registered
      <4>2. executions'[t] = executions[t]
        BY <2>2, <3>2 DEF Refuses
      <4> QED
        BY <1>1, <2>1, <3>2, <4>1, <4>2 DEF Refuses
    <3>3. CASE Returns(w)
      <4>1. Begun(w) /\ Begun(w)'
        BY <2>0, <3>3 DEF CopyInv, Returns, Begun, Active, Registered
      <4>2. executions'[t] = executions[t]
        BY <2>2, <3>3 DEF Returns
      <4> QED
        BY <1>1, <2>1, <3>3, <4>1, <4>2 DEF Returns
    <3>4. CASE Stores(w, t)
      <4>1. ~Begun(w)'
        BY <3>4 DEF Stores, Begun
      <4>2. executions'[t] = executions[t]
        BY <2>2, <3>4 DEF Stores
      <4>3. CASE pc[w] = "retry"
        <5>1. Begun(w) /\ snap[w] = tasks[t].attempt_count + 1
          BY <2>0, <4>3 DEF CopyInv, Begun, Active
        <5>2. tasks'[t].attempt_count = snap[w] /\ tasks'[t].status = "pending"
          BY <3>4, <4>3 DEF Stores
        <5> QED
          BY <1>0, <2>1, <2>5, <4>1, <4>2, <5>1, <5>2 DEF StartsRecorded
      <4>4. CASE pc[w] # "retry"
        <5>1. /\ tasks'[t].attempt_count = tasks[t].attempt_count
              /\ tasks'[t].status \in {"completed", "failed"}
          BY <3>4, <4>4 DEF Stores
        <5> QED
          BY <1>0, <2>0, <2>5, <3>4, <4>2, <4>4, <5>1
             DEF StartsRecorded, Stores, Begun, Active, Registered
      <4> QED
        BY <4>3, <4>4
    <3> QED
      BY <1>4, <3>1, <3>2, <3>3, <3>4 DEF Works
  <2> QED
    BY <2>3, <2>4, <2>6 DEF ExecInv
<1> QED
  BY <1>2, <1>3, <1>4

-----------------------------------------------------------------------------
(* The counters. *)

\* The sets Storing and Having count.
Storers(place) == {w \in WorkerID : pc[w] = place /\ Registered(TaskOf(w))}
Finished(s) == {t \in TaskID : tasks[t].status = s /\ Registered(t)}

CountersThere == {"completed", "failed", "retried"} \subseteq DOMAIN metrics

SetsFinite ==
  /\ \A p \in {"complete", "fail", "retry"} : IsFiniteSet(Storers(p))
  /\ IsFiniteSet(Attempts)

Agreement ==
  /\ metrics["completed"] = Cardinality(Finished("completed")) + Cardinality(Storers("complete"))
  /\ metrics["failed"] = Cardinality(Finished("failed")) + Cardinality(Storers("fail"))
  /\ metrics["retried"] = Cardinality(Attempts) + Cardinality(Storers("retry"))

CountInv == CountersThere /\ SetsFinite /\ Agreement

LEMMA CountersStep ==
  ASSUME TypeInv, TypeInv', CountersThere, Account
  PROVE  /\ DOMAIN metrics' = DOMAIN metrics
         /\ metrics'["completed"] = metrics["completed"] + Cardinality(Moving("run", "complete"))
         /\ metrics'["failed"] = metrics["failed"] + Cardinality(Moving("run", "fail"))
         /\ metrics'["retried"] = metrics["retried"] + Cardinality(Moving("run", "retry"))
<1>1. metrics' = [c \in DOMAIN metrics |-> metrics[c] + Counted[c]]
  BY DEF Account
<1>2. /\ Counted["completed"] = Cardinality(Moving("run", "complete"))
      /\ Counted["failed"] = Cardinality(Moving("run", "fail"))
      /\ Counted["retried"] = Cardinality(Moving("run", "retry"))
  BY DEF Counted
<1> QED
  BY <1>1, <1>2 DEF CountersThere

\* One set passes an element to another, or takes one in that was just counted.
LEMMA OneMore ==
  ASSUME NEW S, IsFiniteSet(S), NEW x, x \notin S
  PROVE  /\ IsFiniteSet(S \cup {x}) /\ Cardinality(S) \in Nat
         /\ Cardinality(S \cup {x}) = Cardinality(S) + 1
BY FS_AddElement, FS_CardinalityType

LEMMA OneLess ==
  ASSUME NEW S, IsFiniteSet(S), NEW x \in S
  PROVE  /\ IsFiniteSet(S \ {x}) /\ Cardinality(S) \in Nat
         /\ Cardinality(S \ {x}) = Cardinality(S) - 1
BY FS_RemoveElement, FS_CardinalityType

\* What a step does to the outcomes stored (A), the workers about to store one (S) and the
\* workers just counted (M): nothing, x was counted, or x has stored a.
Outcome(A, A1, S, S1, M) ==
  \/ A1 = A /\ S1 = S /\ M = {}
  \/ \E x : A1 = A /\ x \notin S /\ S1 = S \cup {x} /\ M = {x}
  \/ \E x, a : a \notin A /\ A1 = A \cup {a} /\ x \in S /\ S1 = S \ {x} /\ M = {}

LEMMA OutcomeCounted ==
  ASSUME NEW A, NEW S, IsFiniteSet(A), IsFiniteSet(S), NEW A1, NEW S1, NEW M,
         Outcome(A, A1, S, S1, M)
  PROVE  /\ IsFiniteSet(A1) /\ IsFiniteSet(S1) /\ Cardinality(M) \in Nat
         /\ Cardinality(A1) \in Nat /\ Cardinality(S1) \in Nat
         /\ (Cardinality(A) + Cardinality(S)) + Cardinality(M) = Cardinality(A1) + Cardinality(S1)
<1>0. Cardinality(A) \in Nat /\ Cardinality(S) \in Nat /\ Cardinality({}) = 0
  BY FS_CardinalityType, FS_EmptySet
<1> DEFINE Goal ==
             /\ IsFiniteSet(A1) /\ IsFiniteSet(S1) /\ Cardinality(M) \in Nat
             /\ Cardinality(A1) \in Nat /\ Cardinality(S1) \in Nat
             /\ (Cardinality(A) + Cardinality(S)) + Cardinality(M) = Cardinality(A1) + Cardinality(S1)
<1>1. ASSUME A1 = A, S1 = S, M = {} PROVE Goal
  BY <1>0, <1>1
<1>2. ASSUME NEW x, A1 = A, x \notin S, S1 = S \cup {x}, M = {x} PROVE Goal
  <2>1. /\ IsFiniteSet(S1) /\ Cardinality(S1) = Cardinality(S) + 1 /\ Cardinality(M) = 1
    BY <1>2, OneMore, FS_Singleton
  <2> QED
    BY <1>0, <1>2, <2>1
<1>3. ASSUME NEW x, NEW a, a \notin A, A1 = A \cup {a}, x \in S, S1 = S \ {x}, M = {} PROVE Goal
  <2>1. /\ IsFiniteSet(A1) /\ Cardinality(A1) = Cardinality(A) + 1
        /\ IsFiniteSet(S1) /\ Cardinality(S1) = Cardinality(S) - 1
        /\ Cardinality(S1) \in Nat
    BY <1>3, OneMore, OneLess, FS_CardinalityType
  <2> QED
    BY <1>0, <1>3, <2>1
<1> HIDE DEF Goal
<1>4. Goal
  BY <1>1, <1>2, <1>3, Zenon DEF Outcome
<1> QED
  BY <1>4 DEF Goal

LEMMA AttemptsMembers ==
  /\ \A x : x \in Attempts <=> \E t \in TaskID : \E i \in 1..tasks[t].attempt_count : x = <<t, i>>
  /\ \A x : x \in Attempts' <=> \E t \in TaskID : \E i \in 1..tasks'[t].attempt_count : x = <<t, i>>
BY DEF Attempts

\* Attempts when no number of attempts changes, or one grows by one.
LEMMA AttemptsNumbers ==
  ASSUME TypeInv, TypeInv'
  PROVE  /\ (\A t \in TaskID : tasks'[t].attempt_count = tasks[t].attempt_count)
              => Attempts' = Attempts
         /\ \A t \in TaskID :
              /\ tasks'[t].attempt_count = tasks[t].attempt_count + 1
              /\ \A u \in TaskID \ {t} : tasks'[u] = tasks[u]
              => /\ <<t, tasks'[t].attempt_count>> \notin Attempts
                 /\ Attempts' = Attempts \cup {<<t, tasks'[t].attempt_count>>}
<1>0. \A u \in TaskID : tasks[u].attempt_count \in Nat
  BY DEF TypeInv, TypeOK, RepoTypeOK, Row
<1>1. ASSUME \A t \in TaskID : tasks'[t].attempt_count = tasks[t].attempt_count
      PROVE  Attempts' = Attempts
  <2>1. \A x : x \in Attempts' <=> x \in Attempts
    BY <1>1, AttemptsMembers
  <2> QED
    BY <2>1
<1>2. ASSUME NEW t \in TaskID, tasks'[t].attempt_count = tasks[t].attempt_count + 1,
             \A u \in TaskID \ {t} : tasks'[u] = tasks[u]
      PROVE  /\ <<t, tasks'[t].attempt_count>> \notin Attempts
             /\ Attempts' = Attempts \cup {<<t, tasks'[t].attempt_count>>}
  <2> DEFINE n == tasks[t].attempt_count
  <2>1. n \in Nat /\ n + 1 \notin 1..n /\ 1..(n + 1) = (1..n) \cup {n + 1}
    BY <1>0
  <2>2. <<t, n + 1>> \notin Attempts
    BY <2>1, AttemptsMembers
  <2>3. \A x : x \in Attempts' <=> x \in Attempts \/ x = <<t, n + 1>>
    BY <1>2, <2>1, AttemptsMembers
  <2>4. Attempts' = Attempts \cup {<<t, n + 1>>}
    BY <2>3
  <2> QED
    BY <1>2, <2>2, <2>4
<1> QED
  BY <1>1, <1>2

\* The outcomes in a step: completed, failed and retried.
Outcomes ==
  /\ Outcome(Finished("completed"), Finished("completed")',
             Storers("complete"), Storers("complete")', Moving("run", "complete"))
  /\ Outcome(Finished("failed"), Finished("failed")',
             Storers("fail"), Storers("fail")', Moving("run", "fail"))
  /\ Outcome(Attempts, Attempts', Storers("retry"), Storers("retry")', Moving("run", "retry"))

LEMMA OtherOutcomes ==
  ASSUME TypeInv, TypeInv', TimingInv, ExecInv, Plain \/ \E t \in TaskID : Created(t)
  PROVE  Outcomes
<1>1. \A p \in {"complete", "fail", "retry"} : p \in Active /\ p # "run"
  BY DEF Active
<1>2. \A p \in {"complete", "fail", "retry"} : Moving("run", p) = {}
  BY <1>1, MovingFacts
<1>3. CASE Plain
  <2>1. \A p \in {"complete", "fail", "retry"} : Storers(p)' = Storers(p)
    BY <1>1, <1>3, PlainBegun DEF Storers, Begun
  <2>2. \A s \in {"completed", "failed"} : Finished(s)' = Finished(s)
    BY <1>3 DEF Plain, Finished, Registered
  <2>3. Attempts' = Attempts
    BY <1>3, AttemptsNumbers DEF Plain
  <2> QED
    BY <1>2, <2>1, <2>2, <2>3 DEF Outcomes, Outcome
<1>4. ASSUME NEW t \in TaskID, Created(t) PROVE Outcomes
  <2>1. \A p \in {"complete", "fail", "retry"} : Storers(p)' = Storers(p)
    BY <1>1, <1>4, CreatedBegun DEF Storers, Begun
  <2>2. \A s \in {"completed", "failed"} : Finished(s)' = Finished(s)
    BY <1>4 DEF Created, Finished, Registered
  <2>3. \A u \in TaskID : tasks'[u].attempt_count = tasks[u].attempt_count
    BY <1>4 DEF Created, ExecInv, StartsRecorded
  <2>4. Attempts' = Attempts
    BY <2>3, AttemptsNumbers
  <2> QED
    BY <1>2, <2>1, <2>2, <2>4 DEF Outcomes, Outcome
<1> QED
  BY <1>3, <1>4

LEMMA WorkerOutcomes ==
  ASSUME TypeInv, TypeInv', TimingInv, CopyInv, NEW w \in WorkerID, NEW t \in TaskID, Works(w, t)
  PROVE  Outcomes
<1>0. /\ TaskOf(w) = t /\ TaskOf(w)' = t /\ tasks'[t].type = tasks[t].type
      /\ tasks[t].status = "running" /\ \A u \in TaskID \ {t} : tasks'[u] = tasks[u]
  BY WorksBegun DEF Works
<1>1. \A p \in {"complete", "fail", "retry"} :
        /\ p \in Active /\ p # "run"
        /\ Moving("run", p) = IF pc[w] = "run" /\ pc'[w] = p THEN {w} ELSE {}
  <2>1. \A p \in {"complete", "fail", "retry"} : p \in Active /\ p # "run"
    BY DEF Active
  <2> QED
    BY <2>1, MovingFacts
<1>2. ASSUME NEW p \in {"complete", "fail", "retry"}, NEW v \in WorkerID, v # w
      PROVE  v \in Storers(p)' <=> v \in Storers(p)
  BY <1>1, <1>2, WorksBegun DEF Storers, Begun
<1>3. ASSUME NEW p \in {"complete", "fail", "retry"}
      PROVE  /\ w \in Storers(p) <=> pc[w] = p /\ Registered(t)
             /\ w \in Storers(p)' <=> pc'[w] = p /\ Registered(t)
             /\ Storers(p) \subseteq WorkerID /\ Storers(p)' \subseteq WorkerID
  BY <1>0 DEF Storers, Registered
<1>4. ASSUME tasks' = tasks
      PROVE  /\ \A s : Finished(s)' = Finished(s)
             /\ Attempts' = Attempts
  BY <1>4, AttemptsNumbers DEF Finished, Registered
<1>5. CASE Begins(w) \/ Refuses(w)
  <2>1. \A p \in {"complete", "fail", "retry"} : Storers(p)' = Storers(p) /\ Moving("run", p) = {}
    BY <1>0, <1>1, <1>2, <1>3, <1>5 DEF Begins, Refuses
  <2> QED
    BY <1>4, <1>5, <2>1 DEF Begins, Refuses, Outcomes, Outcome
<1>6. CASE Returns(w)
  <2>1. Registered(t)
    BY <1>0, <1>6 DEF Returns, CopyInv
  <2>2. ASSUME NEW p \in {"complete", "fail", "retry"}
        PROVE  \/ Storers(p)' = Storers(p) /\ Moving("run", p) = {}
               \/ \E x : x \notin Storers(p) /\ Storers(p)' = Storers(p) \cup {x} /\ Moving("run", p) = {x}
    <3>1. CASE pc'[w] = p
      <4>1. w \notin Storers(p) /\ Storers(p)' = Storers(p) \cup {w} /\ Moving("run", p) = {w}
        BY <1>1, <1>2, <1>3, <1>6, <2>1, <3>1 DEF Returns
      <4> QED
        BY <4>1
    <3>2. CASE pc'[w] # p
      BY <1>1, <1>2, <1>3, <1>6, <3>2 DEF Returns
    <3> QED
      BY <3>1, <3>2
  <2> QED
    BY <1>4, <1>6, <2>2 DEF Returns, Outcomes, Outcome
<1>7. CASE Stores(w, t)
  <2>0. /\ pc[w] \in {"complete", "retry", "fail"} /\ pc'[w] \notin Active
        /\ tasks'[t].status = CASE pc[w] = "complete" -> "completed"
                                [] pc[w] = "retry" -> "pending"
                                [] pc[w] = "fail" -> "failed"
        /\ tasks'[t].attempt_count = IF pc[w] = "retry" THEN snap[w] ELSE tasks[t].attempt_count
    BY <1>7 DEF Stores
  <2>1. \A p \in {"complete", "fail", "retry"} :
          Moving("run", p) = {} /\ Storers(p)' = Storers(p) \ {w}
    BY <1>1, <1>2, <1>3, <2>0
  <2>2. \A p \in {"complete", "fail", "retry"} :
          ~(pc[w] = p /\ Registered(t)) => Storers(p)' = Storers(p)
    BY <1>3, <2>1
  <2>3. ASSUME NEW s \in {"completed", "failed"}
        PROVE  /\ t \notin Finished(s)
               /\ Finished(s)' = IF tasks'[t].status = s /\ Registered(t)
                                 THEN Finished(s) \cup {t} ELSE Finished(s)
    BY <1>0 DEF Finished, Registered
  <2>4. pc[w] # "retry" => Attempts' = Attempts
    BY <1>0, <2>0, AttemptsNumbers
  <2>5. Outcome(Finished("completed"), Finished("completed")',
                Storers("complete"), Storers("complete")', Moving("run", "complete"))
    <3>1. CASE pc[w] = "complete" /\ Registered(t)
      <4>1. w \in Storers("complete") /\ tasks'[t].status = "completed"
        BY <1>3, <2>0, <3>1
      <4> QED
        BY <2>1, <2>3, <3>1, <4>1 DEF Outcome
    <3>2. CASE ~(pc[w] = "complete" /\ Registered(t))
      <4>1. ~(tasks'[t].status = "completed" /\ Registered(t))
        BY <2>0, <3>2
      <4> QED
        BY <2>1, <2>2, <2>3, <3>2, <4>1 DEF Outcome
    <3> QED
      BY <3>1, <3>2
  <2>6. Outcome(Finished("failed"), Finished("failed")',
                Storers("fail"), Storers("fail")', Moving("run", "fail"))
    <3>1. CASE pc[w] = "fail" /\ Registered(t)
      <4>1. w \in Storers("fail") /\ tasks'[t].status = "failed"
        BY <1>3, <2>0, <3>1
      <4> QED
        BY <2>1, <2>3, <3>1, <4>1 DEF Outcome
    <3>2. CASE ~(pc[w] = "fail" /\ Registered(t))
      <4>1. ~(tasks'[t].status = "failed" /\ Registered(t))
        BY <2>0, <3>2
      <4> QED
        BY <2>1, <2>2, <2>3, <3>2, <4>1 DEF Outcome
    <3> QED
      BY <3>1, <3>2
  <2>7. Outcome(Attempts, Attempts', Storers("retry"), Storers("retry")', Moving("run", "retry"))
    <3>1. CASE pc[w] = "retry"
      <4>1. Registered(t) /\ tasks'[t].attempt_count = tasks[t].attempt_count + 1
        BY <1>0, <2>0, <3>1 DEF CopyInv
      <4>2. w \in Storers("retry")
        BY <1>3, <3>1, <4>1
      <4>3. \E a : a \notin Attempts /\ Attempts' = Attempts \cup {a}
        BY <1>0, <4>1, AttemptsNumbers
      <4> QED
        BY <2>1, <4>2, <4>3 DEF Outcome
    <3>2. CASE pc[w] # "retry"
      BY <2>1, <2>2, <2>4, <3>2 DEF Outcome
    <3> QED
      BY <3>1, <3>2
  <2> QED
    BY <2>5, <2>6, <2>7 DEF Outcomes
<1> QED
  BY <1>5, <1>6, <1>7 DEF Works

LEMMA CountNext ==
  ASSUME TypeInv, TypeInv', TimingInv, CopyInv, ExecInv, CountInv, Account,
         Plain \/ (\E t \in TaskID : Created(t)) \/ \E w \in WorkerID, t \in TaskID : Works(w, t)
  PROVE  CountInv'
<1>1. Outcomes
  BY OtherOutcomes, WorkerOutcomes
<1>2. /\ \A s : IsFiniteSet(Finished(s)) /\ IsFiniteSet(Finished(s)')
      /\ IsFiniteSet(Storers("complete")) /\ IsFiniteSet(Storers("fail"))
      /\ IsFiniteSet(Storers("retry")) /\ IsFiniteSet(Attempts)
  BY RepoAssumption, FS_Subset DEF CountInv, SetsFinite, Finished
<1>3. /\ IsFiniteSet(Storers("complete")') /\ Cardinality(Moving("run", "complete")) \in Nat
      /\ Cardinality(Finished("completed")') \in Nat /\ Cardinality(Storers("complete")') \in Nat
      /\ (Cardinality(Finished("completed")) + Cardinality(Storers("complete")))
           + Cardinality(Moving("run", "complete"))
         = Cardinality(Finished("completed")') + Cardinality(Storers("complete")')
  BY <1>1, <1>2, OutcomeCounted DEF Outcomes
<1>4. /\ IsFiniteSet(Storers("fail")') /\ Cardinality(Moving("run", "fail")) \in Nat
      /\ Cardinality(Finished("failed")') \in Nat /\ Cardinality(Storers("fail")') \in Nat
      /\ (Cardinality(Finished("failed")) + Cardinality(Storers("fail")))
           + Cardinality(Moving("run", "fail"))
         = Cardinality(Finished("failed")') + Cardinality(Storers("fail")')
  BY <1>1, <1>2, OutcomeCounted DEF Outcomes
<1>5. /\ IsFiniteSet(Storers("retry")') /\ Cardinality(Moving("run", "retry")) \in Nat
      /\ IsFiniteSet(Attempts')
      /\ Cardinality(Attempts') \in Nat /\ Cardinality(Storers("retry")') \in Nat
      /\ (Cardinality(Attempts) + Cardinality(Storers("retry"))) + Cardinality(Moving("run", "retry"))
         = Cardinality(Attempts') + Cardinality(Storers("retry")')
  BY <1>1, <1>2, OutcomeCounted DEF Outcomes
<1>6. SetsFinite'
  BY <1>3, <1>4, <1>5 DEF SetsFinite
<1>7. /\ DOMAIN metrics' = DOMAIN metrics
      /\ metrics'["completed"] = metrics["completed"] + Cardinality(Moving("run", "complete"))
      /\ metrics'["failed"] = metrics["failed"] + Cardinality(Moving("run", "fail"))
      /\ metrics'["retried"] = metrics["retried"] + Cardinality(Moving("run", "retry"))
  BY CountersStep DEF CountInv
<1>8. /\ metrics'["completed"] = Cardinality(Finished("completed")') + Cardinality(Storers("complete")')
      /\ metrics'["failed"] = Cardinality(Finished("failed")') + Cardinality(Storers("fail")')
      /\ metrics'["retried"] = Cardinality(Attempts') + Cardinality(Storers("retry")')
  BY <1>3, <1>4, <1>5, <1>7 DEF CountInv, Agreement
<1>9. Agreement'
  BY <1>8 DEF Agreement
<1>10. CountersThere'
  BY <1>7 DEF CountInv, CountersThere
<1> QED
  BY <1>6, <1>9, <1>10 DEF CountInv

-----------------------------------------------------------------------------
(* The theorems. *)

LEMMA AccountInit ==
  ASSUME AccountingInit
  PROVE  CopyInv /\ ExecInv /\ CountInv
<1>0. /\ \A w \in WorkerID : pc[w] = "down"
      /\ \A t \in TaskID : tasks[t].status = "absent" /\ tasks[t].attempt_count = 0
      /\ executions = [t \in TaskID |-> 0] /\ stream = <<>>
  BY DEF AccountingInit, Init, WorkerInit, RepoInit, NoRow, BrokerInit
<1>1. CopyInv
  BY <1>0 DEF CopyInv
<1>2. ExecInv
  <2>1. \A t \in TaskID : ~Started(t)
    BY <1>0 DEF Started, Begun, Active
  <2> QED
    BY <1>0, <2>1 DEF ExecInv, StartsRecorded
<1>3. \A p \in {"complete", "fail", "retry"} : Storers(p) = {}
  BY <1>0 DEF Storers
<1>4. Finished("completed") = {} /\ Finished("failed") = {}
  BY <1>0 DEF Finished
<1>5. Attempts = {}
  BY <1>0, AttemptsMembers
<1>6. IsFiniteSet({}) /\ Cardinality({}) = 0
  BY FS_EmptySet
<1>7. metrics = [enqueued |-> 0, dispatched |-> 0, completed |-> 0, failed |-> 0, retried |-> 0]
  BY DEF AccountingInit
<1>8. CountersThere
  BY <1>7 DEF CountersThere
<1>9. SetsFinite
  BY <1>3, <1>5, <1>6 DEF SetsFinite
<1>10. Agreement
  <2>1. /\ metrics["completed"] = 0 /\ metrics["failed"] = 0 /\ metrics["retried"] = 0
    BY <1>7
  <2>2. /\ Cardinality(Storers("complete")) = 0 /\ Cardinality(Storers("fail")) = 0
        /\ Cardinality(Storers("retry")) = 0
    BY <1>3, <1>6
  <2>3. /\ Cardinality(Finished("completed")) = 0 /\ Cardinality(Finished("failed")) = 0
        /\ Cardinality(Attempts) = 0
    BY <1>4, <1>5, <1>6
  <2> QED
    BY <1>6, <2>1, <2>2, <2>3 DEF Agreement
<1> QED
  BY <1>1, <1>2, <1>8, <1>9, <1>10 DEF CountInv

LEMMA AccountNext ==
  ASSUME TypeInv, TypeInv', faults = 0 => TimingInv, Operated = {},
         faults = 0 => CopyInv /\ ExecInv /\ CountInv,
         [AccountingNext]_accountingVars, faults' = 0
  PROVE  CopyInv' /\ ExecInv' /\ CountInv'
<1>1. [Next]_vars
  BY DEF AccountingNext, accountingVars
<1>2. faults = 0
  BY <1>1, FaultsGrow
<1>3. CASE AccountingNext
  <2>1. Plain \/ (\E t \in TaskID : Created(t)) \/ \E w \in WorkerID, t \in TaskID : Works(w, t)
    BY <1>2, <1>3, StepKinds DEF AccountingNext
  <2>2. Account
    BY <1>3 DEF AccountingNext
  <2> QED
    BY <1>2, <2>1, <2>2, CopyNext, ExecNext, CountNext
<1>4. CASE UNCHANGED accountingVars
  <2>1. UNCHANGED <<tasks, stream, pc, job, snap, metrics, executions>>
    BY <1>4 DEF accountingVars, vars
  <2>2. CopyInv'
    BY <1>2, <2>1 DEF CopyInv, Registered, TaskOf
  <2>3. ExecInv'
    BY <1>2, <2>1 DEF ExecInv, StartsRecorded, Started, Begun, Registered, TaskOf
  <2>4. CountInv'
    BY <1>2, <2>1 DEF CountInv, CountersThere, SetsFinite, Agreement, Attempts, Storers, Finished,
                      Registered, TaskOf
  <2> QED
    BY <2>2, <2>3, <2>4
<1> QED
  BY <1>3, <1>4

\* The counters and the history observe Rsufz and hold nothing up.
LEMMA AccountingObserves == AccountingSpec => Spec
<1>1. AccountingInit => Init
  BY DEF AccountingInit
<1>2. [AccountingNext]_accountingVars => [Next]_vars
  BY DEF AccountingNext, accountingVars
<1> QED
  BY <1>1, <1>2, PTL DEF AccountingSpec, Spec

LEMMA AccountAlways ==
  ASSUME Prompt, Operated = {}, TimeoutsSuffice
  PROVE  AccountingSpec => [](faults = 0 => CopyInv /\ ExecInv /\ CountInv)
<1> DEFINE Inv == faults = 0 => CopyInv /\ ExecInv /\ CountInv
           Base == TypeInv /\ (faults = 0 => TimingInv)
<1>1. AccountingInit => Inv
  BY AccountInit
<1>2. Base /\ Base' /\ Inv /\ [AccountingNext]_accountingVars => Inv'
  BY AccountNext
<1>3. Spec => []Base
  BY TimingAlways
<1> QED
  BY <1>1, <1>2, <1>3, AccountingObserves, PTL DEF AccountingSpec

(***************************************************************************)
(* As long as nothing fails, the handler of a task is started at most      *)
(* RetryLimit times (task.go:63), or once if that is zero.  Resets and     *)
(* redeliveries are not recorded as attempts (repo.go:505); the proof      *)
(* shows that none of them leads to a start (StartsRecorded).              *)
(***************************************************************************)
THEOREM StartsWithinLimit ==
  ASSUME Prompt, Operated = {}, TimeoutsSuffice
  PROVE  AccountingSpec => []ExecutionsWithinLimit
<1>1. TypeInv /\ AttemptsBelowLimit /\ (faults = 0 => CopyInv /\ ExecInv /\ CountInv)
        => ExecutionsWithinLimit
  <2> SUFFICES ASSUME TypeInv, AttemptsBelowLimit, ExecInv, NEW t \in TaskID
               PROVE  executions[t] <= Allowed(t)
    BY DEF ExecutionsWithinLimit
  <2>1. tasks[t].attempt_count \in Nat /\ tasks[t].retry_limit \in Int
    BY DEF TypeInv, TypeOK, RepoTypeOK, Row
  <2>2. executions[t] \in Nat /\ executions[t] <= tasks[t].attempt_count + 1
    BY DEF ExecInv, StartsRecorded
  <2>3. tasks[t].attempt_count > 0 => tasks[t].attempt_count < tasks[t].retry_limit
    BY DEF AttemptsBelowLimit
  <2> QED
    BY <2>1, <2>2, <2>3 DEF Allowed
<1> QED
  BY <1>1, TimingAlways, AttemptsLimited, AccountAlways, AccountingObserves, PTL

(***************************************************************************)
(* As long as nothing fails, the attempts in the store are the starts of   *)
(* the handler ("how many attempts there have been", task.go:62), up to    *)
(* the one in progress and without the last one of a finished task: the    *)
(* number markRetry writes is that of a copy (execute.go:189), and the     *)
(* copy is never out of date; markFailed writes none (execute.go:207-215). *)
(***************************************************************************)
THEOREM AttemptsMatchStarts ==
  ASSUME Prompt, Operated = {}, TimeoutsSuffice
  PROVE  AccountingSpec => []AttemptsRecorded
<1>1. TypeInv /\ (faults = 0 => TimingInv) /\ (faults = 0 => CopyInv /\ ExecInv /\ CountInv)
        => AttemptsRecorded
  <2> SUFFICES ASSUME TypeInv, TimingInv, ExecInv, NEW t \in TaskID
               PROVE  /\ tasks[t].status = "pending" => executions[t] = tasks[t].attempt_count
                      /\ tasks[t].status = "running" =>
                           executions[t] \in {tasks[t].attempt_count, tasks[t].attempt_count + 1}
                      /\ tasks[t].status \in {"completed", "failed"}
                           /\ tasks[t].type = "registered" =>
                             executions[t] = tasks[t].attempt_count + 1
    BY DEF AttemptsRecorded
  <2>1. tasks[t].attempt_count \in Nat /\ StartsRecorded(t)
    BY DEF TypeInv, TypeOK, RepoTypeOK, Row, ExecInv
  <2>2. Started(t) => tasks[t].status = "running"
    <3> SUFFICES ASSUME NEW w \in WorkerID, Begun(w), TaskOf(w) = t
                 PROVE  tasks[t].status = "running"
      BY DEF Started
    <3>1. job[w] \in 1..Len(stream) /\ InFlight(job[w])
      <4>1. pc[w] \in Busy /\ InHand(w)
        BY DEF Begun, Active, Busy, InHand
      <4>2. job[w] \in 1..Len(stream)
        BY <4>1, TaskOfType DEF TypeInv
      <4> QED
        BY <4>1, <4>2 DEF InFlight
    <3> QED
      BY <3>1 DEF TimingInv, FlightInv, FlightRunning, TaskOf
  <2> QED
    BY <2>1, <2>2 DEF StartsRecorded, Registered
<1> QED
  BY <1>1, TimingAlways, AccountAlways, AccountingObserves, PTL

(***************************************************************************)
(* As long as nothing fails and no client cancels or republishes, no       *)
(* outcome is counted that is not stored or about to be, although process  *)
(* counts it before the store accepts it (execute.go:144-156).             *)
(***************************************************************************)
THEOREM CountersMatchStore ==
  ASSUME Prompt, Operated = {}, TimeoutsSuffice
  PROVE  AccountingSpec => []CountedIsStored
<1>1. (faults = 0 => CopyInv /\ ExecInv /\ CountInv) => CountedIsStored
  <2> SUFFICES ASSUME CountInv, faults = 0 PROVE CountedIsStored
    BY DEF CountedIsStored
  <2>1. /\ \A s : Having(s) = Cardinality(Finished(s))
        /\ \A p : Storing(p) = Cardinality(Storers(p))
    BY DEF Having, Finished, Storing, Storers, Registered
  <2>2. /\ \A s : Cardinality(Finished(s)) \in Nat
        /\ \A p \in {"complete", "fail"} : Cardinality(Storers(p)) \in Nat
    BY RepoAssumption, FS_Subset, FS_CardinalityType DEF CountInv, SetsFinite, Finished
  <2> QED
    BY <2>1, <2>2 DEF CountInv, Agreement, CountedIsStored
<1> QED
  BY <1>1, AccountAlways, PTL

-----------------------------------------------------------------------------
(* Every stored outcome is counted, whatever fails. *)

\* Where the outcome s is stored from.
Place(s) == IF s = "completed" THEN "complete" ELSE "fail"

\* A worker gets to store an outcome of a task with a handler only from the handler.
LEMMA NewStorer ==
  ASSUME TypeInv, DispatchedReady, [Next]_vars, NEW p \in {"complete", "fail"},
         NEW w \in Storers(p)', w \notin Storers(p)
  PROVE  w \in Moving("run", p)
<1>0. w \in WorkerID /\ pc'[w] = p /\ tasks'[TaskOf(w)'].type = "registered"
  BY DEF Storers, Registered
<1>1. ASSUME pc[w] \in Busy, job'[w] = job[w]
      PROVE  tasks[TaskOf(w)].type = "registered"
  <2>1. TaskOf(w)' = TaskOf(w) /\ TaskOf(w) \in TaskID /\ Exists(TaskOf(w))
    BY <1>0, <1>1, TaskOfKept, BusyExists
  <2>2. tasks'[TaskOf(w)].type = tasks[TaskOf(w)].type
    BY <2>1, RowsStep DEF RowStep
  <2> QED
    BY <1>0, <2>1, <2>2
<1>2. CASE WorkerStep(w)
  <2>1. \/ pc[w] = "run"
        \/ pc[w] = p /\ job'[w] = job[w]
        \/ pc[w] = "get" /\ job'[w] = job[w] /\ tasks[TaskOf(w)].type = "unregistered"
    BY <1>0, <1>2
       DEF WorkerStep, Subscribe, ReclaimPending, ReclaimError, ReadNew, ReadError,
           Receive, GetTask, GetMissing, Heartbeat, HeartbeatError, HandlerOk, HandlerError,
           Mark, Commit, MarkRejected, MarkReplyLost, PublishDLQ, PublishDLQError, Ack,
           CallError, WorkerStop, Goto, Done, workerVars, TypeInv, TypeOK, WorkerTypeOK
  <2> QED
    BY <1>0, <1>1, <2>1 DEF Moving, Storers, Registered, Busy
<1>3. CASE ~WorkerStep(w)
  BY <1>0, <1>1, <1>3, OthersLeave DEF Storers, Registered, Busy
<1> QED
  BY <1>2, <1>3

\* A task gets an outcome by a worker that was about to store it and goes on.
LEMMA NewOutcome ==
  ASSUME TypeInv, DispatchedReady, [Next]_vars, NEW s \in {"completed", "failed"},
         NEW t \in Finished(s)', t \notin Finished(s)
  PROVE  \E w \in Storers(Place(s)) :
           TaskOf(w) = t /\ pc'[w] # pc[w] /\ w \notin Storers(Place(s))'
<1>0. t \in TaskID /\ tasks'[t].status = s /\ tasks'[t].type = "registered"
  BY DEF Finished, Registered
<1>1. Exists(t) => tasks'[t].type = tasks[t].type
  BY <1>0, RowsStep DEF RowStep
<1>2. tasks[t].status # s
  BY <1>0, <1>1 DEF Finished, Registered, Exists, Status
<1>3. PICK w \in WorkerID : /\ pc[w] = Place(s) /\ TaskOf(w) = t
                            /\ Mark(w) \/ MarkReplyLost(w)
  BY <1>0, <1>2, RowsStep DEF RowStep, OutcomeStep, MarkedBy, Place
<1>4. tasks[t].type = "registered"
  BY <1>0, <1>1, <1>3, BusyExists DEF Place, Busy
<1>5. pc'[w] \in {"ack", "dlq", "idle"}
  BY <1>3 DEF Mark, MarkReplyLost, Goto, Done, TypeInv, TypeOK, WorkerTypeOK
<1> QED
  BY <1>3, <1>4, <1>5 DEF Place, Storers, Registered

LEMMA OutcomesGrow ==
  ASSUME TypeInv, DispatchedReady, [Next]_vars, NEW s \in {"completed", "failed"},
         IsFiniteSet(Storers(Place(s)))
  PROVE  /\ IsFiniteSet(Storers(Place(s))')
         /\ Cardinality(Finished(s)) \in Nat /\ Cardinality(Storers(Place(s))) \in Nat
         /\ Cardinality(Finished(s)') \in Nat /\ Cardinality(Storers(Place(s))') \in Nat
         /\ Cardinality(Moving("run", Place(s))) \in Nat
         /\ Cardinality(Finished(s)') + Cardinality(Storers(Place(s))')
              <= (Cardinality(Finished(s)) + Cardinality(Storers(Place(s))))
                   + Cardinality(Moving("run", Place(s)))
<1> DEFINE p == Place(s)
           A == Finished(s)
           S == Storers(p)
           M == Moving("run", p)
<1>0. p \in {"complete", "fail"}
  BY DEF Place
<1>1. /\ IsFiniteSet(A) /\ IsFiniteSet(A') /\ IsFiniteSet(S)
      /\ Cardinality(A) \in Nat /\ Cardinality(A') \in Nat /\ Cardinality(S) \in Nat
  <2>1. IsFiniteSet(A) /\ IsFiniteSet(A')
    BY RepoAssumption, FS_Subset DEF Finished
  <2> QED
    BY <2>1, FS_CardinalityType
<1>2. \A x \in M : x \in WorkerID /\ pc'[x] # pc[x]
  BY <1>0 DEF Moving
<1>3. \A x \in S' : x \in S \/ x \in M
  BY <1>0, NewStorer
<1>4. \A v \in WorkerID, w \in WorkerID : pc'[v] # pc[v] /\ pc'[w] # pc[w] => v = w
  BY OneMoves
<1>5. \A t \in A' : t \in A \/ \E w \in S : TaskOf(w) = t /\ pc'[w] # pc[w] /\ w \notin S'
  BY NewOutcome
<1>6. S \subseteq WorkerID /\ \A x \in M : x \in WorkerID /\ pc'[x] = p
  BY DEF Storers, Moving
<1>7. \A x \in S : pc[x] = p
  BY DEF Storers
<1>8. \A x \in M : x \notin S
  BY <1>2, <1>6, <1>7
<1> HIDE DEF A, S, M, p
<1>9. M = {} \/ \E x \in M : M = {x}
  BY <1>2, <1>4
<1>10. Cardinality(M) \in Nat /\ (M = {} => Cardinality(M) = 0)
  <2>1. CASE M = {}
    <3>1. Cardinality(M) = 0
      BY <2>1, FS_EmptySet
    <3> QED
      BY <3>1
  <2>2. ASSUME NEW x \in M, M = {x} PROVE Cardinality(M) \in Nat /\ M # {}
    <3>1. Cardinality(M) = 1
      BY <2>2, FS_Singleton
    <3> QED
      BY <2>2, <3>1
  <2> QED
    BY <1>9, <2>1, <2>2
<1> DEFINE Goal == /\ IsFiniteSet(S') /\ Cardinality(S') \in Nat
                   /\ Cardinality(A') + Cardinality(S') <= (Cardinality(A) + Cardinality(S)) + Cardinality(M)
<1>11. ASSUME A' \subseteq A, S' \subseteq S PROVE Goal
  <2>1. /\ IsFiniteSet(S') /\ Cardinality(S') \in Nat
        /\ Cardinality(S') <= Cardinality(S) /\ Cardinality(A') <= Cardinality(A)
    BY <1>1, <1>11, FS_Subset, FS_CardinalityType
  <2> QED
    BY <1>1, <1>10, <2>1
<1>12. ASSUME NEW x \in M, A' \subseteq A PROVE Goal
  <2>1. M = {x} /\ S' \subseteq S \cup {x} /\ Cardinality(M) = 1
    <3>1. M = {x}
      BY <1>9
    <3> QED
      BY <1>3, <3>1, FS_Singleton
  <2>2. IsFiniteSet(S \cup {x}) /\ Cardinality(S \cup {x}) = Cardinality(S) + 1
    BY <1>1, <1>8, OneMore
  <2>3. /\ IsFiniteSet(S') /\ Cardinality(S') \in Nat
        /\ Cardinality(S') <= Cardinality(S) + 1 /\ Cardinality(A') <= Cardinality(A)
    BY <1>1, <1>12, <2>1, <2>2, FS_Subset, FS_CardinalityType
  <2> QED
    BY <1>1, <2>1, <2>3
<1>13. ASSUME NEW t \in A', t \notin A PROVE Goal
  <2>1. PICK w \in S : TaskOf(w) = t /\ pc'[w] # pc[w] /\ w \notin S'
    BY <1>5, <1>13
  <2>2. A' \subseteq A \cup {t}
    BY <1>4, <1>5, <1>6, <2>1
  <2>3. M = {}
    BY <1>2, <1>4, <1>6, <1>8, <2>1
  <2>4. S' \subseteq S \ {w}
    BY <1>3, <2>1, <2>3
  <2>5. /\ Cardinality(A \cup {t}) = Cardinality(A) + 1 /\ IsFiniteSet(A \cup {t})
        /\ Cardinality(S \ {w}) = Cardinality(S) - 1 /\ IsFiniteSet(S \ {w})
    BY <1>1, <1>13, <2>1, OneMore, OneLess
  <2>6. /\ IsFiniteSet(S') /\ Cardinality(S') \in Nat
        /\ Cardinality(S') <= Cardinality(S) - 1 /\ Cardinality(A') <= Cardinality(A) + 1
    BY <1>1, <2>2, <2>4, <2>5, FS_Subset, FS_CardinalityType
  <2> QED
    BY <1>1, <1>10, <2>3, <2>6
<1>14. Goal
  <2>1. CASE A' \subseteq A /\ S' \subseteq S
    BY <1>11, <2>1
  <2>2. CASE A' \subseteq A /\ ~(S' \subseteq S)
    <3>1. PICK x \in M : TRUE
      BY <1>3, <2>2
    <3> QED
      BY <1>12, <2>2, <3>1
  <2>3. CASE ~(A' \subseteq A)
    <3>1. PICK t \in A' : t \notin A
      BY <2>3
    <3> QED
      BY <1>13, <3>1
  <2> QED
    BY <2>1, <2>2, <2>3
<1> QED
  BY <1>1, <1>10, <1>14 DEF A, S, M, p

\* The inductive form of OutcomesCounted.
CoverInv ==
  /\ CountersThere
  /\ \A s \in {"completed", "failed"} :
       /\ metrics[s] \in Int /\ IsFiniteSet(Storers(Place(s)))
       /\ Cardinality(Finished(s)) + Cardinality(Storers(Place(s))) <= metrics[s]

LEMMA CoverNext ==
  ASSUME TypeInv, TypeInv', DispatchedReady, CoverInv, [AccountingNext]_accountingVars
  PROVE  CoverInv'
<1>1. CASE AccountingNext
  <2>0. [Next]_vars /\ CountersThere /\ Account
    BY <1>1 DEF AccountingNext, CoverInv
  <2>1. /\ DOMAIN metrics' = DOMAIN metrics
        /\ \A s \in {"completed", "failed"} :
             metrics'[s] = metrics[s] + Cardinality(Moving("run", Place(s)))
    BY <2>0, CountersStep DEF Place
  <2>2. ASSUME NEW s \in {"completed", "failed"}
        PROVE  /\ metrics'[s] \in Int /\ IsFiniteSet(Storers(Place(s))')
               /\ Cardinality(Finished(s)') + Cardinality(Storers(Place(s))') <= metrics'[s]
    <3>1. /\ metrics[s] \in Int /\ IsFiniteSet(Storers(Place(s)))
          /\ Cardinality(Finished(s)) + Cardinality(Storers(Place(s))) <= metrics[s]
      BY DEF CoverInv
    <3>2. metrics'[s] = metrics[s] + Cardinality(Moving("run", Place(s)))
      BY <2>1
    <3>3. /\ IsFiniteSet(Storers(Place(s))')
          /\ Cardinality(Finished(s)) \in Nat /\ Cardinality(Storers(Place(s))) \in Nat
          /\ Cardinality(Finished(s)') \in Nat /\ Cardinality(Storers(Place(s))') \in Nat
          /\ Cardinality(Moving("run", Place(s))) \in Nat
          /\ Cardinality(Finished(s)') + Cardinality(Storers(Place(s))')
               <= (Cardinality(Finished(s)) + Cardinality(Storers(Place(s))))
                    + Cardinality(Moving("run", Place(s)))
      BY <2>0, <3>1, OutcomesGrow
    <3> QED
      BY <3>1, <3>2, <3>3
  <2> QED
    BY <2>0, <2>1, <2>2 DEF CoverInv, CountersThere, Place
<1>2. CASE UNCHANGED accountingVars
  <2>1. UNCHANGED <<tasks, stream, pc, job, metrics>>
    BY <1>2 DEF accountingVars, vars
  <2>2. \A s \in {"completed", "failed"} :
          Finished(s)' = Finished(s) /\ Storers(Place(s))' = Storers(Place(s))
    BY <2>1 DEF Finished, Storers, Registered, TaskOf, Place
  <2> QED
    BY <2>1, <2>2 DEF CoverInv, CountersThere
<1> QED
  BY <1>1, <1>2

(***************************************************************************)
(* No completed or failed task in the store goes uncounted, for any number *)
(* of failures and whatever clients do: process counts before it stores    *)
(* (execute.go:144-156), so a lost reply, a worker that dies after the     *)
(* commit, a redelivery or a republish may make a counter too large, and   *)
(* never too small.                                                        *)
(***************************************************************************)
THEOREM NoOutcomeUncounted == AccountingSpec => []OutcomesCounted
<1> DEFINE Inv == TypeInv /\ DispatchedReady /\ CoverInv
<1>1. AccountingInit => Inv
  <2> SUFFICES ASSUME AccountingInit PROVE Inv
    OBVIOUS
  <2>1. TypeInv /\ DispatchedReady
    BY TypeInvInit DEF AccountingInit, Init, BrokerInit, SchedulerInit, DispatchedReady, Members
  <2>2. \A s \in {"completed", "failed"} : Finished(s) = {} /\ Storers(Place(s)) = {}
    BY DEF AccountingInit, Init, WorkerInit, RepoInit, NoRow, Finished, Storers, Place
  <2>3. IsFiniteSet({}) /\ Cardinality({}) = 0
    BY FS_EmptySet
  <2>4. CountersThere /\ \A s \in {"completed", "failed"} : metrics[s] = 0
    BY DEF AccountingInit, CountersThere
  <2> QED
    <3>1. \A s \in {"completed", "failed"} :
            /\ metrics[s] \in Int /\ IsFiniteSet(Storers(Place(s)))
            /\ Cardinality(Finished(s)) + Cardinality(Storers(Place(s))) <= metrics[s]
      <4> SUFFICES ASSUME NEW s \in {"completed", "failed"}
                   PROVE  /\ metrics[s] \in Int /\ IsFiniteSet(Storers(Place(s)))
                          /\ Cardinality(Finished(s)) + Cardinality(Storers(Place(s))) <= metrics[s]
        OBVIOUS
      <4>1. /\ Cardinality(Finished(s)) = 0 /\ Cardinality(Storers(Place(s))) = 0
            /\ IsFiniteSet(Storers(Place(s))) /\ metrics[s] = 0
        BY <2>2, <2>3, <2>4
      <4> QED
        BY <4>1
    <3> QED
      BY <2>1, <2>4, <3>1 DEF CoverInv
<1>2. Inv /\ [AccountingNext]_accountingVars => Inv'
  <2> SUFFICES ASSUME Inv, [AccountingNext]_accountingVars PROVE Inv'
    OBVIOUS
  <2>1. [Next]_vars
    BY DEF AccountingNext, accountingVars
  <2> QED
    BY <2>1, TypeInvNext, DispatchedReadyNext, CoverNext
<1>3. Inv => OutcomesCounted
  <2> SUFFICES ASSUME CoverInv PROVE OutcomesCounted
    OBVIOUS
  <2>1. /\ \A s : Having(s) = Cardinality(Finished(s))
        /\ \A p : Storing(p) = Cardinality(Storers(p))
    BY DEF Having, Finished, Storing, Storers, Registered
  <2> QED
    BY <2>1 DEF CoverInv, OutcomesCounted, Place
<1> HIDE DEF Inv
<1> QED
  BY <1>1, <1>2, <1>3, PTL DEF AccountingSpec
=============================================================================
