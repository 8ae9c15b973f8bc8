---------------------------- MODULE RsufzProofs -----------------------------
(***************************************************************************)
(* The first theorems about Rsufz, for every number of tasks, workers,     *)
(* schedulers, messages and failures, and for all timeouts and batch       *)
(* sizes: type correctness with the inductive invariant TypeInv the others *)
(* rest on, the refinement of TaskLifecycle, and dependencies.             *)
(***************************************************************************)
EXTENDS Rsufz, FiniteSetTheorems, TLAPS

-----------------------------------------------------------------------------
(* Lemmas about the definitions the model is built from. *)

LEMMA TransitionFacts ==
  ASSUME NEW from, NEW next, CanTransition(from, next)
  PROVE  /\ from \in Status /\ next \in Status
         /\ from \in {"pending", "running", "failed"}
         /\ next = "completed" => from = "running"
         /\ next = "failed" => from = "running"
         /\ next = "cancelled" => from = "pending"
         /\ next = "pending" => from \in {"running", "failed"}
BY DEF CanTransition, allowedTransitions, Status

LEMMA DelayType == \A n \in Nat : Delay(BackoffBase, BackoffMax, n) \in Nat
BY WorkerAssumption DEF Delay

LEMMA UpdateType ==
  ASSUME RepoTypeOK, NEW t \in TaskID, NEW next, NEW row \in Row, UpdateTask(t, next, row)
  PROVE  RepoTypeOK'
<1>1. next \in Status
  BY TransitionFacts DEF UpdateTask
<1>2. [row EXCEPT !.status = next, !.age = 0] \in Row
  BY <1>1 DEF Row
<1> QED
  BY <1>2 DEF RepoTypeOK, UpdateTask

LEMMA DueFinite == IsFiniteSet(Due) /\ Cardinality(Due) \in Nat
<1>1. Due \subseteq TaskID
  BY DEF Due
<1> QED
  BY <1>1, RepoAssumption, FS_Subset, FS_CardinalityType

LEMMA BatchFacts ==
  ASSUME NEW q \in Batches(BatchSize)
  PROVE  /\ q \in Seq(TaskID)
         /\ Members(q) \subseteq Due
         /\ DOMAIN q = 1..Len(q)
<1> DEFINE n == IF Cardinality(Due) < BatchSize THEN Cardinality(Due) ELSE BatchSize
<1>1. n \in Nat
  BY DueFinite, SchedulerAssumption
<1>2. q \in [1..n -> Due]
  BY DEF Batches
<1>3. Due \subseteq TaskID
  BY DEF Due
<1> HIDE DEF n
<1>4. q \in Seq(Due)
  BY <1>1, <1>2
<1> QED
  BY <1>1, <1>2, <1>3, <1>4 DEF Members

LEMMA MarkRunningType ==
  ASSUME RepoTypeOK, NEW q, MarkRunning(q)
  PROVE  RepoTypeOK'
<1>1. \A t \in TaskID : [tasks[t] EXCEPT !.status = "running", !.age = 0] \in Row
  BY DEF RepoTypeOK, Row, Status
<1> QED
  BY <1>1 DEF RepoTypeOK, MarkRunning

LEMMA ResetType ==
  ASSUME RepoTypeOK, ResetStuckRunning
  PROVE  RepoTypeOK'
<1>1. \A t \in TaskID :
        [tasks[t] EXCEPT !.status = "pending", !.worker_id = NoWorker, !.age = 0] \in Row
  BY DEF RepoTypeOK, Row, Status
<1> QED
  BY <1>1 DEF RepoTypeOK, ResetStuckRunning

LEMMA BeatType ==
  ASSUME RepoTypeOK, NEW t \in TaskID, NEW w \in WorkerID, Beat(t, w)
  PROVE  tasks' \in [TaskID -> Row]
<1>1. [tasks[t] EXCEPT !.age = 0, !.worker_id = w] \in Row
  BY DEF RepoTypeOK, Row
<1> QED
  BY <1>1 DEF RepoTypeOK, Beat

LEMMA RowsAgeType ==
  ASSUME RepoTypeOK, RowsAge
  PROVE  tasks' \in [TaskID -> Row]
<1>1. ASSUME NEW t \in TaskID, NEW a \in Nat, NEW b \in Nat
      PROVE  [tasks[t] EXCEPT !.wait = a, !.age = b] \in Row
  BY DEF RepoTypeOK, Row
<1>2. \A t \in TaskID : tasks[t].wait \in Nat /\ tasks[t].age \in Nat
  BY DEF RepoTypeOK, Row
<1>3. ASSUME NEW t \in TaskID
      PROVE  [tasks[t] EXCEPT !.wait = IF @ > 0 THEN @ - 1 ELSE 0,
                              !.age  = IF @ < AgeCap(tasks[t].status) THEN @ + 1 ELSE @]
               \in Row
  <2> DEFINE a == IF tasks[t].wait > 0 THEN tasks[t].wait - 1 ELSE 0
             b == IF tasks[t].age < AgeCap(tasks[t].status) THEN tasks[t].age + 1
                  ELSE tasks[t].age
  <2>1. a \in Nat
    BY <1>2
  <2>2. b \in Nat
    BY <1>2
  <2>3. [tasks[t] EXCEPT !.wait = a, !.age = b] \in Row
    BY <1>1, <2>1, <2>2
  <2> QED
    BY <2>3
<1> QED
  BY <1>3 DEF RowsAge

LEMMA CreateType ==
  ASSUME RepoTypeOK, NEW t \in TaskID, NEW cmd \in Cmds, NEW D \in SUBSET TaskID,
         Create(t, cmd, D)
  PROVE  RepoTypeOK'
<1>1. [status |-> "pending", type |-> cmd.type, priority |-> cmd.priority,
       retry_limit |-> cmd.retry_limit, attempt_count |-> 0, wait |-> cmd.wait,
       age |-> 0, worker_id |-> NoWorker, key |-> cmd.key] \in Row
  BY GatewayAssumption DEF Row, Status
<1> QED
  BY <1>1 DEF RepoTypeOK, Create

-----------------------------------------------------------------------------
(* Type correctness. *)

\* The steps of process at which a delivery is being processed.
Busy == {"get", "run", "complete", "retry", "fail", "dlq", "ack"}

\* A busy worker has a delivery: what makes TaskOf meaningful.
JobOK == \A w \in WorkerID : pc[w] \in Busy => job[w] # 0

\* Only messages of the stream are in the pending entries list.
PendingInStream == \A m \in MsgId : owner[m] # NoWorker => m <= Len(stream)

LEMMA TaskOfType ==
  ASSUME TypeOK, JobOK, NEW w \in WorkerID, pc[w] \in Busy
  PROVE  job[w] \in 1..Len(stream) /\ TaskOf(w) \in TaskID
<1>1. job[w] \in 1..Len(stream)
  BY DEF TypeOK, WorkerTypeOK, BrokerTypeOK, JobOK
<1> QED
  BY <1>1 DEF TypeOK, BrokerTypeOK, TaskOf

LEMMA ClientType ==
  ASSUME TypeOK, JobOK, ClientStep
  PROVE  TypeOK' /\ JobOK'
<1>1. RepoTypeOK'
  <2>1. CASE \E t \in TaskID, cmd \in Cmds, D \in SUBSET TaskID : Enqueue(t, cmd, D)
    BY <2>1, CreateType DEF TypeOK, Enqueue
  <2>2. CASE \E t \in Operated : Cancel(t)
    <3>1. PICK t \in Operated : Cancel(t)
      BY <2>2
    <3>2. t \in TaskID /\ tasks[t] \in Row
      BY RsufzAssumption DEF TypeOK, RepoTypeOK
    <3> QED
      BY <3>1, <3>2, UpdateType DEF TypeOK, Cancel
  <2>3. CASE \E t \in Operated : Republish(t)
    <3>1. PICK t \in Operated : Republish(t)
      BY <2>3
    <3>2. t \in TaskID /\ [tasks[t] EXCEPT !.attempt_count = 0] \in Row
      BY RsufzAssumption DEF TypeOK, RepoTypeOK, Row
    <3> QED
      BY <3>1, <3>2, UpdateType DEF TypeOK, Republish
  <2> QED
    BY <2>1, <2>2, <2>3 DEF ClientStep
<1> QED
  BY <1>1 DEF ClientStep, brokerVars, workerVars, TypeOK, BrokerTypeOK, FaultsTypeOK,
              SchedulerTypeOK, WorkerTypeOK, JobOK

\* Members of a sequence of tasks are tasks.
LEMMA MembersType == \A q \in Seq(TaskID) : Members(q) \subseteq TaskID
BY DEF Members

LEMMA FaultType == ASSUME FaultsTypeOK, Fault PROVE FaultsTypeOK'
BY FaultsAssumption DEF FaultsTypeOK, Fault

\* The stream only grows, so what points into it stays valid.
LEMMA XAddType ==
  ASSUME BrokerTypeOK, NEW t \in TaskID, XAdd(t)
  PROVE  /\ BrokerTypeOK'
         /\ Len(stream') = Len(stream) + 1
         /\ \A m \in 1..Len(stream) : stream'[m] = stream[m]
         /\ stream'[Len(stream')] = t
<1>1. /\ stream' \in Seq(TaskID)
      /\ Len(stream') = Len(stream) + 1
      /\ \A m \in 1..Len(stream) : stream'[m] = stream[m]
      /\ stream'[Len(stream')] = t
  BY DEF BrokerTypeOK, XAdd
<1>2. Len(stream) \in Nat /\ last' \in NoGroup..Len(stream')
  BY <1>1 DEF BrokerTypeOK, XAdd, NoGroup
<1> QED
  BY <1>1, <1>2, BrokerAssumption DEF BrokerTypeOK, XAdd

LEMMA SchedulerType ==
  ASSUME TypeOK, JobOK, NEW s \in SchedulerID, SchedulerStep(s)
  PROVE  TypeOK' /\ JobOK'
<1> USE DEF TypeOK
<1>0. outbox[s] \in Seq(TaskID) /\ Members(outbox[s]) \subseteq TaskID
  BY MembersType DEF SchedulerTypeOK
<1>1. CASE Tick(s)
  <2>1. PICK q \in Batches(BatchSize) :
          /\ MarkRunning(q)
          /\ outbox' = [outbox EXCEPT ![s] = q]
          /\ lost' = lost \ Members(q)
    BY <1>1 DEF Tick
  <2>2. RepoTypeOK'
    BY <2>1, MarkRunningType
  <2>3. SchedulerTypeOK'
    BY <2>1, BatchFacts DEF SchedulerTypeOK
  <2> QED
    BY <1>1, <2>1, <2>2, <2>3 DEF Tick, SchedulerStep, workerVars, BrokerTypeOK,
                                  FaultsTypeOK, WorkerTypeOK, JobOK
<1>2. CASE TickError(s)
  <2>1. PICK q \in Batches(BatchSize) : MarkRunning(q) /\ lost' = lost \cup Members(q)
    BY <1>2 DEF TickError
  <2>2. RepoTypeOK' /\ Members(q) \subseteq TaskID
    BY <2>1, MarkRunningType, BatchFacts, MembersType
  <2>3. FaultsTypeOK'
    BY <1>2, FaultType DEF TickError
  <2> QED
    BY <1>2, <2>1, <2>2, <2>3 DEF TickError, SchedulerStep, workerVars, BrokerTypeOK,
                                  SchedulerTypeOK, WorkerTypeOK, JobOK
<1>3. CASE PublishNext(s)
  <2>1. Head(outbox[s]) \in TaskID /\ Tail(outbox[s]) \in Seq(TaskID)
    BY <1>0, <1>3 DEF PublishNext
  <2>2. BrokerTypeOK' /\ Len(stream') = Len(stream) + 1 /\ Len(stream) \in Nat
    BY <1>3, <2>1, XAddType DEF PublishNext, BrokerTypeOK
  <2>3. SchedulerTypeOK'
    BY <1>3, <2>1 DEF PublishNext, SchedulerTypeOK
  <2>4. WorkerTypeOK'
    BY <1>3, <2>2 DEF PublishNext, SchedulerStep, workerVars, WorkerTypeOK
  <2> QED
    BY <1>3, <2>2, <2>3, <2>4 DEF PublishNext, SchedulerStep, workerVars, RepoTypeOK,
                                  FaultsTypeOK, JobOK
<1>4. CASE PublishError(s)
  <2>1. Head(outbox[s]) \in TaskID /\ Tail(outbox[s]) \in Seq(TaskID)
    BY <1>0, <1>4 DEF PublishError
  <2>2. SchedulerTypeOK' /\ BrokerTypeOK'
    BY <1>4, <2>1 DEF PublishError, SchedulerTypeOK, BrokerTypeOK
  <2>3. FaultsTypeOK'
    BY <1>4, FaultType DEF PublishError
  <2> QED
    BY <1>4, <2>2, <2>3 DEF PublishError, SchedulerStep, workerVars, RepoTypeOK,
                            WorkerTypeOK, JobOK
<1>5. CASE SchedulerStop(s)
  <2>1. SchedulerTypeOK' /\ BrokerTypeOK'
    BY <1>0, <1>5 DEF SchedulerStop, SchedulerTypeOK, BrokerTypeOK
  <2>2. FaultsTypeOK'
    BY <1>5, FaultType DEF SchedulerStop
  <2> QED
    BY <1>5, <2>1, <2>2 DEF SchedulerStop, SchedulerStep, workerVars, RepoTypeOK,
                            WorkerTypeOK, JobOK
<1> QED
  BY <1>1, <1>2, <1>3, <1>4, <1>5 DEF SchedulerStep

LEMMA MonitorType ==
  ASSUME TypeOK, JobOK, MonitorStep
  PROVE  TypeOK' /\ JobOK'
<1>1. RepoTypeOK'
  BY ResetType DEF TypeOK, MonitorStep, MonitorCheck
<1> QED
  BY <1>1 DEF TypeOK, MonitorStep, MonitorCheck, workerVars, BrokerTypeOK, FaultsTypeOK,
              SchedulerTypeOK, WorkerTypeOK, JobOK

LEMMA ElapseType ==
  ASSUME TypeOK, JobOK, Elapse
  PROVE  TypeOK' /\ JobOK'
<1>1. RepoTypeOK'
  BY RowsAgeType DEF TypeOK, Elapse, RepoTypeOK
<1>2. BrokerTypeOK'
  BY BrokerAssumption DEF TypeOK, Elapse, EntriesAge, BrokerTypeOK
<1>3. WorkerTypeOK'
  BY WorkerAssumption DEF TypeOK, Elapse, HandlersRun, WorkerTypeOK
<1> QED
  BY <1>1, <1>2, <1>3 DEF TypeOK, Elapse, FaultsTypeOK, SchedulerTypeOK, JobOK

\* Delivering messages of the stream to a worker.
LEMMA DeliverType ==
  ASSUME BrokerTypeOK, NEW w \in WorkerID, NEW M, Deliver(w, M)
  PROVE  /\ owner' \in [MsgId -> WorkerID \cup {NoWorker}]
         /\ idle' \in [MsgId -> 0..MinIdle]
BY BrokerAssumption DEF BrokerTypeOK, Deliver

LEMMA ReadType ==
  ASSUME BrokerTypeOK, NEW w \in WorkerID, XReadGroup(w)
  PROVE  BrokerTypeOK' /\ stream' = stream
<1>1. last' \in NoGroup..Len(stream)
  BY BrokerAssumption DEF BrokerTypeOK, XReadGroup, NoGroup, Unread
<1> QED
  BY <1>1, DeliverType DEF BrokerTypeOK, XReadGroup

LEMMA ClaimType ==
  ASSUME BrokerTypeOK, NEW w \in WorkerID, XAutoClaim(w)
  PROVE  BrokerTypeOK' /\ stream' = stream
BY DeliverType DEF BrokerTypeOK, XAutoClaim

\* What the reader goroutine does to the types.
LEMMA ReaderType ==
  ASSUME TypeOK, JobOK, PendingInStream, UNCHANGED outbox, NEW w \in WorkerID,
         \/ Subscribe(w) \/ ReclaimPending(w) \/ ReclaimError(w)
         \/ ReadNew(w) \/ ReadError(w)
  PROVE  TypeOK' /\ JobOK'
<1> USE DEF TypeOK
<1>1. CASE Subscribe(w)
  <2>1. BrokerTypeOK' /\ stream' = stream
    BY <1>1 DEF Subscribe, CreateGroup, BrokerTypeOK, NoGroup
  <2> QED
    BY <1>1, <2>1 DEF Subscribe, Goto, RepoTypeOK, FaultsTypeOK, SchedulerTypeOK,
                      WorkerTypeOK, JobOK, Busy
<1>2. CASE ReclaimPending(w)
  <2>1. BrokerTypeOK' /\ stream' = stream
    BY <1>2, ClaimType DEF ReclaimPending
  <2>2. Claimed \subseteq 1..Len(stream)
    <3>1. Claimed \subseteq Claimable
      BY DEF Claimed
    <3>2. Claimable \subseteq 1..Len(stream)
      BY BrokerAssumption DEF Claimable, PendingInStream, MsgId, BrokerTypeOK
    <3> QED
      BY <3>1, <3>2
  <2> QED
    BY <1>2, <2>1, <2>2 DEF ReclaimPending, Goto, RepoTypeOK, FaultsTypeOK,
                            SchedulerTypeOK, WorkerTypeOK, JobOK, Busy
<1>3. CASE ReclaimError(w)
  <2>1. BrokerTypeOK' /\ stream' = stream
    BY <1>3, ClaimType DEF ReclaimError, brokerVars, BrokerTypeOK
  <2>2. FaultsTypeOK'
    BY <1>3, FaultType DEF ReclaimError
  <2> QED
    BY <1>3, <2>1, <2>2 DEF ReclaimError, Goto, RepoTypeOK, SchedulerTypeOK,
                            WorkerTypeOK, JobOK, Busy
<1>4. CASE ReadNew(w)
  <2>1. BrokerTypeOK' /\ stream' = stream
    BY <1>4, ReadType DEF ReadNew, Reading
  <2>2. Unread \subseteq 1..Len(stream)
    BY DEF Unread
  <2> QED
    BY <1>4, <2>1, <2>2 DEF ReadNew, RepoTypeOK, FaultsTypeOK, SchedulerTypeOK,
                            WorkerTypeOK, JobOK
<1>5. CASE ReadError(w)
  <2>1. BrokerTypeOK' /\ stream' = stream
    BY <1>5, ReadType DEF ReadError, Reading
  <2>2. FaultsTypeOK'
    BY <1>5, FaultType DEF ReadError
  <2> QED
    BY <1>5, <2>1, <2>2 DEF ReadError, workerVars, RepoTypeOK, SchedulerTypeOK,
                            WorkerTypeOK, JobOK
<1> QED
  BY <1>1, <1>2, <1>3, <1>4, <1>5

LEMMA CommitType ==
  ASSUME TypeOK, JobOK, NEW w \in WorkerID, Commit(w)
  PROVE  RepoTypeOK'
<1> USE DEF TypeOK
<1>1. TaskOf(w) \in TaskID
  BY TaskOfType DEF Commit, Busy
<1>2. tasks[TaskOf(w)] \in Row
  BY <1>1 DEF RepoTypeOK
<1>3. CASE SetCompleted(w)
  <2>1. [tasks[TaskOf(w)] EXCEPT !.worker_id = w] \in Row
    BY <1>2 DEF Row
  <2> QED
    BY <1>1, <1>3, <2>1, UpdateType DEF SetCompleted
<1>4. CASE SetRetry(w)
  <2>1. snap[w] \in Nat /\ Delay(BackoffBase, BackoffMax, snap[w]) \in Nat
    BY DelayType DEF WorkerTypeOK
  <2>2. [tasks[TaskOf(w)] EXCEPT !.attempt_count = snap[w],
                                 !.wait = Delay(BackoffBase, BackoffMax, snap[w]),
                                 !.worker_id = NoWorker] \in Row
    BY <1>2, <2>1 DEF Row
  <2> QED
    BY <1>1, <1>4, <2>2, UpdateType DEF SetRetry
<1>5. CASE SetFailed(w)
  <2>1. [tasks[TaskOf(w)] EXCEPT !.worker_id = NoWorker] \in Row
    BY <1>2 DEF Row
  <2> QED
    BY <1>1, <1>5, <2>1, UpdateType DEF SetFailed
<1> QED
  BY <1>3, <1>4, <1>5 DEF Commit

\* The steps of process that only move the worker along, and those that record
\* an outcome or touch the broker.
LEMMA ProcessType ==
  ASSUME TypeOK, JobOK, UNCHANGED outbox, NEW w \in WorkerID,
         \/ Receive(w) \/ GetTask(w) \/ GetMissing(w)
         \/ Heartbeat(w) \/ HeartbeatError(w) \/ HandlerOk(w) \/ HandlerError(w)
         \/ Mark(w) \/ MarkRejected(w) \/ MarkReplyLost(w)
         \/ PublishDLQ(w) \/ PublishDLQError(w) \/ Ack(w) \/ CallError(w) \/ WorkerStop(w)
  PROVE  TypeOK' /\ JobOK'
<1> USE DEF TypeOK
<1>a. UNCHANGED stream
  BY DEF Receive, GetTask, GetMissing, Heartbeat, HeartbeatError, HandlerOk, HandlerError,
         Mark, MarkRejected, MarkReplyLost, PublishDLQ, PublishDLQError, Ack, CallError,
         WorkerStop, brokerVars, XAddDLQ, XAck
<1>b. FaultsTypeOK'
  BY FaultType
     DEF Receive, GetTask, GetMissing, Heartbeat, HeartbeatError, HandlerOk, HandlerError,
         Mark, MarkRejected, MarkReplyLost, PublishDLQ, PublishDLQError, Ack, CallError,
         WorkerStop, FaultsTypeOK
<1>c. SchedulerTypeOK'
  BY DEF SchedulerTypeOK
<1>1. CASE Receive(w)
  BY <1>1, <1>a, <1>b, <1>c DEF Receive, Goto, brokerVars, RepoTypeOK, BrokerTypeOK,
                                WorkerTypeOK, JobOK, Busy
<1>2. CASE GetTask(w)
  <2>1. tasks[TaskOf(w)].attempt_count \in Nat
    BY <1>2, TaskOfType DEF GetTask, Busy, RepoTypeOK, Row
  <2>2. PICK next \in {"ack", "fail", "run"} : pc' = [pc EXCEPT ![w] = next]
    BY <1>2 DEF GetTask, Goto
  <2>3. JobOK'
    BY <1>2, <2>2 DEF GetTask, WorkerTypeOK, JobOK, Busy
  <2>4. pc' \in [WorkerID -> {"down", "claim", "idle", "get", "run", "complete", "retry",
                              "fail", "dlq", "ack"}]
    BY <2>2 DEF WorkerTypeOK
  <2>5. /\ snap' \in [WorkerID -> Nat]
        /\ hb' \in [WorkerID -> 0..HBInterval]
        /\ ran' \in [WorkerID -> 0..MaxRun]
    <3>1. CASE UNCHANGED <<snap, hb, ran>>
      BY <3>1 DEF WorkerTypeOK
    <3>2. CASE /\ snap' = [snap EXCEPT ![w] = tasks[TaskOf(w)].attempt_count]
               /\ hb' = [hb EXCEPT ![w] = 0]
               /\ ran' = [ran EXCEPT ![w] = 0]
      BY <2>1, <3>2, WorkerAssumption DEF WorkerTypeOK
    <3> QED
      BY <1>2, <3>1, <3>2 DEF GetTask
  <2> QED
    BY <1>2, <1>a, <1>b, <1>c, <2>3, <2>4, <2>5
       DEF GetTask, brokerVars, RepoTypeOK, BrokerTypeOK, WorkerTypeOK
<1>3. CASE GetMissing(w)
  BY <1>3, <1>a, <1>b, <1>c DEF GetMissing, Done, Goto, brokerVars, RepoTypeOK,
                                BrokerTypeOK, WorkerTypeOK, JobOK, Busy
<1>4. CASE Heartbeat(w)
  <2>1. RepoTypeOK'
    BY <1>4, TaskOfType, BeatType DEF Heartbeat, Busy, RepoTypeOK
  <2> QED
    BY <1>4, <1>a, <1>b, <1>c, <2>1, WorkerAssumption
       DEF Heartbeat, brokerVars, BrokerTypeOK, WorkerTypeOK, JobOK
<1>5. CASE HeartbeatError(w)
  BY <1>5, <1>a, <1>b, <1>c, WorkerAssumption
     DEF HeartbeatError, brokerVars, RepoTypeOK, BrokerTypeOK, WorkerTypeOK, JobOK
<1>6. CASE HandlerOk(w)
  BY <1>6, <1>a, <1>b, <1>c, WorkerAssumption
     DEF HandlerOk, Goto, brokerVars, RepoTypeOK, BrokerTypeOK, WorkerTypeOK, JobOK, Busy
<1>7. CASE HandlerError(w)
  <2>1. PICK next \in {"retry", "fail"}, n \in Nat :
          pc' = [pc EXCEPT ![w] = next] /\ snap' = [snap EXCEPT ![w] = n]
    <3>1. snap[w] + 1 \in Nat
      BY DEF WorkerTypeOK
    <3> QED
      BY <1>7, <3>1 DEF HandlerError, Goto, WorkerTypeOK
  <2> QED
    BY <1>7, <1>a, <1>b, <1>c, <2>1, WorkerAssumption
       DEF HandlerError, brokerVars, RepoTypeOK, BrokerTypeOK, WorkerTypeOK, JobOK, Busy
<1>8. CASE Mark(w)
  <2>1. RepoTypeOK' /\ pc[w] \in {"complete", "retry", "fail"}
    BY <1>8, CommitType DEF Mark, Commit
  <2> QED
    BY <1>8, <1>a, <1>b, <1>c, <2>1
       DEF Mark, Goto, brokerVars, BrokerTypeOK, WorkerTypeOK, JobOK, Busy
<1>9. CASE MarkRejected(w)
  BY <1>9, <1>a, <1>b, <1>c DEF MarkRejected, Done, Goto, brokerVars, RepoTypeOK,
                                BrokerTypeOK, WorkerTypeOK, JobOK, Busy
<1>10. CASE MarkReplyLost(w)
  <2>1. RepoTypeOK'
    BY <1>10, CommitType DEF MarkReplyLost
  <2> QED
    BY <1>10, <1>a, <1>b, <1>c, <2>1
       DEF MarkReplyLost, Done, Goto, brokerVars, BrokerTypeOK, WorkerTypeOK, JobOK, Busy
<1>11. CASE PublishDLQ(w)
  <2>1. TaskOf(w) \in TaskID
    BY <1>11, TaskOfType DEF PublishDLQ, Busy
  <2> QED
    BY <1>11, <1>a, <1>b, <1>c, <2>1
       DEF PublishDLQ, XAddDLQ, Goto, RepoTypeOK, BrokerTypeOK, WorkerTypeOK, JobOK, Busy
<1>12. CASE PublishDLQError(w)
  BY <1>12, <1>a, <1>b, <1>c DEF PublishDLQError, Goto, brokerVars, RepoTypeOK,
                                 BrokerTypeOK, WorkerTypeOK, JobOK, Busy
<1>13. CASE Ack(w)
  <2>1. BrokerTypeOK'
    <3>1. owner' = [owner EXCEPT ![job[w]] = NoWorker] /\ idle' = [idle EXCEPT ![job[w]] = 0]
      BY <1>13 DEF Ack, XAck
    <3>2. owner' \in [MsgId -> WorkerID \cup {NoWorker}]
      BY <3>1 DEF BrokerTypeOK
    <3>3. idle' \in [MsgId -> 0..MinIdle]
      <4>1. 0 \in 0..MinIdle
        BY BrokerAssumption
      <4>2. idle \in [MsgId -> 0..MinIdle]
        BY DEF BrokerTypeOK
      <4> QED
        BY <3>1, <4>1, <4>2
    <3> QED
      BY <1>13, <3>2, <3>3 DEF Ack, XAck, BrokerTypeOK
  <2> QED
    BY <1>13, <1>a, <1>b, <1>c, <2>1
       DEF Ack, Done, Goto, RepoTypeOK, WorkerTypeOK, JobOK, Busy
<1>14. CASE CallError(w)
  BY <1>14, <1>a, <1>b, <1>c DEF CallError, Done, Goto, brokerVars, RepoTypeOK,
                                 BrokerTypeOK, WorkerTypeOK, JobOK, Busy
<1>15. CASE WorkerStop(w)
  BY <1>15, <1>a, <1>b, <1>c, WorkerAssumption
     DEF WorkerStop, brokerVars, RepoTypeOK, BrokerTypeOK, WorkerTypeOK, JobOK, Busy
<1> QED
  BY <1>1, <1>2, <1>3, <1>4, <1>5, <1>6, <1>7, <1>8, <1>9, <1>10, <1>11, <1>12, <1>13,
     <1>14, <1>15

LEMMA PendingStable ==
  ASSUME TypeOK, PendingInStream, [Next]_vars
  PROVE  PendingInStream'
<1> USE DEF TypeOK
<1>1. ASSUME UNCHANGED <<stream, owner>>
      PROVE  PendingInStream'
  BY <1>1 DEF PendingInStream
<1>2. CASE ClientStep
  BY <1>1, <1>2 DEF ClientStep, brokerVars
<1>3. ASSUME NEW s \in SchedulerID, SchedulerStep(s)
      PROVE  PendingInStream'
  <2>1. CASE PublishNext(s)
    <3>1. Head(outbox[s]) \in TaskID
      BY <2>1 DEF PublishNext, SchedulerTypeOK
    <3>2. Len(stream') = Len(stream) + 1 /\ Len(stream) \in Nat
      BY <2>1, <3>1, XAddType DEF PublishNext, BrokerTypeOK
    <3> QED
      BY <2>1, <3>2, BrokerAssumption DEF PublishNext, XAdd, PendingInStream, MsgId
  <2> QED
    BY <1>1, <1>3, <2>1 DEF SchedulerStep, Tick, TickError, PublishError, SchedulerStop
<1>4. CASE MonitorStep
  BY <1>1, <1>4 DEF MonitorStep, MonitorCheck
<1>5. ASSUME NEW w \in WorkerID, WorkerStep(w)
      PROVE  PendingInStream'
  <2>1. CASE XReadGroup(w)
    <3>1. Unread \subseteq 1..Len(stream)
      BY DEF Unread
    <3>2. \A m \in MsgId : owner'[m] # NoWorker => m \in Unread \/ owner[m] # NoWorker
      BY <2>1 DEF XReadGroup, Deliver
    <3> QED
      BY <2>1, <3>1, <3>2, BrokerAssumption DEF XReadGroup, PendingInStream, MsgId,
                                                BrokerTypeOK
  <2>2. CASE XAutoClaim(w)
    <3>1. \A m \in MsgId : owner'[m] # NoWorker => owner[m] # NoWorker
      BY <2>2 DEF XAutoClaim, Deliver, Claimed, Claimable
    <3> QED
      BY <2>2, <3>1 DEF XAutoClaim, PendingInStream
  <2>3. CASE Ack(w)
    BY <2>3 DEF Ack, XAck, PendingInStream, BrokerTypeOK
  <2> QED
    BY <1>1, <1>5, <2>1, <2>2, <2>3
       DEF WorkerStep, Subscribe, ReclaimPending, ReclaimError, ReadNew, ReadError, Reading,
           Receive, GetTask, GetMissing, Heartbeat, HeartbeatError, HandlerOk, HandlerError,
           Mark, MarkRejected, MarkReplyLost, PublishDLQ, PublishDLQError, CallError,
           WorkerStop, brokerVars, CreateGroup, XAddDLQ
<1>6. CASE Elapse
  BY <1>1, <1>6 DEF Elapse
<1>7. CASE UNCHANGED vars
  BY <1>1, <1>7 DEF vars
<1> QED
  BY <1>2, <1>3, <1>4, <1>5, <1>6, <1>7 DEF Next

\* The inductive strengthening of TypeOK.
TypeInv == TypeOK /\ JobOK /\ PendingInStream

LEMMA TypeInvInit == Init => TypeInv
<1> SUFFICES ASSUME Init PROVE TypeInv
  OBVIOUS
<1> USE DEF Init
<1>1. RepoTypeOK
  <2>1. NoRow \in Row
    BY DEF NoRow, Row, TaskType, PriorityMax
  <2> QED
    BY <2>1 DEF RepoInit, RepoTypeOK
<1>2. BrokerTypeOK /\ PendingInStream
  BY BrokerAssumption DEF BrokerInit, BrokerTypeOK, PendingInStream, NoGroup
<1>3. FaultsTypeOK
  BY FaultsAssumption DEF FaultsInit, FaultsTypeOK
<1>4. SchedulerTypeOK
  BY DEF SchedulerInit, SchedulerTypeOK
<1>5. WorkerTypeOK /\ JobOK
  BY <1>2, WorkerAssumption DEF WorkerInit, WorkerTypeOK, JobOK, Busy, BrokerInit
<1> QED
  BY <1>1, <1>2, <1>3, <1>4, <1>5 DEF TypeInv, TypeOK

LEMMA TypeInvNext == TypeInv /\ [Next]_vars => TypeInv'
<1> SUFFICES ASSUME TypeInv, [Next]_vars PROVE TypeInv'
  OBVIOUS
<1> USE DEF TypeInv
<1>1. PendingInStream'
  BY PendingStable
<1>2. CASE ClientStep
  BY <1>1, <1>2, ClientType
<1>3. CASE \E s \in SchedulerID : SchedulerStep(s)
  BY <1>1, <1>3, SchedulerType
<1>4. CASE MonitorStep
  BY <1>1, <1>4, MonitorType
<1>5. ASSUME NEW w \in WorkerID, WorkerStep(w) /\ UNCHANGED outbox PROVE TypeInv'
  BY <1>1, <1>5, ReaderType, ProcessType DEF WorkerStep
<1>6. CASE Elapse
  BY <1>1, <1>6, ElapseType
<1>7. CASE UNCHANGED vars
  BY <1>1, <1>7 DEF vars, TypeOK, RepoTypeOK, BrokerTypeOK, FaultsTypeOK, SchedulerTypeOK,
                    WorkerTypeOK, JobOK
<1> QED
  BY <1>2, <1>3, <1>4, <1>5, <1>6, <1>7 DEF Next

(***************************************************************************)
(* Every variable keeps its type: the cursor of the group and every        *)
(* delivery in a channel or in process point into the stream, whatever is  *)
(* read, claimed, acknowledged or lost.                                    *)
(***************************************************************************)
THEOREM TypeCorrect == Spec => []TypeOK
<1>1. Init => TypeInv
  BY TypeInvInit
<1>2. TypeInv /\ [Next]_vars => TypeInv'
  BY TypeInvNext
<1>3. TypeInv => TypeOK
  BY DEF TypeInv
<1> QED
  BY <1>1, <1>2, <1>3, PTL DEF Spec

-----------------------------------------------------------------------------
(* What the operations of the store do to the statuses: steps of the life   *)
(* cycle.                                                                   *)

Stat == [t \in TaskID |-> tasks[t].status]

LEMMA UpdateStat ==
  ASSUME RepoTypeOK, NEW t \in TaskID, NEW next, NEW row \in Row, UpdateTask(t, next, row)
  PROVE  \A u \in TaskID : tasks'[u].status = IF u = t THEN next ELSE tasks[u].status
<1>1. tasks' = [tasks EXCEPT ![t] = [row EXCEPT !.status = next, !.age = 0]]
  BY DEF UpdateTask
<1>2. [row EXCEPT !.status = next, !.age = 0].status = next
  BY DEF Row
<1> QED
  BY <1>1, <1>2 DEF RepoTypeOK

LEMMA UpdateLifecycle ==
  ASSUME RepoTypeOK, NEW t \in TaskID, NEW next, NEW row \in Row,
         next # "running", UpdateTask(t, next, row)
  PROVE  Lifecycle!Next
<1>3. \A u \in TaskID : tasks'[u].status = IF u = t THEN next ELSE tasks[u].status
  BY UpdateStat
<1>4. Stat' = [u \in TaskID |-> IF u \in {t} THEN next ELSE Stat[u]] /\ UNCHANGED deps
  BY <1>3 DEF Stat, UpdateTask
<1>5. Stat[t] = tasks[t].status /\ CanTransition(tasks[t].status, next)
  BY DEF Stat, UpdateTask
<1>6. CASE next \in {"completed", "failed"}
  <2>1. Lifecycle!Finish(t, next)
    BY <1>4, <1>5, <1>6, TransitionFacts DEF Lifecycle!Finish, Lifecycle!Become, Stat
  <2> QED
    BY <1>6, <2>1 DEF Lifecycle!Next
<1>7. CASE next = "cancelled"
  <2>1. Lifecycle!Cancel(t)
    BY <1>4, <1>5, <1>7, TransitionFacts DEF Lifecycle!Cancel, Lifecycle!Become, Stat
  <2> QED
    BY <2>1 DEF Lifecycle!Next
<1>8. CASE next = "pending"
  <2>1. Lifecycle!Requeue({t})
    BY <1>4, <1>5, <1>8, TransitionFacts DEF Lifecycle!Requeue, Lifecycle!Become, Stat
  <2>2. {t} \in SUBSET TaskID
    OBVIOUS
  <2> QED
    BY <2>1, <2>2 DEF Lifecycle!Next
<1> QED
  BY <1>5, <1>6, <1>7, <1>8, TransitionFacts DEF Status

LEMMA CreateLifecycle ==
  ASSUME RepoTypeOK, NEW t \in TaskID, NEW cmd \in Cmds, NEW D \in SUBSET TaskID,
         Create(t, cmd, D)
  PROVE  Lifecycle!Next
<1>1. \A u \in TaskID : tasks'[u].status = IF u = t THEN "pending" ELSE tasks[u].status
  BY DEF RepoTypeOK, Create
<1>2. Stat' = [Stat EXCEPT ![t] = "pending"] /\ deps' = [deps EXCEPT ![t] = D]
  BY <1>1 DEF Stat, Create
<1>3. Stat[t] = "absent" /\ \A d \in D : Stat[d] # "absent"
  BY DEF Stat, Create, Creatable, Exists, Status
<1>4. Lifecycle!Create(t, D)
  BY <1>2, <1>3 DEF Lifecycle!Create, Stat
<1> QED
  BY <1>4 DEF Lifecycle!Next

LEMMA MarkRunningLifecycle ==
  ASSUME RepoTypeOK, NEW q, Members(q) \subseteq Due, MarkRunning(q)
  PROVE  Lifecycle!Next
<1>0. PICK S : S = Members(q)
  OBVIOUS
<1>1. \A t \in TaskID : [tasks[t] EXCEPT !.status = "running", !.age = 0].status = "running"
  BY DEF RepoTypeOK, Row
<1>2. \A t \in TaskID : tasks'[t].status = IF t \in S THEN "running" ELSE tasks[t].status
  BY <1>0, <1>1 DEF MarkRunning, Members
<1>3. Stat' = [t \in TaskID |-> IF t \in S THEN "running" ELSE Stat[t]] /\ UNCHANGED deps
  <2>1. UNCHANGED deps
    BY DEF MarkRunning
  <2> QED
    BY <1>2, <2>1 DEF Stat
<1>4. /\ S \in SUBSET TaskID
      /\ \A t \in S : Stat[t] = "pending" /\ \A d \in deps[t] : Stat[d] = "completed"
  BY <1>0 DEF Due, Ready, Stat, RepoTypeOK
<1>5. Lifecycle!Start(S)
  BY <1>3, <1>4 DEF Lifecycle!Start, Lifecycle!Become, Stat
<1> QED
  BY <1>4, <1>5 DEF Lifecycle!Next

LEMMA ResetLifecycle ==
  ASSUME RepoTypeOK, ResetStuckRunning
  PROVE  Lifecycle!Next
<1>0. PICK S : S = Stuck
  OBVIOUS
<1>1. \A t \in TaskID :
        [tasks[t] EXCEPT !.status = "pending", !.worker_id = NoWorker, !.age = 0].status
          = "pending"
  BY DEF RepoTypeOK, Row
<1>2. \A t \in TaskID : tasks'[t].status = IF t \in S THEN "pending" ELSE tasks[t].status
  BY <1>0, <1>1 DEF ResetStuckRunning
<1>3. /\ Stat' = [t \in TaskID |-> IF t \in S THEN "pending" ELSE Stat[t]]
      /\ UNCHANGED deps
  BY <1>2 DEF Stat, ResetStuckRunning
<1>4. S \in SUBSET TaskID /\ \A t \in S : Stat[t] = "running"
  BY <1>0 DEF Stuck, Stat
<1>5. Lifecycle!Requeue(S)
  BY <1>3, <1>4 DEF Lifecycle!Requeue, Lifecycle!Become, Stat
<1> QED
  BY <1>4, <1>5 DEF Lifecycle!Next

LEMMA BeatKeepsStatus ==
  ASSUME RepoTypeOK, NEW t \in TaskID, NEW w, Beat(t, w)
  PROVE  Stat' = Stat
<1>1. [tasks[t] EXCEPT !.age = 0, !.worker_id = w].status = tasks[t].status
  BY DEF RepoTypeOK, Row
<1> QED
  BY <1>1 DEF RepoTypeOK, Beat, Stat

LEMMA AgingKeepsStatus ==
  ASSUME RepoTypeOK, RowsAge
  PROVE  Stat' = Stat
<1>1. ASSUME NEW t \in TaskID, NEW a, NEW b
      PROVE  [tasks[t] EXCEPT !.wait = a, !.age = b].status = tasks[t].status
  BY DEF RepoTypeOK, Row
<1>2. ASSUME NEW t \in TaskID PROVE tasks'[t].status = tasks[t].status
  <2> DEFINE a == IF tasks[t].wait > 0 THEN tasks[t].wait - 1 ELSE 0
             b == IF tasks[t].age < AgeCap(tasks[t].status) THEN tasks[t].age + 1
                  ELSE tasks[t].age
  <2>1. tasks'[t] = [tasks[t] EXCEPT !.wait = a, !.age = b]
    BY DEF RowsAge
  <2> QED
    BY <1>1, <2>1
<1> QED
  BY <1>2 DEF Stat

LEMMA CommitLifecycle ==
  ASSUME TypeOK, JobOK, NEW w \in WorkerID, Commit(w)
  PROVE  Lifecycle!Next
<1> USE DEF TypeOK
<1>1. PICK t \in TaskID : t = TaskOf(w)
  BY TaskOfType DEF Commit, Busy
<1>2. tasks[t] \in Row
  BY DEF RepoTypeOK
<1>3. CASE SetCompleted(w)
  <2>1. PICK row \in Row : row = [tasks[t] EXCEPT !.worker_id = w]
    BY <1>2 DEF Row
  <2> QED
    BY <1>1, <1>3, <2>1, UpdateLifecycle DEF SetCompleted
<1>4. CASE SetRetry(w)
  <2>1. snap[w] \in Nat /\ Delay(BackoffBase, BackoffMax, snap[w]) \in Nat
    BY DelayType DEF WorkerTypeOK
  <2>2. PICK row \in Row :
          row = [tasks[t] EXCEPT !.attempt_count = snap[w],
                                 !.wait = Delay(BackoffBase, BackoffMax, snap[w]),
                                 !.worker_id = NoWorker]
    BY <1>2, <2>1 DEF Row
  <2> QED
    BY <1>1, <1>4, <2>2, UpdateLifecycle DEF SetRetry
<1>5. CASE SetFailed(w)
  <2>1. PICK row \in Row : row = [tasks[t] EXCEPT !.worker_id = NoWorker]
    BY <1>2 DEF Row
  <2> QED
    BY <1>1, <1>5, <2>1, UpdateLifecycle DEF SetFailed
<1> QED
  BY <1>3, <1>4, <1>5 DEF Commit

\* Every step is a step of the life cycle or leaves statuses and dependencies alone.
LEMMA LifecycleStep ==
  ASSUME TypeInv, [Next]_vars
  PROVE  Lifecycle!Next \/ UNCHANGED <<Stat, deps>>
<1> USE DEF TypeInv, TypeOK
<1>0. ASSUME UNCHANGED <<tasks, deps>> PROVE UNCHANGED <<Stat, deps>>
  BY <1>0 DEF Stat
<1>1. CASE ClientStep
  <2>1. ASSUME NEW t \in TaskID, NEW cmd \in Cmds, NEW D \in SUBSET TaskID,
               Enqueue(t, cmd, D)
        PROVE  Lifecycle!Next
    BY <2>1, CreateLifecycle DEF Enqueue
  <2>2. ASSUME NEW t \in Operated, Cancel(t)
        PROVE  Lifecycle!Next
    <3>1. t \in TaskID
      BY RsufzAssumption
    <3>2. PICK row \in Row : row = tasks[t]
      BY <3>1 DEF RepoTypeOK
    <3> QED
      BY <2>2, <3>1, <3>2, UpdateLifecycle DEF Cancel
  <2>3. ASSUME NEW t \in Operated, Republish(t)
        PROVE  Lifecycle!Next
    <3>1. t \in TaskID
      BY RsufzAssumption
    <3>2. PICK row \in Row : row = [tasks[t] EXCEPT !.attempt_count = 0]
      BY <3>1 DEF RepoTypeOK, Row
    <3> QED
      BY <2>3, <3>1, <3>2, UpdateLifecycle DEF Republish
  <2> QED
    BY <1>1, <2>1, <2>2, <2>3 DEF ClientStep
<1>2. ASSUME NEW s \in SchedulerID, SchedulerStep(s)
      PROVE  Lifecycle!Next \/ UNCHANGED <<Stat, deps>>
  <2>1. CASE Tick(s) \/ TickError(s)
    <3>1. PICK q \in Batches(BatchSize) : MarkRunning(q)
      BY <2>1 DEF Tick, TickError
    <3> QED
      BY <3>1, BatchFacts, MarkRunningLifecycle
  <2>2. CASE PublishNext(s) \/ PublishError(s) \/ SchedulerStop(s)
    BY <1>0, <2>2 DEF PublishNext, PublishError, SchedulerStop
  <2> QED
    BY <1>2, <2>1, <2>2 DEF SchedulerStep
<1>3. CASE MonitorStep
  BY <1>3, ResetLifecycle DEF MonitorStep, MonitorCheck
<1>4. ASSUME NEW w \in WorkerID, WorkerStep(w)
      PROVE  Lifecycle!Next \/ UNCHANGED <<Stat, deps>>
  <2>1. CASE Mark(w) \/ MarkReplyLost(w)
    BY <2>1, CommitLifecycle DEF Mark, MarkReplyLost
  <2>2. CASE Heartbeat(w)
    <3>1. PICK t \in TaskID : t = TaskOf(w)
      BY <2>2, TaskOfType DEF Heartbeat, Busy
    <3> QED
      BY <2>2, <3>1, BeatKeepsStatus DEF Heartbeat
  <2> QED
    BY <1>0, <1>4, <2>1, <2>2
       DEF WorkerStep, Subscribe, ReclaimPending, ReclaimError, ReadNew, ReadError, Receive,
           GetTask, GetMissing, HeartbeatError, HandlerOk, HandlerError, MarkRejected,
           PublishDLQ, PublishDLQError, Ack, CallError, WorkerStop
<1>5. CASE Elapse
  BY <1>5, AgingKeepsStatus DEF Elapse
<1>6. CASE UNCHANGED vars
  BY <1>0, <1>6 DEF vars
<1> QED
  BY <1>1, <1>2, <1>3, <1>4, <1>5, <1>6 DEF Next

(***************************************************************************)
(* Rsufz implements the life cycle of task.go: whatever dispatches,        *)
(* deliveries, resets and stale updates happen, every task moves through   *)
(* the states the domain allows and starts after its dependencies.         *)
(***************************************************************************)
THEOREM LifecycleImplemented == Spec => ImplementsLifecycle
<1>1. Init => Lifecycle!Init
  BY DEF Init, RepoInit, NoRow, Lifecycle!Init
<1>2. TypeInv /\ [Next]_vars => [Lifecycle!Next]_<<[t \in TaskID |-> tasks[t].status], deps>>
  BY LifecycleStep DEF Stat
<1> QED
  BY <1>1, <1>2, TypeInvInit, TypeInvNext, PTL
     DEF Spec, ImplementsLifecycle, Lifecycle!Spec

-----------------------------------------------------------------------------
(* Dependencies. *)

\* Everything dispatched exists and had its dependencies completed.
DispatchedReady ==
  /\ \A s \in SchedulerID : \A t \in Members(outbox[s]) : Exists(t) /\ Ready(t)
  /\ \A m \in 1..Len(stream) : Exists(stream[m]) /\ Ready(stream[m])

\* Once true of a task, this stays true: completed is final, dependencies are fixed.
LEMMA ReadyStable ==
  ASSUME TypeInv, [Next]_vars, NEW t \in TaskID, Exists(t), Ready(t)
  PROVE  Exists(t)' /\ Ready(t)'
<1> USE DEF TypeInv, TypeOK
<1>0. /\ Stat[t] \in Status
      /\ deps[t] \subseteq TaskID
      /\ \A d \in deps[t] : Stat[d] = "completed"
  BY DEF Exists, Ready, Stat, RepoTypeOK
<1>1. SUFFICES /\ Stat'[t] \in Status
               /\ deps'[t] = deps[t]
               /\ \A d \in deps[t] : Stat'[d] = "completed"
  BY <1>0 DEF Exists, Ready, Stat
<1>2. ASSUME NEW S \in SUBSET TaskID, NEW next \in Status,
             Stat' = [u \in TaskID |-> IF u \in S THEN next ELSE Stat[u]],
             UNCHANGED deps, \A u \in S : Stat[u] # "completed"
      PROVE  /\ Stat'[t] \in Status
             /\ deps'[t] = deps[t]
             /\ \A d \in deps[t] : Stat'[d] = "completed"
  BY <1>0, <1>2
<1>3. CASE UNCHANGED <<Stat, deps>>
  BY <1>0, <1>3
<1>4. ASSUME NEW u \in TaskID, NEW D \in SUBSET TaskID, Lifecycle!Create(u, D)
      PROVE  /\ Stat'[t] \in Status
             /\ deps'[t] = deps[t]
             /\ \A d \in deps[t] : Stat'[d] = "completed"
  <2>1. Stat[u] = "absent" /\ Stat' = [Stat EXCEPT ![u] = "pending"]
        /\ deps' = [deps EXCEPT ![u] = D]
    BY <1>4 DEF Lifecycle!Create, Stat
  <2>2. u # t /\ u \notin deps[t]
    BY <1>0, <2>1 DEF Status
  <2> QED
    BY <1>0, <2>1, <2>2 DEF Stat, RepoTypeOK
<1>5. ASSUME NEW S \in SUBSET TaskID, Lifecycle!Start(S) \/ Lifecycle!Requeue(S)
      PROVE  /\ Stat'[t] \in Status
             /\ deps'[t] = deps[t]
             /\ \A d \in deps[t] : Stat'[d] = "completed"
  <2>1. PICK next \in Status :
          /\ Stat' = [u \in TaskID |-> IF u \in S THEN next ELSE Stat[u]]
          /\ UNCHANGED deps
          /\ \A u \in S : Stat[u] # "completed"
    BY <1>5 DEF Lifecycle!Start, Lifecycle!Requeue, Lifecycle!Become, Stat, Status
  <2> QED
    BY <1>2, <2>1
<1>6. ASSUME NEW u \in TaskID, NEW next \in Status,
             Lifecycle!Finish(u, next) \/ (next = "cancelled" /\ Lifecycle!Cancel(u))
      PROVE  /\ Stat'[t] \in Status
             /\ deps'[t] = deps[t]
             /\ \A d \in deps[t] : Stat'[d] = "completed"
  <2>1. /\ Stat' = [v \in TaskID |-> IF v \in {u} THEN next ELSE Stat[v]]
        /\ UNCHANGED deps
        /\ Stat[u] # "completed"
    BY <1>6 DEF Lifecycle!Finish, Lifecycle!Cancel, Lifecycle!Become, Stat
  <2> QED
    BY <1>2, <2>1
<1>7. CASE Lifecycle!Next
  BY <1>4, <1>5, <1>6, <1>7 DEF Lifecycle!Next, Status
<1> QED
  BY <1>3, <1>7, LifecycleStep

LEMMA TailMembers ==
  ASSUME NEW q \in Seq(TaskID), q # <<>>
  PROVE  /\ Members(q) = Members(Tail(q)) \cup {Head(q)}
         /\ Members(Tail(q)) \subseteq Members(q)
<1>1. /\ DOMAIN q = 1..Len(q) /\ Len(q) \in Nat \ {0}
      /\ DOMAIN Tail(q) = 1..(Len(q) - 1)
      /\ \A i \in 1..(Len(q) - 1) : Tail(q)[i] = q[i + 1]
      /\ Head(q) = q[1]
  OBVIOUS
<1>2. \A i \in DOMAIN q : i = 1 \/ (i - 1 \in DOMAIN Tail(q) /\ q[i] = Tail(q)[i - 1])
  BY <1>1
<1>3. \A i \in DOMAIN Tail(q) : i + 1 \in DOMAIN q /\ Tail(q)[i] = q[i + 1]
  BY <1>1
<1>4. 1 \in DOMAIN q
  BY <1>1
<1>5. Members(Tail(q)) \subseteq Members(q)
  BY <1>3 DEF Members
<1>6. Head(q) \in Members(q)
  BY <1>1, <1>4 DEF Members
<1>7. ASSUME NEW t \in Members(q)
      PROVE  t = Head(q) \/ t \in Members(Tail(q))
  <2>1. PICK i \in DOMAIN q : t = q[i]
    BY DEF Members
  <2>2. CASE i = 1
    BY <1>1, <2>1, <2>2
  <2>3. CASE i # 1
    <3>1. PICK j \in DOMAIN Tail(q) : t = Tail(q)[j]
      BY <1>2, <2>1, <2>3
    <3> QED
      BY <3>1 DEF Members
  <2> QED
    BY <2>2, <2>3
<1> QED
  BY <1>5, <1>6, <1>7

\* What is dispatched after a step was dispatched before it or has been picked.
LEMMA DispatchStep ==
  ASSUME TypeInv, [Next]_vars
  PROVE  /\ \A s \in SchedulerID : \A t \in Members(outbox[s])' :
              \/ t \in Due
              \/ \E v \in SchedulerID : t \in Members(outbox[v])
         /\ \A m \in 1..Len(stream)' :
              \/ \E k \in 1..Len(stream) : stream'[m] = stream[k]
              \/ \E v \in SchedulerID : stream'[m] \in Members(outbox[v])
<1> USE DEF TypeInv, TypeOK
<1>1. CASE UNCHANGED <<stream, outbox>>
  BY <1>1
<1>2. ASSUME NEW s \in SchedulerID, SchedulerStep(s)
      PROVE  /\ \A v \in SchedulerID : \A t \in Members(outbox[v])' :
                    \/ t \in Due
                    \/ \E u \in SchedulerID : t \in Members(outbox[u])
             /\ \A m \in 1..Len(stream)' :
                    \/ \E k \in 1..Len(stream) : stream'[m] = stream[k]
                    \/ \E u \in SchedulerID : stream'[m] \in Members(outbox[u])
  <2>1. CASE Tick(s)
    <3>1. PICK q \in Batches(BatchSize) : outbox' = [outbox EXCEPT ![s] = q]
      BY <2>1 DEF Tick
    <3>2. Members(q) \subseteq Due
      BY BatchFacts
    <3>3. \A v \in SchedulerID : outbox'[v] = IF v = s THEN q ELSE outbox[v]
      BY <3>1 DEF SchedulerTypeOK
    <3> QED
      BY <2>1, <3>2, <3>3 DEF Tick
  <2>2. CASE PublishNext(s)
    <3>1. outbox[s] \in Seq(TaskID) /\ outbox[s] # <<>>
      BY <2>2 DEF PublishNext, SchedulerTypeOK
    <3>2. Head(outbox[s]) \in Members(outbox[s]) /\ Head(outbox[s]) \in TaskID
      BY <3>1 DEF Members
    <3>3. Members(Tail(outbox[s])) \subseteq Members(outbox[s])
      BY <3>1, TailMembers
    <3>4. \A v \in SchedulerID : outbox'[v] = IF v = s THEN Tail(outbox[v]) ELSE outbox[v]
      BY <2>2 DEF PublishNext, SchedulerTypeOK
    <3>5. /\ Len(stream') = Len(stream) + 1 /\ Len(stream) \in Nat
          /\ \A m \in 1..Len(stream) : stream'[m] = stream[m]
          /\ stream'[Len(stream')] = Head(outbox[s])
      BY <2>2, <3>2, XAddType DEF PublishNext, BrokerTypeOK
    <3>6. \A m \in 1..Len(stream') : m \in 1..Len(stream) \/ m = Len(stream')
      BY <3>5
    <3> QED
      BY <3>2, <3>3, <3>4, <3>5, <3>6
  <2>3. CASE PublishError(s)
    <3>1. outbox[s] \in Seq(TaskID) /\ outbox[s] # <<>>
      BY <2>3 DEF PublishError, SchedulerTypeOK
    <3>2. Members(Tail(outbox[s])) \subseteq Members(outbox[s])
      BY <3>1, TailMembers
    <3>3. \A v \in SchedulerID : outbox'[v] = IF v = s THEN Tail(outbox[v]) ELSE outbox[v]
      BY <2>3 DEF PublishError, SchedulerTypeOK
    <3> QED
      BY <2>3, <3>2, <3>3 DEF PublishError
  <2>4. CASE SchedulerStop(s)
    <3>1. \A v \in SchedulerID : outbox'[v] = IF v = s THEN <<>> ELSE outbox[v]
      BY <2>4 DEF SchedulerStop, SchedulerTypeOK
    <3>2. Members(<<>>) = {}
      BY DEF Members
    <3> QED
      BY <2>4, <3>1, <3>2 DEF SchedulerStop
  <2> QED
    BY <1>1, <1>2, <2>1, <2>2, <2>3, <2>4 DEF SchedulerStep, TickError
<1>3. ASSUME NEW w \in WorkerID, WorkerStep(w) /\ UNCHANGED outbox
      PROVE  UNCHANGED <<stream, outbox>>
  BY <1>3
     DEF WorkerStep, Subscribe, ReclaimPending, ReclaimError, ReadNew, ReadError, Reading,
         Receive, GetTask, GetMissing, Heartbeat, HeartbeatError, HandlerOk, HandlerError,
         Mark, MarkRejected, MarkReplyLost, PublishDLQ, PublishDLQError, Ack, CallError,
         WorkerStop, brokerVars, CreateGroup, XAutoClaim, XReadGroup, XAddDLQ, XAck
<1>4. CASE ClientStep \/ MonitorStep \/ Elapse \/ UNCHANGED vars
  BY <1>1, <1>4 DEF ClientStep, MonitorStep, MonitorCheck, Elapse, brokerVars, vars
<1> QED
  BY <1>1, <1>2, <1>3, <1>4 DEF Next

LEMMA DispatchedReadyNext ==
  ASSUME TypeInv, DispatchedReady, [Next]_vars
  PROVE  DispatchedReady'
<1> USE DEF TypeInv, TypeOK
<1>1. /\ \A s \in SchedulerID : Members(outbox[s]) \subseteq TaskID
      /\ \A m \in 1..Len(stream) : stream[m] \in TaskID
  BY MembersType DEF SchedulerTypeOK, BrokerTypeOK
<1>2. \A t \in TaskID : Exists(t) /\ Ready(t) => Exists(t)' /\ Ready(t)'
  BY ReadyStable
<1>3. \A t \in Due : t \in TaskID /\ Exists(t) /\ Ready(t)
  BY DEF Due, Exists, Status
<1>4. /\ \A s \in SchedulerID : \A t \in Members(outbox[s])' :
           \/ t \in Due
           \/ \E v \in SchedulerID : t \in Members(outbox[v])
      /\ \A m \in 1..Len(stream)' :
           \/ \E k \in 1..Len(stream) : stream'[m] = stream[k]
           \/ \E v \in SchedulerID : stream'[m] \in Members(outbox[v])
  BY DispatchStep
<1> QED
  BY <1>1, <1>2, <1>3, <1>4 DEF DispatchedReady

(***************************************************************************)
(* No handler ever starts before the dependencies of its task are          *)
(* completed, although only the scheduler checks them: a worker executes   *)
(* whatever message it gets, however old.                                  *)
(***************************************************************************)
THEOREM DependenciesRespected == Spec => []DepsRespected
<1>1. Init => DispatchedReady
  BY DEF Init, BrokerInit, SchedulerInit, DispatchedReady, Members
<1>2. TypeInv /\ DispatchedReady /\ [Next]_vars => DispatchedReady'
  BY DispatchedReadyNext
<1>3. TypeInv /\ DispatchedReady => DepsRespected
  <2> SUFFICES ASSUME TypeInv, DispatchedReady, NEW w \in WorkerID, pc[w] = "run"
               PROVE  Ready(TaskOf(w))
    BY DEF DepsRespected
  <2>1. job[w] \in 1..Len(stream)
    BY TaskOfType DEF TypeInv, Busy
  <2> QED
    BY <2>1 DEF DispatchedReady, TaskOf
<1> QED
  BY <1>1, <1>2, <1>3, TypeInvInit, TypeInvNext, PTL DEF Spec
=============================================================================
