---------------------------- MODULE OutcomeProofs ----------------------------
(***************************************************************************)
(* Three theorems about a task on its way from the scheduler through the   *)
(* broker to a worker and back to the store, for every number of tasks,    *)
(* workers, schedulers, messages and failures: no running task is silently *)
(* lost, a finished task is never touched again, and a failure costs at    *)
(* most one entry of the dead letter stream.                               *)
(***************************************************************************)
EXTENDS RsufzProofs

-----------------------------------------------------------------------------
(* Only the scheduler's pick makes a task running. *)

NotStarted == \A t \in TaskID : tasks'[t].status = "running" => tasks[t].status = "running"

LEMMA CommitNotStarted ==
  ASSUME TypeOK, JobOK, NEW w \in WorkerID, Commit(w)
  PROVE  NotStarted /\ tasks'[TaskOf(w)].status # "running"
<1> USE DEF TypeOK
<1>1. PICK t \in TaskID : t = TaskOf(w)
  BY TaskOfType DEF Commit, Busy
<1>2. tasks[t] \in Row
  BY DEF RepoTypeOK
<1>3. PICK next \in {"completed", "pending", "failed"}, row \in Row : UpdateTask(t, next, row)
  <2>1. CASE SetCompleted(w)
    <3>1. [tasks[t] EXCEPT !.worker_id = w] \in Row
      BY <1>2 DEF Row
    <3> QED
      BY <1>1, <2>1, <3>1 DEF SetCompleted
  <2>2. CASE SetRetry(w)
    <3>1. snap[w] \in Nat /\ Delay(BackoffBase, BackoffMax, snap[w]) \in Nat
      BY DelayType DEF WorkerTypeOK
    <3>2. [tasks[t] EXCEPT !.attempt_count = snap[w],
                           !.wait = Delay(BackoffBase, BackoffMax, snap[w]),
                           !.worker_id = NoWorker] \in Row
      BY <1>2, <3>1 DEF Row
    <3> QED
      BY <1>1, <2>2, <3>2 DEF SetRetry
  <2>3. CASE SetFailed(w)
    <3>1. [tasks[t] EXCEPT !.worker_id = NoWorker] \in Row
      BY <1>2 DEF Row
    <3> QED
      BY <1>1, <2>3, <3>1 DEF SetFailed
  <2> QED
    BY <2>1, <2>2, <2>3 DEF Commit
<1> QED
  BY <1>1, <1>3, UpdateStat DEF NotStarted

LEMMA ClientNotStarted ==
  ASSUME TypeOK, ClientStep
  PROVE  NotStarted
<1> USE DEF TypeOK
<1>1. ASSUME NEW t \in TaskID, NEW cmd \in Cmds, NEW D \in SUBSET TaskID, Enqueue(t, cmd, D)
      PROVE  NotStarted
  BY <1>1 DEF Enqueue, Create, RepoTypeOK, NotStarted
<1>2. ASSUME NEW t \in Operated, Cancel(t) PROVE NotStarted
  <2>1. t \in TaskID /\ tasks[t] \in Row
    BY RsufzAssumption DEF RepoTypeOK
  <2> QED
    BY <1>2, <2>1, UpdateStat DEF Cancel, NotStarted
<1>3. ASSUME NEW t \in Operated, Republish(t) PROVE NotStarted
  <2>1. t \in TaskID /\ [tasks[t] EXCEPT !.attempt_count = 0] \in Row
    BY RsufzAssumption DEF RepoTypeOK, Row
  <2> QED
    BY <1>3, <2>1, UpdateStat DEF Republish, NotStarted
<1> QED
  BY <1>1, <1>2, <1>3 DEF ClientStep

-----------------------------------------------------------------------------
(* No silent loss. *)

\* A step that leaves stream and outboxes alone keeps a task carried if it keeps
\* the messages of that task carrying it.
LEMMA StillCarried ==
  ASSUME NEW t \in TaskID, UNCHANGED <<stream, outbox>>, Carried(t),
         \A m \in 1..Len(stream) : stream[m] = t /\ Carries(m) => Carries(m)'
  PROVE  Carried(t)'
BY DEF Carried

\* The goal for one step and one running task.
LEMMA SchedulerKeeps ==
  ASSUME TypeInv, NoSilentLoss, NEW s \in SchedulerID, SchedulerStep(s)
  PROVE  NoSilentLoss'
<1> USE DEF TypeInv, TypeOK
<1>0. SUFFICES ASSUME NEW t \in TaskID, tasks'[t].status = "running"
               PROVE  Carried(t)' \/ t \in lost'
  BY DEF NoSilentLoss
<1>1. UNCHANGED workerVars
  BY DEF SchedulerStep
<1>2. ASSUME UNCHANGED <<last, owner>>
      PROVE  \A m \in 1..Len(stream) : Carries(m) => Carries(m)'
  BY <1>1, <1>2 DEF Carries, workerVars
<1>3. ASSUME NEW q, MarkRunning(q), t \notin Members(q)
      PROVE  tasks[t].status = "running"
  BY <1>0, <1>3 DEF MarkRunning, Members
<1>4. CASE Tick(s)
  <2>1. PICK q \in Batches(BatchSize) : /\ MarkRunning(q)
                                        /\ outbox' = [outbox EXCEPT ![s] = q]
                                        /\ lost' = lost \ Members(q)
    BY <1>4 DEF Tick
  <2>2. \A v \in SchedulerID : outbox'[v] = IF v = s THEN q ELSE outbox[v]
    BY <2>1 DEF SchedulerTypeOK
  <2>3. CASE t \in Members(q)
    BY <2>2, <2>3 DEF Carried
  <2>4. CASE t \notin Members(q)
    <3>1. Carried(t) \/ t \in lost'
      BY <1>3, <2>1, <2>4 DEF NoSilentLoss
    <3>2. ASSUME NEW v \in SchedulerID, t \in Members(outbox[v]) PROVE t \in Members(outbox'[v])
      <4>1. outbox[s] = <<>>
        BY <1>4 DEF Tick
      <4>2. v # s
        BY <3>2, <4>1 DEF Members
      <4> QED
        BY <2>2, <3>2, <4>2
    <3>3. \A m \in 1..Len(stream) : Carries(m) => Carries(m)'
      BY <1>2, <1>4 DEF Tick
    <3> QED
      BY <1>4, <3>1, <3>2, <3>3 DEF Tick, Carried
  <2> QED
    BY <2>3, <2>4
<1>5. CASE TickError(s)
  <2>1. PICK q \in Batches(BatchSize) : MarkRunning(q) /\ lost' = lost \cup Members(q)
    BY <1>5 DEF TickError
  <2>2. CASE t \in Members(q)
    BY <2>1, <2>2
  <2>3. CASE t \notin Members(q)
    <3>1. Carried(t) \/ t \in lost'
      BY <1>3, <2>1, <2>3 DEF NoSilentLoss
    <3> QED
      BY <1>2, <1>5, <3>1, StillCarried DEF TickError
  <2> QED
    BY <2>2, <2>3
<1>6. CASE PublishNext(s)
  <2>1. outbox[s] \in Seq(TaskID) /\ outbox[s] # <<>>
    BY <1>6 DEF PublishNext, SchedulerTypeOK
  <2>2. Head(outbox[s]) \in TaskID
    BY <2>1
  <2>3. /\ Len(stream') = Len(stream) + 1 /\ Len(stream) \in Nat
        /\ \A m \in 1..Len(stream) : stream'[m] = stream[m]
        /\ stream'[Len(stream')] = Head(outbox[s])
    BY <1>6, <2>2, XAddType DEF PublishNext, BrokerTypeOK
  <2>4. \A v \in SchedulerID : outbox'[v] = IF v = s THEN Tail(outbox[v]) ELSE outbox[v]
    BY <1>6 DEF PublishNext, SchedulerTypeOK
  <2>n. PICK n \in Nat : n = Len(stream) + 1
    BY <2>3
  <2>5. Carries(n)'
    <3>1. last' = last /\ n > last
      BY <1>6, <2>3, <2>n DEF PublishNext, XAdd, BrokerTypeOK, NoGroup
    <3>2. \A w \in WorkerID : job'[w] # n
      BY <1>1, <2>3, <2>n DEF workerVars, WorkerTypeOK
    <3> QED
      BY <3>1, <3>2 DEF Carries
  <2>6. \A m \in 1..Len(stream) : Carries(m) => Carries(m)'
    BY <1>2, <1>6 DEF PublishNext, XAdd
  <2>7. CASE t = Head(outbox[s])
    <3>1. n \in 1..Len(stream') /\ stream'[n] = t
      BY <2>3, <2>n, <2>7
    <3> QED
      BY <2>5, <3>1 DEF Carried
  <2>8. CASE t # Head(outbox[s])
    <3>1. Carried(t) \/ t \in lost
      BY <1>0, <1>6 DEF PublishNext, NoSilentLoss
    <3>2. \A v \in SchedulerID : t \in Members(outbox[v]) => t \in Members(outbox'[v])
      BY <2>1, <2>4, <2>8, TailMembers
    <3>3. 1..Len(stream) \subseteq 1..Len(stream')
      BY <2>3
    <3> QED
      BY <1>6, <2>3, <2>6, <3>1, <3>2, <3>3 DEF PublishNext, XAdd, Carried
  <2> QED
    BY <2>7, <2>8
<1>7. CASE PublishError(s) \/ SchedulerStop(s)
  <2>1. outbox[s] \in Seq(TaskID) /\ outbox[s] # <<>>
    BY <1>7 DEF PublishError, SchedulerStop, SchedulerTypeOK
  <2>2. Carried(t) \/ t \in lost
    BY <1>0, <1>7 DEF PublishError, SchedulerStop, NoSilentLoss
  <2>3. \A m \in 1..Len(stream) : Carries(m) => Carries(m)'
    BY <1>2, <1>7 DEF PublishError, SchedulerStop
  <2>4. \A v \in SchedulerID : t \in Members(outbox[v]) => t \in Members(outbox'[v]) \/ t \in lost'
    <3>1. CASE PublishError(s)
      <4>1. /\ \A v \in SchedulerID :
                 outbox'[v] = IF v = s THEN Tail(outbox[v]) ELSE outbox[v]
            /\ lost' = lost \cup {Head(outbox[s])}
        BY <3>1 DEF PublishError, SchedulerTypeOK
      <4> QED
        BY <2>1, <4>1, TailMembers
    <3>2. CASE SchedulerStop(s)
      <4>1. /\ \A v \in SchedulerID : outbox'[v] = IF v = s THEN <<>> ELSE outbox[v]
            /\ lost' = lost \cup Members(outbox[s])
        BY <3>2 DEF SchedulerStop, SchedulerTypeOK
      <4> QED
        BY <4>1
    <3> QED
      BY <1>7, <3>1, <3>2
  <2>5. lost \subseteq lost' /\ stream' = stream
    BY <1>7 DEF PublishError, SchedulerStop
  <2> QED
    BY <2>2, <2>3, <2>4, <2>5 DEF Carried
<1> QED
  BY <1>4, <1>5, <1>6, <1>7 DEF SchedulerStep

\* A worker's step on its delivery leaves the messages of a task that is still
\* running as they are, unless it is the acknowledgement of one that no longer
\* carries it.
LEMMA WorkerKeeps ==
  ASSUME TypeInv, NoSilentLoss, UNCHANGED outbox, NEW w \in WorkerID, WorkerStep(w)
  PROVE  NoSilentLoss'
<1> USE DEF TypeInv, TypeOK
<1>0. SUFFICES ASSUME NEW t \in TaskID, tasks'[t].status = "running"
               PROVE  Carried(t)' \/ t \in lost'
  BY DEF NoSilentLoss
\* pc and job of the other workers stay.
<1>1. \A v \in WorkerID : v # w => pc'[v] = pc[v] /\ job'[v] = job[v]
  BY DEF WorkerStep, Subscribe, ReclaimPending, ReclaimError, ReadNew, ReadError, Reading,
         Receive, GetTask, GetMissing, Heartbeat, HeartbeatError, HandlerOk, HandlerError,
         Mark, MarkRejected, MarkReplyLost, PublishDLQ, PublishDLQError, Ack, CallError,
         WorkerStop, workerVars, Goto, Done, WorkerTypeOK
<1>2. ASSUME UNCHANGED <<stream, last, owner, lost>>, tasks[t].status = "running",
             \/ pc'[w] \notin {"dlq", "ack"}
             \/ pc[w] \in {"dlq", "ack"} /\ job'[w] = job[w]
             \/ stream[job'[w]] # t
      PROVE  Carried(t)' \/ t \in lost'
  <2>1. \A m \in 1..Len(stream) : stream[m] = t /\ Carries(m) => Carries(m)'
    BY <1>1, <1>2 DEF Carries
  <2> QED
    BY <1>2, <2>1, StillCarried DEF NoSilentLoss
<1>3. CASE Subscribe(w)
  <2>1. tasks[t].status = "running" /\ stream' = stream /\ owner' = owner
        /\ pc'[w] = "claim"
    BY <1>0, <1>3 DEF Subscribe, CreateGroup, Goto, WorkerTypeOK
  <2>2. CASE last = NoGroup
    <3>1. lost' = lost \cup {stream[m] : m \in 1..Len(stream)}
      BY <1>3, <2>2 DEF Subscribe, CreateGroup
    <3> QED
      BY <2>1, <3>1 DEF NoSilentLoss, Carried
  <2>3. CASE last # NoGroup
    BY <1>2, <1>3, <2>1, <2>3 DEF Subscribe, CreateGroup
  <2> QED
    BY <2>2, <2>3
\* Delivered messages become pending.
<1>4. ASSUME NEW M, Deliver(w, M), UNCHANGED <<tasks, stream, lost>>,
             \A m \in 1..Len(stream) : m > last => m > last' \/ m \in M,
             pc'[w] \notin {"dlq", "ack"} \/ UNCHANGED <<pc, job>>
      PROVE  Carried(t)' \/ t \in lost'
  <2>1. \A m \in 1..Len(stream) : owner[m] # NoWorker \/ m \in M => owner'[m] # NoWorker
    BY <1>4, IdentifiersAssumption, BrokerAssumption DEF Deliver, BrokerTypeOK, MsgId
  <2>2. \A m \in 1..Len(stream) : Carries(m) => Carries(m)'
    BY <1>1, <1>4, <2>1 DEF Carries
  <2> QED
    BY <1>0, <1>4, <2>2, StillCarried DEF NoSilentLoss
<1>5. CASE ReclaimPending(w) \/ (ReclaimError(w) /\ XAutoClaim(w))
  BY <1>4, <1>5 DEF ReclaimPending, ReclaimError, XAutoClaim, Goto, WorkerTypeOK
<1>6. CASE ReclaimError(w) /\ UNCHANGED brokerVars
  BY <1>0, <1>2, <1>6 DEF ReclaimError, brokerVars, Goto, WorkerTypeOK
<1>7. CASE ReadNew(w) \/ ReadError(w)
  <2>1. XReadGroup(w) /\ UNCHANGED <<tasks, pc, job>>
    BY <1>7 DEF ReadNew, ReadError, Reading, workerVars
  <2>2. \A m \in 1..Len(stream) : m > last => m > last' \/ m \in Unread
    BY <2>1, BrokerAssumption DEF XReadGroup, Unread, BrokerTypeOK, NoGroup
  <2> QED
    BY <1>4, <2>1, <2>2 DEF XReadGroup
<1>8. CASE \/ Receive(w) \/ GetMissing(w) \/ HeartbeatError(w) \/ HandlerOk(w)
           \/ HandlerError(w) \/ MarkRejected(w) \/ PublishDLQError(w) \/ CallError(w)
           \/ WorkerStop(w)
  <2>1. UNCHANGED <<tasks, stream, last, owner, lost>>
    BY <1>8 DEF Receive, GetMissing, HeartbeatError, HandlerOk, HandlerError, MarkRejected,
                PublishDLQError, CallError, WorkerStop, brokerVars
  <2>2. \/ pc'[w] \notin {"dlq", "ack"}
        \/ pc[w] \in {"dlq", "ack"} /\ job'[w] = job[w]
    BY <1>8 DEF Receive, GetMissing, HeartbeatError, HandlerOk, HandlerError, MarkRejected,
                PublishDLQError, CallError, WorkerStop, Goto, Done, WorkerTypeOK
  <2> QED
    BY <1>0, <1>2, <2>1, <2>2
<1>9. CASE PublishDLQ(w)
  BY <1>0, <1>2, <1>9 DEF PublishDLQ, XAddDLQ, Goto
<1>10. CASE GetTask(w)
  <2>1. UNCHANGED <<tasks, stream, last, owner, lost, job>>
    BY <1>10 DEF GetTask, brokerVars
  <2>2. pc'[w] = "ack" => tasks[stream[job[w]]].status \in {"completed", "cancelled"}
    BY <1>10 DEF GetTask, Goto, TaskOf, WorkerTypeOK
  <2>3. pc'[w] # "dlq"
    BY <1>10 DEF GetTask, Goto, WorkerTypeOK
  <2> QED
    BY <1>0, <1>2, <2>1, <2>2, <2>3
<1>11. CASE Heartbeat(w)
  <2>1. PICK u \in TaskID : u = TaskOf(w) /\ Beat(u, w)
    BY <1>11, TaskOfType DEF Heartbeat, Busy
  <2>2. tasks[t].status = "running"
    BY <1>0, <2>1, BeatKeepsStatus DEF Stat
  <2> QED
    BY <1>2, <1>11, <2>2 DEF Heartbeat, brokerVars
<1>12. CASE Mark(w) \/ MarkReplyLost(w)
  <2>1. Commit(w) /\ UNCHANGED <<stream, last, owner, lost>>
    BY <1>12 DEF Mark, MarkReplyLost, brokerVars
  <2>2. tasks[t].status = "running" /\ stream[job[w]] # t
    BY <1>0, <2>1, CommitNotStarted DEF NotStarted, TaskOf
  <2>3. pc'[w] \notin {"dlq", "ack"} \/ job'[w] = job[w]
    BY <1>12 DEF Mark, MarkReplyLost, Done, Goto, WorkerTypeOK
  <2> QED
    BY <1>2, <2>1, <2>2, <2>3
<1>13. CASE Ack(w)
  <2>1. /\ UNCHANGED <<tasks, stream, last, lost>>
        /\ owner' = [owner EXCEPT ![job[w]] = NoWorker]
        /\ pc[w] = "ack" /\ pc'[w] = "idle"
    BY <1>13 DEF Ack, XAck, Done, Goto, WorkerTypeOK
  <2>2. ASSUME NEW m \in 1..Len(stream), Carries(m) PROVE Carries(m)'
    <3>1. job[w] # m
      BY <2>1, <2>2 DEF Carries
    <3>2. owner'[m] = owner[m]
      BY <2>1, <3>1, BrokerAssumption DEF BrokerTypeOK, MsgId
    <3> QED
      BY <1>1, <2>1, <2>2, <3>2 DEF Carries
  <2> QED
    BY <1>0, <2>1, <2>2, StillCarried DEF NoSilentLoss
<1> QED
  BY <1>3, <1>5, <1>6, <1>7, <1>8, <1>9, <1>10, <1>11, <1>12, <1>13
     DEF WorkerStep, ReclaimError

(***************************************************************************)
(* A running task is on its way to a worker or at one, or its dispatch got *)
(* lost where the monitor is meant to step in: recording the outcome       *)
(* before XACK and keeping unacknowledged messages pending is enough, for  *)
(* any number of failures of any of the processes and calls.               *)
(***************************************************************************)
THEOREM NothingSilentlyLost == Spec => []NoSilentLoss
<1>1. Init => NoSilentLoss
  BY DEF Init, RepoInit, NoRow, NoSilentLoss
<1>2. TypeInv /\ NoSilentLoss /\ [Next]_vars => NoSilentLoss'
  <2> SUFFICES ASSUME TypeInv, NoSilentLoss, [Next]_vars PROVE NoSilentLoss'
    OBVIOUS
  <2> USE DEF TypeInv, TypeOK
  <2>0. ASSUME NotStarted, UNCHANGED <<stream, last, owner, lost, outbox, pc, job>>
        PROVE  NoSilentLoss'
    <3>1. \A m \in 1..Len(stream) : Carries(m) => Carries(m)'
      BY <2>0 DEF Carries
    <3> QED
      BY <2>0, <3>1, StillCarried DEF NoSilentLoss, NotStarted
  <2>1. CASE ClientStep
    BY <2>0, <2>1, ClientNotStarted DEF ClientStep, brokerVars, workerVars
  <2>2. CASE \E s \in SchedulerID : SchedulerStep(s)
    BY <2>2, SchedulerKeeps
  <2>3. CASE MonitorStep
    <3>1. \A t \in TaskID : tasks'[t].status = "running"
                              => tasks[t].status = "running" /\ t \notin Stuck
      <4>1. \A t \in TaskID :
              [tasks[t] EXCEPT !.status = "pending", !.worker_id = NoWorker, !.age = 0].status
                = "pending"
        BY DEF RepoTypeOK, Row
      <4> QED
        BY <2>3, <4>1 DEF MonitorStep, MonitorCheck, ResetStuckRunning
    <3>2. UNCHANGED <<stream, last, owner, outbox, pc, job>> /\ lost' = lost \ Stuck
      BY <2>3 DEF MonitorStep, MonitorCheck, workerVars
    <3>3. \A m \in 1..Len(stream) : Carries(m) => Carries(m)'
      BY <3>2 DEF Carries
    <3> QED
      BY <3>1, <3>2, <3>3, StillCarried DEF NoSilentLoss
  <2>4. ASSUME NEW w \in WorkerID, WorkerStep(w) /\ UNCHANGED outbox PROVE NoSilentLoss'
    BY <2>4, WorkerKeeps
  <2>5. CASE Elapse
    <3>1. NotStarted
      BY <2>5, AgingKeepsStatus DEF Elapse, Stat, NotStarted
    <3> QED
      BY <2>0, <2>5, <3>1 DEF Elapse
  <2>6. CASE UNCHANGED vars
    BY <2>0, <2>6 DEF vars, NotStarted
  <2> QED
    BY <2>1, <2>2, <2>3, <2>4, <2>5, <2>6 DEF Next
<1> QED
  BY <1>1, <1>2, TypeInvInit, TypeInvNext, PTL DEF Spec

-----------------------------------------------------------------------------
(* Finished tasks. *)

\* The rows of finished tasks stay as they are.
Kept == \A t \in TaskID : tasks[t].status \in {"completed", "cancelled"} => tasks'[t] = tasks[t]

LEMMA KeptIsFinal ==
  ASSUME RepoTypeOK, Kept
  PROVE  FinalRow
<1> SUFFICES ASSUME NEW t \in TaskID, tasks[t].status \in {"completed", "cancelled"}
             PROVE  /\ tasks'[t] = [tasks[t] EXCEPT !.age = tasks'[t].age,
                                                    !.wait = tasks'[t].wait]
                    /\ tasks'[t].age >= tasks[t].age /\ tasks'[t].wait <= tasks[t].wait
  BY DEF FinalRow
<1>1. tasks'[t] = tasks[t] /\ tasks[t] \in Row
  BY DEF Kept, RepoTypeOK
<1>2. tasks'[t] = [tasks[t] EXCEPT !.age = tasks'[t].age, !.wait = tasks'[t].wait]
  BY <1>1 DEF Row
<1>3. tasks[t].age \in Nat /\ tasks[t].wait \in Nat
  BY <1>1 DEF Row
<1> QED
  BY <1>1, <1>2, <1>3

\* Neither status has a transition out of it.
LEMMA UpdateKept ==
  ASSUME RepoTypeOK, NEW t \in TaskID, NEW next, NEW row, UpdateTask(t, next, row)
  PROVE  Kept
<1>1. tasks[t].status \notin {"completed", "cancelled"}
  BY TransitionFacts DEF UpdateTask
<1> QED
  BY <1>1 DEF UpdateTask, Kept, RepoTypeOK

LEMMA SchedulerKept ==
  ASSUME TypeOK, NEW s \in SchedulerID, SchedulerStep(s)
  PROVE  Kept
<1>1. ASSUME NEW q \in Batches(BatchSize), MarkRunning(q) PROVE Kept
  <2>1. \A i \in DOMAIN q : q[i] \in Due
    BY <1>1 DEF Batches
  <2> QED
    BY <1>1, <2>1 DEF MarkRunning, Due, Kept
<1> QED
  BY <1>1 DEF SchedulerStep, Tick, TickError, PublishNext, PublishError, SchedulerStop, Kept

LEMMA WorkerKept ==
  ASSUME TypeOK, JobOK, NEW w \in WorkerID, WorkerStep(w)
  PROVE  Kept
<1> USE DEF TypeOK
<1>1. CASE Heartbeat(w)
  <2>1. PICK t \in TaskID : t = TaskOf(w) /\ Beat(t, w)
    BY <1>1, TaskOfType DEF Heartbeat, Busy
  <2> QED
    BY <2>1 DEF Beat, Kept, RepoTypeOK
<1>2. CASE Commit(w)
  <2>1. TaskOf(w) \in TaskID
    BY <1>2, TaskOfType DEF Commit, Busy
  <2> QED
    BY <1>2, <2>1, UpdateKept DEF Commit, SetCompleted, SetRetry, SetFailed
<1>3. CASE UNCHANGED tasks
  BY <1>3 DEF Kept
<1> QED
  BY <1>1, <1>2, <1>3
     DEF WorkerStep, Subscribe, ReclaimPending, ReclaimError, ReadNew, ReadError,
         Receive, GetTask, GetMissing, HeartbeatError, HandlerOk, HandlerError, Mark,
         MarkRejected, MarkReplyLost, PublishDLQ, PublishDLQError, Ack, CallError, WorkerStop

(***************************************************************************)
(* A completed or cancelled task keeps its row, whatever stale deliveries, *)
(* late heartbeats, monitor checks and client requests still arrive: only  *)
(* the clock touches it.                                                   *)
(***************************************************************************)
THEOREM FinishedStaysFinished == Spec => FinalIsFinal
<1>1. TypeInv /\ [Next]_vars => [FinalRow]_vars
  <2> SUFFICES ASSUME TypeInv, Next PROVE FinalRow
    OBVIOUS
  <2> USE DEF TypeInv, TypeOK
  <2>1. CASE ClientStep
    <3>1. ASSUME NEW t \in TaskID, NEW cmd \in Cmds, NEW D \in SUBSET TaskID, Enqueue(t, cmd, D)
          PROVE  Kept
      BY <3>1 DEF Enqueue, Create, Creatable, Kept, RepoTypeOK
    <3>2. ASSUME NEW t \in Operated, Cancel(t) \/ Republish(t) PROVE Kept
      BY <3>2, UpdateKept, RsufzAssumption DEF Cancel, Republish
    <3> QED
      BY <2>1, <3>1, <3>2, KeptIsFinal DEF ClientStep
  <2>2. CASE \E s \in SchedulerID : SchedulerStep(s)
    BY <2>2, SchedulerKept, KeptIsFinal
  <2>3. CASE MonitorStep
    <3>1. Kept
      BY <2>3 DEF MonitorStep, MonitorCheck, ResetStuckRunning, Stuck, Kept
    <3> QED
      BY <3>1, KeptIsFinal
  <2>4. CASE \E w \in WorkerID : WorkerStep(w) /\ UNCHANGED outbox
    BY <2>4, WorkerKept, KeptIsFinal
  <2>5. CASE Elapse
    <3> SUFFICES ASSUME NEW t \in TaskID
                 PROVE  /\ tasks'[t] = [tasks[t] EXCEPT !.age = tasks'[t].age,
                                                        !.wait = tasks'[t].wait]
                        /\ tasks'[t].age >= tasks[t].age /\ tasks'[t].wait <= tasks[t].wait
      BY DEF FinalRow
    <3>1. tasks[t] \in Row
      BY DEF RepoTypeOK
    <3>2. tasks[t].age \in Nat /\ tasks[t].wait \in Nat
      BY <3>1 DEF Row
    <3>3. PICK x, y : /\ tasks'[t] = [tasks[t] EXCEPT !.wait = x, !.age = y]
                      /\ x = IF tasks[t].wait > 0 THEN tasks[t].wait - 1 ELSE 0
                      /\ y \in {tasks[t].age, tasks[t].age + 1}
      BY <2>5, <3>1 DEF Elapse, RowsAge, Row
    <3>4. tasks'[t].wait = x /\ tasks'[t].age = y
      BY <3>1, <3>3 DEF Row
    <3>5. tasks'[t] = [tasks[t] EXCEPT !.age = tasks'[t].age, !.wait = tasks'[t].wait]
      BY <3>1, <3>3 DEF Row
    <3>6. y >= tasks[t].age /\ x <= tasks[t].wait
      BY <3>2, <3>3
    <3> QED
      BY <3>4, <3>5, <3>6
  <2> QED
    BY <2>1, <2>2, <2>3, <2>4, <2>5 DEF Next
<1> QED
  BY <1>1, TypeInvInit, TypeInvNext, PTL DEF Spec, FinalIsFinal

-----------------------------------------------------------------------------
(* What one step does to the attempts, the limit, the type and the outcome  *)
(* of a row.                                                               *)

\* The attempts stay, are reset, or are the number a worker about to retry holds.
AttemptsStep(t) ==
  \/ /\ tasks'[t].attempt_count = tasks[t].attempt_count
     /\ tasks'[t].retry_limit = tasks[t].retry_limit
  \/ tasks'[t].attempt_count = 0
  \/ \E w \in WorkerID : /\ pc[w] = "retry" /\ TaskOf(w) = t
                         /\ tasks'[t].attempt_count = snap[w]

\* Only a worker that marks its task completed or failed makes it so.
MarkedBy(t, place) ==
  \E w \in WorkerID : /\ pc[w] = place /\ TaskOf(w) = t
                      /\ Mark(w) \/ MarkReplyLost(w)

OutcomeStep(t) ==
  /\ tasks'[t].status = "completed" /\ tasks[t].status # "completed" => MarkedBy(t, "complete")
  /\ tasks'[t].status = "failed" /\ tasks[t].status # "failed" => MarkedBy(t, "fail")

RowStep(t) ==
  /\ Exists(t) => /\ tasks'[t].retry_limit = tasks[t].retry_limit
                  /\ tasks'[t].type = tasks[t].type
  /\ AttemptsStep(t)
  /\ OutcomeStep(t)

\* A row of which none of this changes.
LEMMA RowSame ==
  ASSUME NEW t \in TaskID,
         tasks'[t].attempt_count = tasks[t].attempt_count,
         tasks'[t].retry_limit = tasks[t].retry_limit,
         tasks'[t].type = tasks[t].type,
         tasks'[t].status \in {"completed", "failed"} => tasks'[t].status = tasks[t].status
  PROVE  RowStep(t)
BY DEF RowStep, AttemptsStep, OutcomeStep

LEMMA UpdateRow ==
  ASSUME RepoTypeOK, NEW t \in TaskID, NEW next, NEW row \in Row, UpdateTask(t, next, row)
  PROVE  /\ \A u \in TaskID \ {t} : tasks'[u] = tasks[u]
         /\ tasks'[t].status = next
         /\ tasks'[t].attempt_count = row.attempt_count
         /\ tasks'[t].retry_limit = row.retry_limit
         /\ tasks'[t].type = row.type
<1>1. tasks' = [tasks EXCEPT ![t] = [row EXCEPT !.status = next, !.age = 0]]
  BY DEF UpdateTask
<1>2. LET new == [row EXCEPT !.status = next, !.age = 0]
      IN  /\ new.status = next /\ new.attempt_count = row.attempt_count
          /\ new.retry_limit = row.retry_limit /\ new.type = row.type
  BY DEF Row
<1> QED
  BY <1>1, <1>2 DEF RepoTypeOK

LEMMA ClientRows ==
  ASSUME TypeInv, ClientStep, NEW t \in TaskID
  PROVE  RowStep(t)
<1> USE DEF TypeInv, TypeOK
<1>1. ASSUME NEW u \in TaskID, NEW cmd \in Cmds, NEW D \in SUBSET TaskID, Enqueue(u, cmd, D)
      PROVE  RowStep(t)
  <2>1. /\ \A v \in TaskID \ {u} : tasks'[v] = tasks[v]
        /\ tasks'[u].attempt_count = 0 /\ tasks'[u].status = "pending"
        /\ tasks[u].status = "absent"
    BY <1>1 DEF Enqueue, Create, Creatable, RepoTypeOK
  <2>2. CASE t # u
    BY <2>1, <2>2, RowSame
  <2>3. CASE t = u
    BY <2>1, <2>3 DEF RowStep, AttemptsStep, OutcomeStep, Exists, Status
  <2> QED
    BY <2>2, <2>3
<1>2. ASSUME NEW u \in Operated, Cancel(u) PROVE RowStep(t)
  <2>1. u \in TaskID /\ tasks[u] \in Row
    BY RsufzAssumption DEF RepoTypeOK
  <2> QED
    BY <1>2, <2>1, UpdateRow, RowSame DEF Cancel
<1>3. ASSUME NEW u \in Operated, Republish(u) PROVE RowStep(t)
  <2>0. u \in TaskID /\ tasks[u] \in Row
    BY RsufzAssumption DEF RepoTypeOK
  <2>1. PICK row \in Row : row = [tasks[u] EXCEPT !.attempt_count = 0]
    BY <2>0 DEF Row
  <2>5. row.attempt_count = 0 /\ row.retry_limit = tasks[u].retry_limit /\ row.type = tasks[u].type
    BY <2>0, <2>1 DEF Row
  <2>2. /\ \A v \in TaskID \ {u} : tasks'[v] = tasks[v]
        /\ tasks'[u].status = "pending" /\ tasks'[u].attempt_count = 0
        /\ tasks'[u].retry_limit = tasks[u].retry_limit /\ tasks'[u].type = tasks[u].type
    <3>1. UpdateTask(u, "pending", row)
      BY <1>3, <2>1 DEF Republish
    <3> QED
      BY <2>0, <2>5, <3>1, UpdateRow
  <2>3. CASE t # u
    BY <2>2, <2>3, RowSame
  <2>4. CASE t = u
    BY <2>2, <2>4 DEF RowStep, AttemptsStep, OutcomeStep
  <2> QED
    BY <2>3, <2>4
<1> QED
  BY <1>1, <1>2, <1>3 DEF ClientStep

LEMMA SchedulerRows ==
  ASSUME TypeInv, NEW t \in TaskID,
         MonitorStep \/ \E s \in SchedulerID : SchedulerStep(s)
  PROVE  RowStep(t)
<1> USE DEF TypeInv, TypeOK
<1>0. tasks[t] \in Row
  BY DEF RepoTypeOK
<1>1. ASSUME NEW q, MarkRunning(q) PROVE RowStep(t)
  <2>1. \/ tasks'[t] = tasks[t]
        \/ tasks'[t] = [tasks[t] EXCEPT !.status = "running", !.age = 0]
    BY <1>1 DEF MarkRunning
  <2> QED
    BY <1>0, <2>1, RowSame DEF Row
<1>2. CASE MonitorStep
  <2>1. \/ tasks'[t] = tasks[t]
        \/ tasks'[t] = [tasks[t] EXCEPT !.status = "pending", !.worker_id = NoWorker, !.age = 0]
    BY <1>2 DEF MonitorStep, MonitorCheck, ResetStuckRunning
  <2> QED
    BY <1>0, <2>1, RowSame DEF Row
<1>3. CASE UNCHANGED tasks
  BY <1>3, RowSame
<1> QED
  BY <1>1, <1>2, <1>3 DEF SchedulerStep, Tick, TickError, PublishNext, PublishError,
                          SchedulerStop

LEMMA WorkerRows ==
  ASSUME TypeInv, NEW w \in WorkerID, WorkerStep(w), NEW t \in TaskID
  PROVE  RowStep(t)
<1> USE DEF TypeInv, TypeOK
<1>1. CASE Heartbeat(w)
  <2>1. PICK u \in TaskID : u = TaskOf(w) /\ Beat(u, w)
    BY <1>1, TaskOfType DEF Heartbeat, Busy
  <2>2. tasks[u] \in Row
    BY DEF RepoTypeOK
  <2>3. \/ tasks'[t] = tasks[t]
        \/ t = u /\ tasks'[t] = [tasks[t] EXCEPT !.age = 0, !.worker_id = w]
    BY <2>1 DEF Beat, RepoTypeOK
  <2> QED
    BY <2>2, <2>3, RowSame DEF Row
<1>2. CASE Mark(w) \/ MarkReplyLost(w)
  <2>0. Commit(w)
    BY <1>2 DEF Mark, MarkReplyLost
  <2>1. PICK u \in TaskID : u = TaskOf(w)
    BY <2>0, TaskOfType DEF Commit, Busy
  <2>2. tasks[u] \in Row
    BY DEF RepoTypeOK
  <2>3. CASE pc[w] = "complete" /\ SetCompleted(w)
    <3> DEFINE row == [tasks[u] EXCEPT !.worker_id = w]
    <3>1. /\ row \in Row /\ row.attempt_count = tasks[u].attempt_count
          /\ row.retry_limit = tasks[u].retry_limit /\ row.type = tasks[u].type
      BY <2>2 DEF Row
    <3>2. UpdateTask(u, "completed", row)
      BY <2>1, <2>3 DEF SetCompleted
    <3> HIDE DEF row
    <3>3. /\ \A v \in TaskID \ {u} : tasks'[v] = tasks[v]
          /\ tasks'[u].attempt_count = tasks[u].attempt_count /\ tasks'[u].status = "completed"
          /\ tasks'[u].retry_limit = tasks[u].retry_limit /\ tasks'[u].type = tasks[u].type
      BY <3>1, <3>2, UpdateRow
    <3>4. CASE t # u
      BY <3>3, <3>4, RowSame
    <3>5. CASE t = u
      BY <1>2, <2>1, <2>3, <3>3, <3>5 DEF RowStep, AttemptsStep, OutcomeStep, MarkedBy
    <3> QED
      BY <3>4, <3>5
  <2>4. CASE pc[w] = "retry" /\ SetRetry(w)
    <3>1. snap[w] \in Nat /\ Delay(BackoffBase, BackoffMax, snap[w]) \in Nat
      BY DelayType DEF WorkerTypeOK
    <3> DEFINE row == [tasks[u] EXCEPT !.attempt_count = snap[w],
                                       !.wait = Delay(BackoffBase, BackoffMax, snap[w]),
                                       !.worker_id = NoWorker]
    <3>2. /\ row \in Row /\ row.attempt_count = snap[w]
          /\ row.retry_limit = tasks[u].retry_limit /\ row.type = tasks[u].type
      BY <2>2, <3>1 DEF Row
    <3>3. UpdateTask(u, "pending", row)
      BY <2>1, <2>4 DEF SetRetry
    <3> HIDE DEF row
    <3>4. /\ \A v \in TaskID \ {u} : tasks'[v] = tasks[v]
          /\ tasks'[u].status = "pending" /\ tasks'[u].attempt_count = snap[w]
          /\ tasks'[u].retry_limit = tasks[u].retry_limit /\ tasks'[u].type = tasks[u].type
      BY <3>2, <3>3, UpdateRow
    <3>5. CASE t # u
      BY <3>4, <3>5, RowSame
    <3>6. CASE t = u
      BY <2>1, <2>4, <3>4, <3>6 DEF RowStep, AttemptsStep, OutcomeStep
    <3> QED
      BY <3>5, <3>6
  <2>5. CASE pc[w] = "fail" /\ SetFailed(w)
    <3> DEFINE row == [tasks[u] EXCEPT !.worker_id = NoWorker]
    <3>1. /\ row \in Row /\ row.attempt_count = tasks[u].attempt_count
          /\ row.retry_limit = tasks[u].retry_limit /\ row.type = tasks[u].type
      BY <2>2 DEF Row
    <3>2. UpdateTask(u, "failed", row)
      BY <2>1, <2>5 DEF SetFailed
    <3> HIDE DEF row
    <3>3. /\ \A v \in TaskID \ {u} : tasks'[v] = tasks[v]
          /\ tasks'[u].attempt_count = tasks[u].attempt_count /\ tasks'[u].status = "failed"
          /\ tasks'[u].retry_limit = tasks[u].retry_limit /\ tasks'[u].type = tasks[u].type
      BY <3>1, <3>2, UpdateRow
    <3>4. CASE t # u
      BY <3>3, <3>4, RowSame
    <3>5. CASE t = u
      BY <1>2, <2>1, <2>5, <3>3, <3>5 DEF RowStep, AttemptsStep, OutcomeStep, MarkedBy
    <3> QED
      BY <3>4, <3>5
  <2> QED
    BY <2>0, <2>3, <2>4, <2>5 DEF Commit
<1>3. CASE UNCHANGED tasks
  BY <1>3, RowSame
<1> QED
  BY <1>1, <1>2, <1>3
     DEF WorkerStep, Subscribe, ReclaimPending, ReclaimError, ReadNew, ReadError,
         Receive, GetTask, GetMissing, HeartbeatError, HandlerOk, HandlerError,
         MarkRejected, PublishDLQ, PublishDLQError, Ack, CallError, WorkerStop

LEMMA RowsStep ==
  ASSUME TypeInv, [Next]_vars, NEW t \in TaskID
  PROVE  RowStep(t)
<1>1. CASE Elapse
  <2>1. tasks[t] \in Row
    BY DEF TypeInv, TypeOK, RepoTypeOK
  <2>2. PICK x, y : tasks'[t] = [tasks[t] EXCEPT !.wait = x, !.age = y]
    BY <1>1 DEF Elapse, RowsAge
  <2> QED
    BY <2>1, <2>2, RowSame DEF Row
<1>2. CASE UNCHANGED vars
  BY <1>2, RowSame DEF vars
<1> QED
  BY <1>1, <1>2, ClientRows, SchedulerRows, WorkerRows DEF Next

-----------------------------------------------------------------------------
(* What one step does to a worker. *)

\* A delivery in process stays the delivery of its task: the stream only grows.
LEMMA TaskOfKept ==
  ASSUME TypeInv, [Next]_vars, NEW w \in WorkerID, pc[w] \in Busy, job'[w] = job[w]
  PROVE  TaskOf(w)' = TaskOf(w)
<1> USE DEF TypeInv, TypeOK
<1>1. job[w] \in 1..Len(stream)
  BY TaskOfType
<1>2. CASE UNCHANGED stream
  BY <1>2 DEF TaskOf
<1>3. ASSUME NEW s \in SchedulerID, PublishNext(s) PROVE TaskOf(w)' = TaskOf(w)
  <2>1. Head(outbox[s]) \in TaskID
    BY <1>3 DEF PublishNext, SchedulerTypeOK
  <2>2. \A m \in 1..Len(stream) : stream'[m] = stream[m]
    BY <1>3, <2>1, XAddType DEF PublishNext
  <2> QED
    BY <1>1, <2>2 DEF TaskOf
<1>4. ASSUME NEW v \in WorkerID, WorkerStep(v) PROVE UNCHANGED stream
  BY <1>4
     DEF WorkerStep, Subscribe, ReclaimPending, ReclaimError, ReadNew, ReadError, Reading,
         Receive, GetTask, GetMissing, Heartbeat, HeartbeatError, HandlerOk, HandlerError,
         Mark, MarkRejected, MarkReplyLost, PublishDLQ, PublishDLQError, Ack, CallError,
         WorkerStop, brokerVars, CreateGroup, XAutoClaim, XReadGroup, XAddDLQ, XAck
<1>5. CASE ClientStep \/ MonitorStep \/ Elapse \/ UNCHANGED vars
  BY <1>2, <1>5 DEF ClientStep, MonitorStep, MonitorCheck, Elapse, brokerVars, vars
<1> QED
  BY <1>2, <1>3, <1>4, <1>5 DEF Next, SchedulerStep, Tick, TickError, PublishError,
                                SchedulerStop

\* The step of another process, or of the reader goroutine, leaves process(w) alone.
LEMMA OthersLeave ==
  ASSUME TypeInv, [Next]_vars, NEW w \in WorkerID, ~WorkerStep(w)
  PROVE  pc'[w] = pc[w] /\ job'[w] = job[w] /\ snap'[w] = snap[w]
<1>1. ASSUME NEW v \in WorkerID, WorkerStep(v), v # w
      PROVE  pc'[w] = pc[w] /\ job'[w] = job[w] /\ snap'[w] = snap[w]
  BY <1>1
     DEF WorkerStep, Subscribe, ReclaimPending, ReclaimError, ReadNew, ReadError, Reading,
         Receive, GetTask, GetMissing, Heartbeat, HeartbeatError, HandlerOk, HandlerError,
         Mark, MarkRejected, MarkReplyLost, PublishDLQ, PublishDLQError, Ack, CallError,
         WorkerStop, workerVars, Goto, Done, TypeInv, TypeOK, WorkerTypeOK
<1> QED
  BY <1>1 DEF Next, ClientStep, SchedulerStep, MonitorStep, Elapse, workerVars, vars

-----------------------------------------------------------------------------
(* Attempts. *)

(***************************************************************************)
(* The stored attempts stay below the limit.  This is an auxiliary fact of *)
(* the implementation and no promise of it: it holds because markFailed    *)
(* (execute.go:207-215) never stores the increment of the last attempt, so *)
(* that a task failed after RetryLimit attempts shows one less.            *)
(***************************************************************************)
AttemptsBelowLimit ==
  \A t \in TaskID : tasks[t].attempt_count > 0 => tasks[t].attempt_count < tasks[t].retry_limit

\* The number a worker is about to record is below the limit of its task.
RetryWithinLimit ==
  \A w \in WorkerID : pc[w] = "retry" => snap[w] < tasks[TaskOf(w)].retry_limit

\* Everything dispatched is in the store.
LEMMA BusyExists ==
  ASSUME TypeInv, DispatchedReady, NEW w \in WorkerID, pc[w] \in Busy
  PROVE  TaskOf(w) \in TaskID /\ Exists(TaskOf(w))
<1>1. job[w] \in 1..Len(stream) /\ TaskOf(w) \in TaskID
  BY TaskOfType DEF TypeInv
<1> QED
  BY <1>1 DEF DispatchedReady, TaskOf

LEMMA RetryWithinLimitNext ==
  ASSUME TypeInv, DispatchedReady, RetryWithinLimit, [Next]_vars
  PROVE  RetryWithinLimit'
<1> SUFFICES ASSUME NEW w \in WorkerID, pc'[w] = "retry"
             PROVE  snap'[w] < tasks'[TaskOf(w)'].retry_limit
  BY DEF RetryWithinLimit
<1>1. ASSUME pc[w] = "retry", job'[w] = job[w], snap'[w] = snap[w]
      PROVE  snap'[w] < tasks'[TaskOf(w)'].retry_limit
  <2>1. TaskOf(w) \in TaskID /\ Exists(TaskOf(w)) /\ TaskOf(w)' = TaskOf(w)
    BY <1>1, BusyExists, TaskOfKept DEF Busy
  <2>2. tasks'[TaskOf(w)].retry_limit = tasks[TaskOf(w)].retry_limit
    BY <2>1, RowsStep DEF RowStep
  <2> QED
    BY <1>1, <2>1, <2>2 DEF RetryWithinLimit
<1>2. CASE ~WorkerStep(w)
  BY <1>1, <1>2, OthersLeave
<1>3. CASE HandlerError(w)
  <2>1. /\ pc[w] = "run" /\ job' = job /\ tasks' = tasks /\ snap[w] \in Nat
        /\ CanRetry(snap[w] + 1, tasks[TaskOf(w)].retry_limit)
        /\ snap'[w] = snap[w] + 1
    BY <1>3 DEF HandlerError, Goto, TypeInv, TypeOK, WorkerTypeOK
  <2>2. TaskOf(w)' = TaskOf(w)
    BY <2>1, TaskOfKept DEF Busy
  <2> QED
    BY <2>1, <2>2 DEF CanRetry
<1>4. CASE WorkerStep(w) /\ ~HandlerError(w)
  <2>1. pc[w] = "retry" /\ job'[w] = job[w] /\ snap'[w] = snap[w]
    BY <1>4
       DEF WorkerStep, Subscribe, ReclaimPending, ReclaimError, ReadNew, ReadError, Reading,
           Receive, GetTask, GetMissing, Heartbeat, HeartbeatError, HandlerOk,
           Mark, MarkRejected, MarkReplyLost, PublishDLQ, PublishDLQError, Ack, CallError,
           WorkerStop, workerVars, Goto, Done, TypeInv, TypeOK, WorkerTypeOK
  <2> QED
    BY <1>1, <2>1
<1> QED
  BY <1>2, <1>3, <1>4

LEMMA AttemptsNext ==
  ASSUME TypeInv, DispatchedReady, RetryWithinLimit, AttemptsBelowLimit, [Next]_vars
  PROVE  AttemptsBelowLimit'
<1> SUFFICES ASSUME NEW t \in TaskID, tasks'[t].attempt_count > 0
             PROVE  tasks'[t].attempt_count < tasks'[t].retry_limit
  BY DEF AttemptsBelowLimit
<1>1. RowStep(t)
  BY RowsStep
<1>2. CASE \E w \in WorkerID : /\ pc[w] = "retry" /\ TaskOf(w) = t
                               /\ tasks'[t].attempt_count = snap[w]
  <2>1. PICK w \in WorkerID : /\ pc[w] = "retry" /\ TaskOf(w) = t
                              /\ tasks'[t].attempt_count = snap[w]
    BY <1>2
  <2>2. Exists(t) /\ snap[w] < tasks[t].retry_limit
    BY <2>1, BusyExists DEF Busy, RetryWithinLimit
  <2> QED
    BY <1>1, <2>1, <2>2 DEF RowStep
<1> QED
  BY <1>1, <1>2 DEF RowStep, AttemptsStep, AttemptsBelowLimit

\* Each worker counts in its own copy of the task and writes the number back
\* blindly (execute.go:189): a copy, however stale, was checked against the limit,
\* which never changes.
LEMMA AttemptsLimited == Spec => []AttemptsBelowLimit
<1> DEFINE Inv == TypeInv /\ DispatchedReady /\ RetryWithinLimit /\ AttemptsBelowLimit
<1>1. Init => Inv
  <2>1. Init => DispatchedReady
    BY DEF Init, BrokerInit, SchedulerInit, DispatchedReady, Members
  <2>2. Init => RetryWithinLimit /\ AttemptsBelowLimit
    BY DEF Init, WorkerInit, RepoInit, NoRow, RetryWithinLimit, AttemptsBelowLimit
  <2> QED
    BY <2>1, <2>2, TypeInvInit
<1>2. Inv /\ [Next]_vars => Inv'
  BY TypeInvNext, DispatchedReadyNext, RetryWithinLimitNext, AttemptsNext
<1>3. Inv => AttemptsBelowLimit
  OBVIOUS
<1> HIDE DEF Inv
<1> QED
  BY <1>1, <1>2, <1>3, PTL DEF Spec

-----------------------------------------------------------------------------
(* The dead letter stream. *)

LEMMA FaultsGrow ==
  ASSUME TypeInv, [Next]_vars
  PROVE  faults \in Nat /\ (faults' = faults \/ faults' = faults + 1)
<1>1. faults \in Nat
  BY FaultsAssumption DEF TypeInv, TypeOK, FaultsTypeOK
<1>2. ASSUME NEW s \in SchedulerID, SchedulerStep(s)
      PROVE  faults' = faults \/ faults' = faults + 1
  BY <1>2 DEF SchedulerStep, Tick, TickError, PublishNext, PublishError, SchedulerStop, Fault
<1>3. ASSUME NEW w \in WorkerID, WorkerStep(w)
      PROVE  faults' = faults \/ faults' = faults + 1
  BY <1>3
     DEF WorkerStep, Subscribe, ReclaimPending, ReclaimError, ReadNew, ReadError,
         Receive, GetTask, GetMissing, Heartbeat, HeartbeatError, HandlerOk, HandlerError,
         Mark, MarkRejected, MarkReplyLost, PublishDLQ, PublishDLQError, Ack, CallError,
         WorkerStop, Fault
<1> QED
  BY <1>1, <1>2, <1>3 DEF Next, ClientStep, MonitorStep, MonitorCheck, Elapse, vars

\* Nothing leaves the dead letter stream.
LEMMA DLQGrows ==
  ASSUME [Next]_vars
  PROVE  dlq \subseteq dlq'
<1>1. ASSUME NEW w \in WorkerID, WorkerStep(w) PROVE dlq \subseteq dlq'
  BY <1>1
     DEF WorkerStep, Subscribe, ReclaimPending, ReclaimError, ReadNew, ReadError, Reading,
         Receive, GetTask, GetMissing, Heartbeat, HeartbeatError, HandlerOk, HandlerError,
         Mark, MarkRejected, MarkReplyLost, PublishDLQ, PublishDLQError, Ack, CallError,
         WorkerStop, brokerVars, CreateGroup, XAutoClaim, XReadGroup, XAddDLQ, XAck
<1> QED
  BY <1>1 DEF Next, ClientStep, SchedulerStep, Tick, TickError, PublishNext, XAdd, PublishError,
              SchedulerStop, MonitorStep, MonitorCheck, Elapse, brokerVars, vars

\* Only its own steps move a worker.
LEMMA OneMoves ==
  ASSUME TypeInv, [Next]_vars, NEW v \in WorkerID, NEW w \in WorkerID,
         pc'[v] # pc[v], pc'[w] # pc[w]
  PROVE  v = w
<1>1. \A u \in WorkerID : WorkerStep(u) => \A x \in WorkerID : x # u => pc'[x] = pc[x]
  BY DEF WorkerStep, Subscribe, ReclaimPending, ReclaimError, ReadNew, ReadError, Reading,
         Receive, GetTask, GetMissing, Heartbeat, HeartbeatError, HandlerOk, HandlerError,
         Mark, MarkRejected, MarkReplyLost, PublishDLQ, PublishDLQError, Ack, CallError,
         WorkerStop, workerVars, Goto, Done, TypeInv, TypeOK, WorkerTypeOK
<1>2. WorkerStep(v)
  BY OthersLeave
<1> QED
  BY <1>1, <1>2

\* A worker about to publish to the dead letter stream stays there or does it,
\* unless something fails.
LEMMA DLQWorker ==
  ASSUME TypeInv, [Next]_vars, NEW w \in WorkerID, pc[w] = "dlq",
         ~(pc'[w] = "dlq" /\ TaskOf(w)' = TaskOf(w))
  PROVE  pc'[w] # "dlq" /\ (TaskOf(w) \in dlq' \/ faults' = faults + 1)
<1>1. CASE WorkerStep(w)
  <2>1. \/ pc'[w] = "dlq" /\ job'[w] = job[w]
        \/ pc'[w] # "dlq" /\ (TaskOf(w) \in dlq' \/ faults' = faults + 1)
    BY <1>1
       DEF WorkerStep, Subscribe, ReclaimPending, ReclaimError, ReadNew, ReadError, Reading,
           Receive, GetTask, GetMissing, Heartbeat, HeartbeatError, HandlerOk, HandlerError,
           Mark, Commit, MarkRejected, MarkReplyLost, PublishDLQ, PublishDLQError, Ack,
           CallError, WorkerStop, XAddDLQ, Goto, Fault, workerVars, TypeInv, TypeOK, WorkerTypeOK
  <2> QED
    BY <2>1, TaskOfKept DEF Busy
<1>2. CASE ~WorkerStep(w)
  BY <1>2, OthersLeave, TaskOfKept DEF Busy
<1> QED
  BY <1>1, <1>2

\* A task loses its place in the dead letter stream by a failure of the worker
\* that marks it failed or publishes it.
LEMMA LetterLost ==
  ASSUME TypeInv, [Next]_vars, NEW t \in NotInDLQ', t \notin NotInDLQ
  PROVE  \E w \in WorkerID : TaskOf(w) = t /\ pc'[w] # pc[w] /\ faults' = faults + 1
<1>0. /\ t \in TaskID /\ tasks'[t].status = "failed" /\ t \notin dlq'
      /\ \A w \in WorkerID : pc'[w] = "dlq" => TaskOf(w)' # t
  BY DEF NotInDLQ
<1>1. CASE tasks[t].status = "failed"
  <2>1. PICK w \in WorkerID : pc[w] = "dlq" /\ TaskOf(w) = t
    BY <1>0, <1>1, DLQGrows DEF NotInDLQ
  <2>2. pc'[w] # "dlq" /\ (TaskOf(w) \in dlq' \/ faults' = faults + 1)
    BY <1>0, <2>1, DLQWorker
  <2> QED
    BY <1>0, <2>1, <2>2
<1>2. CASE tasks[t].status # "failed"
  <2>1. PICK w \in WorkerID : /\ pc[w] = "fail" /\ TaskOf(w) = t
                              /\ Mark(w) \/ MarkReplyLost(w)
    BY <1>0, <1>2, RowsStep DEF RowStep, OutcomeStep, MarkedBy
  <2>2. CASE Mark(w)
    <3>1. pc'[w] = "dlq" /\ job'[w] = job[w]
      BY <2>1, <2>2 DEF Mark, Goto, TypeInv, TypeOK, WorkerTypeOK
    <3>2. TaskOf(w)' = TaskOf(w)
      BY <2>1, <3>1, TaskOfKept DEF Busy
    <3> QED
      BY <1>0, <2>1, <3>1, <3>2
  <2>3. CASE MarkReplyLost(w)
    <3>1. pc'[w] = "idle" /\ faults' = faults + 1
      BY <2>3 DEF MarkReplyLost, Done, Goto, Fault, TypeInv, TypeOK, WorkerTypeOK
    <3> QED
      BY <2>1, <3>1
  <2> QED
    BY <2>1, <2>2, <2>3
<1> QED
  BY <1>1, <1>2

LEMMA FailedNext ==
  ASSUME TypeInv, FailedReachesDLQ, [Next]_vars
  PROVE  FailedReachesDLQ'
<1>0. /\ IsFiniteSet(NotInDLQ) /\ Cardinality(NotInDLQ) \in Nat
      /\ IsFiniteSet(NotInDLQ')
  BY RepoAssumption, FS_Subset, FS_CardinalityType DEF NotInDLQ
<1>1. faults \in Nat /\ faults' \in {faults, faults + 1} /\ Cardinality(NotInDLQ) <= faults
  BY FaultsGrow DEF FailedReachesDLQ
<1>2. CASE NotInDLQ' \subseteq NotInDLQ
  <2>1. Cardinality(NotInDLQ') <= Cardinality(NotInDLQ) /\ Cardinality(NotInDLQ') \in Nat
    BY <1>0, <1>2, FS_Subset, FS_CardinalityType
  <2> QED
    BY <1>0, <1>1, <2>1 DEF FailedReachesDLQ
<1>3. CASE ~(NotInDLQ' \subseteq NotInDLQ)
  <2>1. PICK t \in NotInDLQ' : t \notin NotInDLQ
    BY <1>3
  <2>2. PICK w \in WorkerID : TaskOf(w) = t /\ pc'[w] # pc[w] /\ faults' = faults + 1
    BY <2>1, LetterLost
  <2>3. NotInDLQ' \subseteq NotInDLQ \cup {t}
    BY <2>2, LetterLost, OneMoves
  <2>4. /\ IsFiniteSet(NotInDLQ \cup {t})
        /\ Cardinality(NotInDLQ \cup {t}) = Cardinality(NotInDLQ) + 1
    BY <1>0, <2>1, FS_AddElement
  <2>5. /\ Cardinality(NotInDLQ') <= Cardinality(NotInDLQ) + 1
        /\ Cardinality(NotInDLQ') \in Nat
    BY <1>0, <2>3, <2>4, FS_Subset, FS_CardinalityType
  <2> QED
    BY <1>0, <1>1, <2>2, <2>5 DEF FailedReachesDLQ
<1> QED
  BY <1>2, <1>3

(***************************************************************************)
(* However often calls and processes fail, each failure costs at most one  *)
(* dead letter: a failed task is in the dead letter stream or the worker   *)
(* that failed it is about to put it there (execute.go:221), whoever else  *)
(* has a delivery of the task and also after it was republished and failed *)
(* again, and only a failure of that very worker takes it out.             *)
(***************************************************************************)
THEOREM FailedTasksKept == Spec => []FailedReachesDLQ
<1>1. Init => FailedReachesDLQ
  <2> SUFFICES ASSUME Init PROVE FailedReachesDLQ
    OBVIOUS
  <2>1. NotInDLQ = {}
    BY DEF Init, RepoInit, NoRow, NotInDLQ
  <2> QED
    BY <2>1, FS_EmptySet DEF Init, FaultsInit, FailedReachesDLQ
<1>2. TypeInv /\ FailedReachesDLQ /\ [Next]_vars => FailedReachesDLQ'
  BY FailedNext
<1> QED
  BY <1>1, <1>2, TypeInvInit, TypeInvNext, PTL DEF Spec
=============================================================================
