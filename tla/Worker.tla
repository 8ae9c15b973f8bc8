------------------------------- MODULE Worker -------------------------------
(***************************************************************************)
(* The worker binary (internal/usecase/execute.go) with its side of the    *)
(* subscription (Subscribe, reclaimPending and readLoop of broker.go).     *)
(*                                                                         *)
(* A worker is two goroutines.  The reader claims idle entries once, then  *)
(* reads new ones into the Go channel; the other one takes deliveries from *)
(* the channel and runs process on one at a time.  pc[w] is the step       *)
(* process has reached:                                                    *)
(*                                                                         *)
(*   down     not running                                                  *)
(*   claim    Subscribe returned, reclaimPending not done yet              *)
(*   idle     waiting for a delivery                                       *)
(*   get      about to load the task (GetByID)                             *)
(*   run      the handler runs, heartbeats are sent                        *)
(*   complete, retry, fail   about to call UpdateTask in mark...           *)
(*   dlq      failed, about to publish to the dead letter stream           *)
(*   ack      about to acknowledge the delivery                            *)
(*                                                                         *)
(* The channel holds deliveries in increasing message order (claimed ones  *)
(* first, and these are older than anything read later), so it is a set    *)
(* and the next delivery is its least element.  It includes the entries of *)
(* the batch the reader still waits to push into a full channel.           *)
(***************************************************************************)
EXTENDS TaskRepo, Broker, Faults, Backoff

CONSTANTS HBInterval,  \* period of the heartbeat ticker
          ChanCap,     \* capacity of the delivery channel (64)
          BackoffBase, BackoffMax,  \* DefaultBackoff, in clock ticks
          MaxRun       \* bound on the ticks counted while one handler runs

ASSUME WorkerAssumption ==
  /\ HBInterval \in Nat \ {0}
  /\ ChanCap \in Nat
  /\ BackoffBase \in Int /\ BackoffMax \in Nat
  /\ MaxRun \in Nat

VARIABLES pc,
          chan,    \* deliveries waiting in the channel
          job,     \* the delivery being processed, 0 if none
          snap,    \* AttemptCount in the copy of the task process loaded
          hb,      \* ticks since the ticker last fired
          ran      \* ticks the handler has been running

workerVars == <<pc, chan, job, snap, hb, ran>>

WorkerTypeOK ==
  /\ pc \in [WorkerID -> {"down", "claim", "idle", "get", "run", "complete",
                          "retry", "fail", "dlq", "ack"}]
  /\ chan \in [WorkerID -> SUBSET (1..Len(stream))]
  /\ job \in [WorkerID -> 0..Len(stream)]
  /\ snap \in [WorkerID -> Nat]
  /\ hb \in [WorkerID -> 0..HBInterval]
  /\ ran \in [WorkerID -> 0..MaxRun]

WorkerInit ==
  /\ pc = [w \in WorkerID |-> "down"]
  /\ chan = [w \in WorkerID |-> {}]
  /\ job = [w \in WorkerID |-> 0]
  /\ snap = [w \in WorkerID |-> 0]
  /\ hb = [w \in WorkerID |-> 0]
  /\ ran = [w \in WorkerID |-> 0]

\* The task worker w processes.
TaskOf(w) == stream[job[w]]

Goto(w, next) == pc' = [pc EXCEPT ![w] = next]

\* process returns.
Done(w) ==
  /\ Goto(w, "idle")
  /\ job' = [job EXCEPT ![w] = 0]
  /\ snap' = [snap EXCEPT ![w] = 0]

-----------------------------------------------------------------------------
(* The subscription. *)

Subscribe(w) ==
  /\ pc[w] = "down"
  /\ CreateGroup
  /\ Goto(w, "claim")
  /\ UNCHANGED <<tasks, deps, faults, chan, job, snap, hb, ran>>

ReclaimPending(w) ==
  /\ pc[w] = "claim"
  /\ XAutoClaim(w)
  /\ chan' = [chan EXCEPT ![w] = Claimed]
  /\ Goto(w, "idle")
  /\ UNCHANGED <<tasks, deps, faults, job, snap, hb, ran>>

\* XAUTOCLAIM fails: reclaimPending gives up, readLoop starts.
ReclaimError(w) ==
  /\ Fault
  /\ pc[w] = "claim"
  /\ \/ XAutoClaim(w)            \* only the reply is lost
     \/ UNCHANGED brokerVars
  /\ Goto(w, "idle")
  /\ UNCHANGED <<tasks, deps, chan, job, snap, hb, ran>>

\* readLoop reads the next batch once the previous one is in the channel.
Reading(w) ==
  /\ pc[w] \notin {"down", "claim"}
  /\ Cardinality(chan[w]) <= ChanCap
  /\ XReadGroup(w)

ReadNew(w) ==
  /\ Reading(w)
  /\ chan' = [chan EXCEPT ![w] = @ \cup Unread]
  /\ UNCHANGED <<tasks, deps, faults, pc, job, snap, hb, ran>>

\* The reply of XREADGROUP is lost: the entries are pending, nobody has them.
ReadError(w) ==
  /\ Fault
  /\ Reading(w)
  /\ UNCHANGED <<tasks, deps, workerVars>>

-----------------------------------------------------------------------------
(* process *)

Receive(w) ==
  /\ pc[w] = "idle"
  /\ \E m \in chan[w] :
       /\ \A k \in chan[w] : m <= k
       /\ chan' = [chan EXCEPT ![w] = @ \ {m}]
       /\ job' = [job EXCEPT ![w] = m]
  /\ Goto(w, "get")
  /\ UNCHANGED <<tasks, deps, brokerVars, faults, snap, hb, ran>>

\* GetByID, the check for a finished task, the lookup of the handler.
GetTask(w) ==
  LET row == tasks[TaskOf(w)]
  IN  /\ pc[w] = "get"
      /\ Exists(TaskOf(w))
      /\ \/ /\ row.status \in {"completed", "cancelled"}
            /\ Goto(w, "ack")
            /\ UNCHANGED <<snap, hb, ran>>
         \/ /\ row.status \notin {"completed", "cancelled"}
            /\ row.type = "unregistered"
            /\ Goto(w, "fail")
            /\ UNCHANGED <<snap, hb, ran>>
         \/ /\ row.status \notin {"completed", "cancelled"}
            /\ row.type = "registered"
            /\ Goto(w, "run")
            /\ snap' = [snap EXCEPT ![w] = row.attempt_count]
            /\ hb' = [hb EXCEPT ![w] = 0]
            /\ ran' = [ran EXCEPT ![w] = 0]
      /\ UNCHANGED <<tasks, deps, brokerVars, faults, chan, job>>

\* GetByID finds no row: process returns without acknowledging.
GetMissing(w) ==
  /\ pc[w] = "get"
  /\ ~Exists(TaskOf(w))
  /\ Done(w)
  /\ UNCHANGED <<tasks, deps, brokerVars, faults, chan, hb, ran>>

\* The ticker fired; an unsuccessful Heartbeat is only logged.
Heartbeat(w) ==
  /\ pc[w] = "run"
  /\ hb[w] = HBInterval
  /\ Beat(TaskOf(w), w)
  /\ hb' = [hb EXCEPT ![w] = 0]
  /\ UNCHANGED <<deps, brokerVars, faults, pc, chan, job, snap, ran>>

HeartbeatError(w) ==
  /\ Fault
  /\ pc[w] = "run"
  /\ hb[w] = HBInterval
  /\ hb' = [hb EXCEPT ![w] = 0]
  /\ UNCHANGED <<tasks, deps, brokerVars, pc, chan, job, snap, ran>>

\* The handler returned a result.
HandlerOk(w) ==
  /\ pc[w] = "run"
  /\ Goto(w, "complete")
  /\ snap' = [snap EXCEPT ![w] = 0]
  /\ hb' = [hb EXCEPT ![w] = 0]
  /\ ran' = [ran EXCEPT ![w] = 0]
  /\ UNCHANGED <<tasks, deps, brokerVars, faults, chan, job>>

(***************************************************************************)
(* The handler returned an error.  IncrementAttempt and CanRetry act on    *)
(* the copy loaded by GetByID; an error that wraps context.Canceled is not *)
(* retried.  So it is when the worker is shut down while the handler runs: *)
(* process goes on as if the task had failed, and UpdateTask then fails on *)
(* the cancelled context (CallError or WorkerStop).                        *)
(***************************************************************************)
HandlerError(w) ==
  /\ pc[w] = "run"
  /\ \/ /\ CanRetry(snap[w] + 1, tasks[TaskOf(w)].retry_limit)
        /\ Goto(w, "retry")
        /\ snap' = [snap EXCEPT ![w] = @ + 1]
     \/ /\ Goto(w, "fail")      \* retries exhausted, or context.Canceled
        /\ snap' = [snap EXCEPT ![w] = 0]
  /\ hb' = [hb EXCEPT ![w] = 0]
  /\ ran' = [ran EXCEPT ![w] = 0]
  /\ UNCHANGED <<tasks, deps, brokerVars, faults, chan, job>>

-----------------------------------------------------------------------------
(* UpdateTask in markCompleted, markRetry and markFailed: committed, or     *)
(* rolled back because the task's status no longer allows the transition;  *)
(* then process returns without acknowledging.                             *)

SetCompleted(w) ==
  UpdateTask(TaskOf(w), "completed", [tasks[TaskOf(w)] EXCEPT !.worker_id = w])

\* A wrong markRetry that leaves AttemptCount as it is in the store.
SetRetryUncounted(w) ==
  UpdateTask(TaskOf(w), "pending",
             [tasks[TaskOf(w)] EXCEPT !.wait = Delay(BackoffBase, BackoffMax, snap[w]),
                                      !.worker_id = NoWorker])

SetRetry(w) ==
  UpdateTask(TaskOf(w), "pending",
             [tasks[TaskOf(w)] EXCEPT !.attempt_count = snap[w],
                                      !.wait = Delay(BackoffBase, BackoffMax, snap[w]),
                                      !.worker_id = NoWorker])

SetFailed(w) ==
  UpdateTask(TaskOf(w), "failed", [tasks[TaskOf(w)] EXCEPT !.worker_id = NoWorker])

Commit(w) ==
  \/ pc[w] = "complete" /\ SetCompleted(w)
  \/ pc[w] = "retry" /\ SetRetry(w)
  \/ pc[w] = "fail" /\ SetFailed(w)

\* A wrong markFailed that skips the dead letter stream.
MarkNoDLQ(w) ==
  /\ Commit(w)
  /\ Goto(w, "ack")
  /\ snap' = [snap EXCEPT ![w] = 0]
  /\ UNCHANGED <<brokerVars, faults, chan, job, hb, ran>>

Mark(w) ==
  /\ Commit(w)
  /\ Goto(w, IF pc[w] = "fail" THEN "dlq" ELSE "ack")
  /\ snap' = [snap EXCEPT ![w] = 0]
  /\ UNCHANGED <<brokerVars, faults, chan, job, hb, ran>>

MarkRejected(w) ==
  /\ \/ pc[w] = "complete" /\ ~CanTransition(tasks[TaskOf(w)].status, "completed")
     \/ pc[w] = "retry" /\ ~CanTransition(tasks[TaskOf(w)].status, "pending")
     \/ pc[w] = "fail" /\ ~CanTransition(tasks[TaskOf(w)].status, "failed")
  /\ Done(w)
  /\ UNCHANGED <<tasks, deps, brokerVars, faults, chan, hb, ran>>

\* The commit went through but UpdateTask reports an error.
MarkReplyLost(w) ==
  /\ Fault
  /\ Commit(w)
  /\ Done(w)
  /\ UNCHANGED <<brokerVars, chan, hb, ran>>

\* markFailed: the error of Publish is ignored.
PublishDLQ(w) ==
  /\ pc[w] = "dlq"
  /\ XAddDLQ(TaskOf(w))
  /\ Goto(w, "ack")
  /\ UNCHANGED <<tasks, deps, faults, chan, job, snap, hb, ran>>

PublishDLQError(w) ==
  /\ Fault
  /\ pc[w] = "dlq"
  /\ Goto(w, "ack")
  /\ UNCHANGED <<tasks, deps, brokerVars, chan, job, snap, hb, ran>>

Ack(w) ==
  /\ pc[w] = "ack"
  /\ XAck(job[w])
  /\ Done(w)
  /\ UNCHANGED <<tasks, deps, faults, chan, hb, ran>>

\* A wrong process that acknowledges a delivery it could not handle.
CallErrorAcks(w) ==
  /\ Fault
  /\ pc[w] \in {"get", "complete", "retry", "fail", "ack"}
  /\ XAck(job[w])
  /\ Done(w)
  /\ UNCHANGED <<tasks, deps, chan, hb, ran>>

\* GetByID, UpdateTask or Ack fails without effect: process returns.
CallError(w) ==
  /\ Fault
  /\ pc[w] \in {"get", "complete", "retry", "fail", "ack"}
  /\ Done(w)
  /\ UNCHANGED <<tasks, deps, brokerVars, chan, hb, ran>>

\* The worker dies at any step, or its shutdown is complete.
WorkerStop(w) ==
  /\ Fault
  /\ pc[w] # "down"
  /\ pc' = [pc EXCEPT ![w] = "down"]
  /\ chan' = [chan EXCEPT ![w] = {}]
  /\ job' = [job EXCEPT ![w] = 0]
  /\ snap' = [snap EXCEPT ![w] = 0]
  /\ hb' = [hb EXCEPT ![w] = 0]
  /\ ran' = [ran EXCEPT ![w] = 0]
  /\ UNCHANGED <<tasks, deps, brokerVars>>

\* The clock ticks: a due heartbeat waits in the ticker's channel of capacity one.
HandlersRun ==
  /\ hb' = [w \in WorkerID |->
              IF pc[w] = "run" /\ hb[w] < HBInterval THEN hb[w] + 1 ELSE hb[w]]
  /\ ran' = [w \in WorkerID |->
               IF pc[w] = "run" /\ ran[w] < MaxRun THEN ran[w] + 1 ELSE ran[w]]

WorkerStep(w) ==
  \/ Subscribe(w) \/ ReclaimPending(w) \/ ReclaimError(w) \/ ReadNew(w) \/ ReadError(w)
  \/ Receive(w) \/ GetTask(w) \/ GetMissing(w)
  \/ Heartbeat(w) \/ HeartbeatError(w) \/ HandlerOk(w) \/ HandlerError(w)
  \/ Mark(w) \/ MarkRejected(w) \/ MarkReplyLost(w)
  \/ PublishDLQ(w) \/ PublishDLQError(w) \/ Ack(w) \/ CallError(w) \/ WorkerStop(w)
=============================================================================
