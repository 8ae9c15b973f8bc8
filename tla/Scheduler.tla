----------------------------- MODULE Scheduler ------------------------------
(***************************************************************************)
(* The scheduler binary: the dispatch loop (internal/usecase/schedule.go)  *)
(* and the heartbeat monitor (internal/usecase/heartbeat.go), which runs   *)
(* beside it in the same process and touches only the store.               *)
(*                                                                         *)
(* tick commits PickAndMarkRunning first and then publishes the tasks one  *)
(* by one; outbox[s] is the rest of the batch of scheduler s.  A scheduler *)
(* that restarts has nothing to recover: it starts with an empty outbox.   *)
(***************************************************************************)
EXTENDS TaskRepo, Broker, Faults

CONSTANTS SchedulerID,
          BatchSize    \* LIMIT of PickAndMarkRunning

ASSUME SchedulerAssumption == BatchSize \in Nat

VARIABLE outbox

SchedulerTypeOK == outbox \in [SchedulerID -> Seq(TaskID)]

SchedulerInit == outbox = [s \in SchedulerID |-> <<>>]

Members(q) == {q[i] : i \in DOMAIN q}

\* PickAndMarkRunning committed; publishing starts.
Tick(s) ==
  /\ outbox[s] = <<>>
  /\ \E q \in Batches(BatchSize) :
       /\ q # <<>>
       /\ MarkRunning(q)
       /\ outbox' = [outbox EXCEPT ![s] = q]
       /\ lost' = lost \ Members(q)
  /\ UNCHANGED <<stream, last, owner, idle, dlq, faults>>

\* PickAndMarkRunning committed but its reply never came: tick returns the error.
TickError(s) ==
  /\ Fault
  /\ outbox[s] = <<>>
  /\ \E q \in Batches(BatchSize) :
       /\ q # <<>>
       /\ MarkRunning(q)
       /\ lost' = lost \cup Members(q)
  /\ UNCHANGED <<stream, last, owner, idle, dlq, outbox>>

\* Publish succeeds.
PublishNext(s) ==
  /\ outbox[s] # <<>>
  /\ XAdd(Head(outbox[s]))
  /\ outbox' = [outbox EXCEPT ![s] = Tail(@)]
  /\ UNCHANGED <<tasks, deps, faults>>

\* Publish fails: logged, and the loop goes on to the next task of the batch.
PublishError(s) ==
  /\ Fault
  /\ outbox[s] # <<>>
  /\ outbox' = [outbox EXCEPT ![s] = Tail(@)]
  /\ lost' = lost \cup {Head(outbox[s])}
  /\ UNCHANGED <<tasks, deps, stream, last, owner, idle, dlq>>

\* The scheduler dies (and restarts) with the rest of its batch unpublished.
SchedulerStop(s) ==
  /\ Fault
  /\ outbox[s] # <<>>
  /\ outbox' = [outbox EXCEPT ![s] = <<>>]
  /\ lost' = lost \cup Members(outbox[s])
  /\ UNCHANGED <<tasks, deps, stream, last, owner, idle, dlq>>

\* HeartbeatUseCase.check.
MonitorCheck ==
  /\ Stuck # {}
  /\ ResetStuckRunning
  /\ lost' = lost \ Stuck
  /\ UNCHANGED <<stream, last, owner, idle, dlq, outbox, faults>>
=============================================================================
