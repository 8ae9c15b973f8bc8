------------------------------- MODULE Rsufz --------------------------------
(***************************************************************************)
(* The system: clients of the API gateway, schedulers, workers, the store  *)
(* and the broker, and the clock they share.                               *)
(*                                                                         *)
(* Prompt chooses between two views of time.  FALSE: a clock tick may come *)
(* between any two steps, so every process may be arbitrarily slow.  TRUE: *)
(* the machine is fast compared with its timeouts, and the clock only      *)
(* ticks when no process has anything to do but wait for a handler (for at *)
(* most MaxRun ticks), for a timeout or for the monitor, and some worker   *)
(* is up.                                                                  *)
(***************************************************************************)
EXTENDS Gateway, Scheduler, Worker

CONSTANTS Prompt,      \* time advances only when the processes are done
          Operated     \* tasks a client may cancel or republish

ASSUME RsufzAssumption ==
  /\ Prompt \in BOOLEAN
  /\ Operated \subseteq TaskID

vars == <<tasks, deps, stream, last, owner, idle, dlq, lost, faults, outbox,
          pc, chan, job, snap, hb, ran>>

TypeOK ==
  /\ RepoTypeOK
  /\ BrokerTypeOK
  /\ FaultsTypeOK
  /\ SchedulerTypeOK
  /\ WorkerTypeOK

Init ==
  /\ RepoInit
  /\ BrokerInit
  /\ FaultsInit
  /\ SchedulerInit
  /\ WorkerInit

ClientStep ==
  /\ \/ \E t \in TaskID, cmd \in Cmds, D \in SUBSET TaskID : Enqueue(t, cmd, D)
     \/ \E t \in Operated : Cancel(t)
     \/ \E t \in Operated : Republish(t)
  /\ UNCHANGED <<brokerVars, faults, outbox, workerVars>>

SchedulerStep(s) ==
  /\ Tick(s) \/ TickError(s) \/ PublishNext(s) \/ PublishError(s) \/ SchedulerStop(s)
  /\ UNCHANGED workerVars

MonitorStep == MonitorCheck /\ UNCHANGED workerVars

\* Nothing is left to do at this instant.
Quiet ==
  /\ \E w \in WorkerID : pc[w] # "down"
  /\ Due = {} \/ BatchSize = 0
  /\ \A s \in SchedulerID : outbox[s] = <<>>
  /\ \A w \in WorkerID :
       \/ pc[w] = "down"
       \/ /\ Unread = {} \/ Cardinality(chan[w]) > ChanCap
          /\ \/ pc[w] = "idle" /\ chan[w] = {}
             \/ pc[w] = "run" /\ hb[w] < HBInterval /\ ran[w] < MaxRun

Elapse ==
  /\ Prompt => Quiet
  /\ RowsAge
  /\ EntriesAge
  /\ HandlersRun
  /\ UNCHANGED <<deps, stream, last, dlq, lost, owner, faults, outbox, pc, chan, job, snap>>

Next ==
  \/ ClientStep
  \/ \E s \in SchedulerID : SchedulerStep(s)
  \/ MonitorStep
  \/ \E w \in WorkerID : WorkerStep(w) /\ UNCHANGED outbox
  \/ Elapse

Spec == Init /\ [][Next]_vars

\* The steps of process(w) that do not depend on a failure.
Process(w) ==
  \/ Receive(w) \/ GetTask(w) \/ GetMissing(w) \/ HandlerOk(w) \/ HandlerError(w)
  \/ Mark(w) \/ MarkRejected(w) \/ PublishDLQ(w) \/ Ack(w)

(***************************************************************************)
(* The loops of the code keep running: the scheduler's and the monitor's   *)
(* tickers fire again and again, the reader and the process goroutine of a *)
(* worker that is up go on, handlers return.  Nothing in the repository    *)
(* starts a worker that is down again, so none is assumed to come back.    *)
(***************************************************************************)
Fairness ==
  /\ \A s \in SchedulerID :
       WF_vars((Tick(s) \/ PublishNext(s)) /\ UNCHANGED workerVars)
  /\ WF_vars(MonitorStep)
  /\ \A w \in WorkerID :
       /\ WF_vars(ReclaimPending(w) /\ UNCHANGED outbox)
       /\ WF_vars(ReadNew(w) /\ UNCHANGED outbox)
       /\ WF_vars(Process(w) /\ UNCHANGED outbox)
       /\ WF_vars(Heartbeat(w) /\ UNCHANGED outbox)
  /\ WF_vars(Elapse)

FairSpec == Spec /\ Fairness

-----------------------------------------------------------------------------
(* Safety. *)

\* Message m may still be delivered or is pending, and the worker that has it has
\* not recorded an outcome yet.
Carries(m) ==
  /\ m > last \/ owner[m] # NoWorker
  /\ \A w \in WorkerID : job[w] = m => pc[w] \notin {"dlq", "ack"}

\* A dispatch of t is on its way: waiting to be published or in a live message.
Carried(t) ==
  \/ \E s \in SchedulerID : t \in Members(outbox[s])
  \/ \E m \in 1..Len(stream) : stream[m] = t /\ Carries(m)

(***************************************************************************)
(* A running task is never silently forgotten: its dispatch is still on    *)
(* its way, or it got lost in one of the ways the monitor is there for (a  *)
(* failed publish, a scheduler that died, an entry published before the    *)
(* group existed).  This is what recording the outcome before XACK         *)
(* (execute.go:165-177) and the pending entries list are for.              *)
(***************************************************************************)
NoSilentLoss == \A t \in TaskID : tasks[t].status = "running" => Carried(t) \/ t \in lost

(***************************************************************************)
(* No handler runs before every task its task depends on is completed      *)
(* (the NOT EXISTS of repo.go:422-428), through retries, resets,           *)
(* redeliveries and stale messages, which all bypass the scheduler's check.*)
(***************************************************************************)
DepsRespected == \A w \in WorkerID : pc[w] = "run" => Ready(TaskOf(w))

(***************************************************************************)
(* A completed or cancelled task keeps its row: a second execution, a late *)
(* heartbeat, the monitor or a client can no longer change it.  The time   *)
(* since its last update grows and the time to its due date shrinks, as    *)
(* the clock makes them: nothing sets updated_at or scheduled_at again.    *)
(***************************************************************************)
FinalRow ==
  \A t \in TaskID :
    tasks[t].status \in {"completed", "cancelled"} =>
      /\ tasks'[t] = [tasks[t] EXCEPT !.age = tasks'[t].age, !.wait = tasks'[t].wait]
      /\ tasks'[t].age >= tasks[t].age
      /\ tasks'[t].wait <= tasks[t].wait

FinalIsFinal == [][FinalRow]_vars

\* The failed tasks that are neither in the dead letter stream nor about to be
\* put there.
NotInDLQ ==
  {t \in TaskID :
     /\ tasks[t].status = "failed"
     /\ t \notin dlq
     /\ \A w \in WorkerID : pc[w] = "dlq" => TaskOf(w) # t}

(***************************************************************************)
(* A failure of a call or of a process costs at most one dead letter: the  *)
(* row is marked failed first, the publish comes after it and its error is *)
(* ignored (execute.go:207-222).  With no failure every failed task is in  *)
(* the dead letter stream or about to be put there.                        *)
(***************************************************************************)
FailedReachesDLQ == Cardinality(NotInDLQ) <= faults

(***************************************************************************)
(* AttemptCount is "how many attempts there have been" (task.go:62), so it *)
(* does not go down unless a client republishes the task.  The code does   *)
(* not keep to this: markRetry writes the count of a copy that may be      *)
(* several attempts old (execute.go:189).                                  *)
(***************************************************************************)
AttemptsNeverLowered ==
  [][\A t \in TaskID \ Operated :
       tasks'[t].attempt_count >= tasks[t].attempt_count]_vars

(***************************************************************************)
(* "Republish resets a failed task" (tasks.go:39, tasks.proto:22): it is   *)
(* the one operation that zeroes attempt_count.  The code does not keep to *)
(* this: it takes running tasks too.                                       *)
(***************************************************************************)
RepublishOnlyFailed ==
  [][\A t \in TaskID :
       tasks[t].attempt_count > 0 /\ tasks'[t].attempt_count = 0
         => tasks[t].status = "failed"]_vars

-----------------------------------------------------------------------------
(* Timing. *)

\* Worker w, alive, has a delivery of task t: waiting in its channel or in process.
Holds(w, t) ==
  \/ \E m \in chan[w] : stream[m] = t
  \/ job[w] # 0 /\ TaskOf(w) = t /\ pc[w] \notin {"dlq", "ack"}

(***************************************************************************)
(* What the two timeouts have to allow for when no handler takes more than *)
(* MaxRun: a delivery may wait at its worker behind every other task       *)
(* before its handler starts and the first heartbeat is due.               *)
(***************************************************************************)
TimeoutsSuffice ==
  /\ HBTimeout >= (Cardinality(TaskID) - 1) * MaxRun + HBInterval
  /\ MinIdle > Cardinality(TaskID) * MaxRun

(***************************************************************************)
(* "updated_at is stale - that means the worker died" (heartbeat.go:12-13):*)
(* a task the monitor resets is in the hands of no live worker.            *)
(***************************************************************************)
StuckMeansDead == \A t \in Stuck, w \in WorkerID : ~Holds(w, t)

(***************************************************************************)
(* No two workers execute one task at the same time ("every task is        *)
(* processed exactly once", e2e_test.go:306).                              *)
(***************************************************************************)
ExclusiveExecution ==
  \A v, w \in WorkerID : v # w /\ pc[v] = "run" /\ pc[w] = "run" => TaskOf(v) # TaskOf(w)

-----------------------------------------------------------------------------
(* Liveness. *)

(***************************************************************************)
(* As long as some worker is up from some time on, every task whose        *)
(* dependencies are completed gets completed, failed or cancelled in the   *)
(* end, whatever dispatch, delivery, reply or other worker was lost on the *)
(* way: what the monitor, XAUTOCLAIM and the retries are for.              *)
(***************************************************************************)
Staffed == <>[](\E w \in WorkerID : pc[w] # "down")

ReadyTasksFinish ==
  Staffed =>
    \A t \in TaskID :
      (tasks[t].status = "pending" /\ Ready(t))
        ~> tasks[t].status \in {"completed", "failed", "cancelled"}

-----------------------------------------------------------------------------
(* The promise the system keeps. *)

Lifecycle == INSTANCE TaskLifecycle WITH status <- [t \in TaskID |-> tasks[t].status]

\* Hidden behind store, broker, schedulers and workers, every task goes
\* through the life cycle of task.go and starts after its dependencies.
ImplementsLifecycle == Lifecycle!Spec
=============================================================================
