----------------------------- MODULE Retention ------------------------------
(***************************************************************************)
(* Rsufz together with the repository's CleanupExpired, which deletes      *)
(* finished tasks after TTL ticks.  No binary calls it yet; it is part of  *)
(* the repository's interface (internal/usecase/ports.go) and its tests.   *)
(*                                                                         *)
(* Three history variables remember what the tables forget: the            *)
(* dependencies a task was created with, the tasks that completed, and the *)
(* tasks that were deleted after a client had cancelled them.              *)
(***************************************************************************)
EXTENDS Rsufz

VARIABLES declared, done, dropped

RetentionInit ==
  /\ Init
  /\ declared = [t \in TaskID |-> {}]
  /\ done = {}
  /\ dropped = {}

CleanupStep ==
  /\ Expired # {}
  /\ CleanupExpired
  /\ UNCHANGED <<brokerVars, faults, outbox, workerVars>>

Remember ==
  /\ declared' = [t \in TaskID |->
                    IF tasks[t].status = "absent" THEN deps'[t] ELSE declared[t]]
  /\ done' = done \cup {t \in TaskID : tasks'[t].status = "completed"}
  /\ dropped' = dropped \cup {t \in TaskID : tasks[t].status = "cancelled"
                                           /\ tasks'[t].status = "deleted"}

RetentionNext == (Next \/ CleanupStep) /\ Remember

RetentionSpec == RetentionInit /\ [][RetentionNext]_<<vars, declared, done, dropped>>

(***************************************************************************)
(* A handler runs only after every dependency the task was created with    *)
(* has completed (common.proto:27), or was cancelled and its row deleted   *)
(* since: CleanupExpired removes the dependency rows of the tasks it       *)
(* deletes too (repo.go:519), and a task picked, reset or delivered after  *)
(* that must not start for any other reason.  A dependency that failed, or *)
(* was cancelled a short time ago, still holds its dependants back.        *)
(***************************************************************************)
DeclaredDepsRespected ==
  \A w \in WorkerID : pc[w] = "run" => declared[TaskOf(w)] \subseteq done \cup dropped
=============================================================================
