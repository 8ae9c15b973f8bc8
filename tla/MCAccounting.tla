---------------------------- MODULE MCAccounting ----------------------------
(***************************************************************************)
(* Instances of Accounting for TLC.                                        *)
(***************************************************************************)
EXTENDS Accounting, TLC

\* Two attempts, and one of a type no worker handles.
MixedCmds ==
  {[type |-> "registered", priority |-> 0, retry_limit |-> 2, wait |-> 0, key |-> NoKey],
   [type |-> "unregistered", priority |-> 0, retry_limit |-> 1, wait |-> 0, key |-> NoKey]}

\* The timeouts are long enough, and as short as they may be.
ASSUME TimeoutsAssumption == TimeoutsSuffice

Symm == Permutations(TaskID) \cup Permutations(WorkerID) \cup Permutations(SchedulerID)
=============================================================================
