------------------------------ MODULE MCRsufz -------------------------------
(***************************************************************************)
(* Instances of Rsufz for TLC.                                             *)
(***************************************************************************)
EXTENDS Rsufz, TLC

\* One command: no delay, two attempts.
PlainCmds ==
  {[type |-> "registered", priority |-> 0, retry_limit |-> 2, wait |-> 0, key |-> NoKey]}

\* Three attempts.
ThreeAttempts == {[cmd EXCEPT !.retry_limit = 3] : cmd \in PlainCmds}

\* The first, and one of a type no worker handles: urgent, but due later.
MixedCmds ==
  PlainCmds \cup
  {[type |-> "unregistered", priority |-> 1, retry_limit |-> 1, wait |-> 1, key |-> NoKey]}

Symm == Permutations(TaskID) \cup Permutations(WorkerID) \cup Permutations(SchedulerID)
=============================================================================
