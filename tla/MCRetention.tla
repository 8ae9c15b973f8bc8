---------------------------- MODULE MCRetention -----------------------------
(***************************************************************************)
(* Instances of Retention for TLC.                                         *)
(***************************************************************************)
EXTENDS Retention, TLC

PlainCmds ==
  {[type |-> "registered", priority |-> 0, retry_limit |-> 1, wait |-> 0, key |-> NoKey]}

Symm == Permutations(TaskID)
=============================================================================
