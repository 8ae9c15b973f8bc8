------------------------- MODULE MCIdempotentEnqueue ------------------------
(***************************************************************************)
(* Instances of IdempotentEnqueue for TLC.                                 *)
(***************************************************************************)
EXTENDS IdempotentEnqueue, TLC

\* One command for each key.
KeyedCmds ==
  {[type |-> "registered", priority |-> 0, retry_limit |-> 1, wait |-> 0, key |-> k] : k \in Key}

Symm == Permutations(TaskID) \cup Permutations(Key) \cup Permutations(Request)
=============================================================================
