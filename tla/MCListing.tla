------------------------------ MODULE MCListing -----------------------------
(***************************************************************************)
(* An instance of Listing for TLC: all tasks or the completed ones of a   *)
(* type, pages of two tasks or of the default size, counted from 0 or 1 or *)
(* so high that the offset overflows.                                      *)
(***************************************************************************)
EXTENDS Listing, TLC

\* All tasks, and the completed ones of a type.
SomeFilters ==
  {[status |-> Unspecified, type |-> AnyType], [status |-> 3, type |-> "registered"]}

\* With four bits and pages of two, page 5 has offset -8 and page 9 offset 0.
SomeStarts ==
  {[page |-> 1, size |-> 0], [page |-> 0, size |-> 2],
   [page |-> 5, size |-> 2], [page |-> 9, size |-> 2]}

TwoTypes ==
  {[type |-> ty, priority |-> 0, retry_limit |-> 1, wait |-> 0, key |-> NoKey] : ty \in TaskType}

Symm == Permutations(TaskID)
=============================================================================
