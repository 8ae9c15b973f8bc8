----------------------------- MODULE CycleCheck -----------------------------
(***************************************************************************)
(* CheckCycle (internal/domain/dag.go): depth-first search over the        *)
(* dependencies of a task with white, gray and black nodes.  The recursion *)
(* is an explicit stack of frames: the task of the frame and the           *)
(* dependencies its loop has not come to yet.  getDeps may list them in    *)
(* any order.                                                              *)
(*                                                                         *)
(* No process calls CheckCycle: Create relies on the foreign key, by which *)
(* a dependency exists before its dependants.                              *)
(***************************************************************************)
EXTENDS Integers, Sequences

CONSTANT Node          \* tasks of the graph

VARIABLES edges,       \* getDeps: the dependencies of each task
          start,       \* startID
          color,       \* "white", "gray" or "black"
          stack,       \* frames of dfs, innermost first
          verdict      \* "nil" or "ErrCyclicDependency" once CheckCycle returns

cycleVars == <<edges, start, color, stack, verdict>>

\* dfs(n) of a white n: the node turns gray and its loop starts.
Enter(n, frames) ==
  /\ color' = [color EXCEPT ![n] = "gray"]
  /\ stack' = <<[id |-> n, rest |-> edges[n]]>> \o frames

CycleInit ==
  /\ edges \in [Node -> SUBSET Node]
  /\ start \in Node
  /\ color = [n \in Node |-> IF n = start THEN "gray" ELSE "white"]
  /\ stack = <<[id |-> start, rest |-> edges[start]]>>
  /\ verdict = "searching"

Top == Head(stack)

\* A wrong Visit that follows a gray node again, for ever; the frame replaces
\* the caller's, which keeps the stack finite.
VisitAgain(d) ==
  /\ stack # <<>>
  /\ d \in Top.rest
  /\ color' = [color EXCEPT ![d] = "gray"]
  /\ stack' = <<[id |-> d, rest |-> edges[d]]>> \o Tail(stack)
  /\ UNCHANGED <<edges, start, verdict>>

\* The loop goes on with dependency d of the innermost frame.
Visit(d) ==
  /\ stack # <<>>
  /\ d \in Top.rest
  /\ LET frames == <<[Top EXCEPT !.rest = @ \ {d}]>> \o Tail(stack)
     IN  \/ /\ color[d] = "gray"
            /\ verdict' = "ErrCyclicDependency"
            /\ stack' = <<>>                 \* the error goes up through all frames
            /\ UNCHANGED color
         \/ /\ color[d] = "black"
            /\ stack' = frames
            /\ UNCHANGED <<color, verdict>>
         \/ /\ color[d] = "white"
            /\ Enter(d, frames)
            /\ UNCHANGED verdict
  /\ UNCHANGED <<edges, start>>

\* A wrong Leave that forgets color[id] = black and leaves the node gray.
LeaveGray ==
  /\ stack # <<>>
  /\ Top.rest = {}
  /\ stack' = Tail(stack)
  /\ verdict' = IF Len(stack) = 1 THEN "nil" ELSE verdict
  /\ UNCHANGED <<edges, start, color>>

\* The loop is over: the node turns black and dfs returns nil to its caller.
Leave ==
  /\ stack # <<>>
  /\ Top.rest = {}
  /\ color' = [color EXCEPT ![Top.id] = "black"]
  /\ stack' = Tail(stack)
  /\ verdict' = IF Len(stack) = 1 THEN "nil" ELSE verdict
  /\ UNCHANGED <<edges, start>>

CycleNext == Leave \/ \E d \in Node : Visit(d)

CycleSpec == CycleInit /\ [][CycleNext]_cycleVars

-----------------------------------------------------------------------------
\* Nodes reached from n by one edge or more: the least set with the
\* dependencies of n that is closed under edges.
ReachedFrom(n) ==
  {m \in Node : \A S \in SUBSET Node :
     edges[n] \subseteq S /\ (\A k \in S : edges[k] \subseteq S) => m \in S}

Cyclic == \E n \in {start} \cup ReachedFrom(start) : n \in ReachedFrom(n)

(***************************************************************************)
(* CheckCycle reports ErrCyclicDependency exactly when the graph reachable *)
(* from startID has a cycle (dag.go:5-6), for every graph and every order  *)
(* of its dependencies: a node met twice on different branches is no cycle,*)
(* a node met on its own branch is one.                                    *)
(***************************************************************************)
VerdictRight == verdict # "searching" => (verdict = "ErrCyclicDependency") = Cyclic
=============================================================================
