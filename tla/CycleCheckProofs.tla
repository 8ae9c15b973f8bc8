-------------------------- MODULE CycleCheckProofs ---------------------------
(***************************************************************************)
(* The verdict of CheckCycle (CycleCheck) is right for every graph, finite *)
(* or not, every start and every order in which dependencies are listed.   *)
(***************************************************************************)
EXTENDS CycleCheck, SequenceTheorems, TLAPS

-----------------------------------------------------------------------------
(* Reachability: ReachedFrom(n) is the least set with the dependencies of n *)
(* that is closed under edges.                                              *)

Graph == edges \in [Node -> SUBSET Node]

Closed(S) == \A k \in S : edges[k] \subseteq S

LEMMA ReachedEdge ==
  ASSUME Graph, NEW n \in Node, NEW d \in edges[n]
  PROVE  d \in ReachedFrom(n)
BY DEF Graph, ReachedFrom

LEMMA ReachedClosed ==
  ASSUME Graph, NEW n \in Node, NEW k \in ReachedFrom(n), NEW d \in edges[k]
  PROVE  d \in ReachedFrom(n)
<1>1. k \in Node /\ d \in Node
  BY DEF Graph, ReachedFrom
<1>2. ASSUME NEW S \in SUBSET Node, edges[n] \subseteq S, \A j \in S : edges[j] \subseteq S
      PROVE  d \in S
  <2>1. k \in S
    BY <1>2 DEF ReachedFrom
  <2> QED
    BY <1>2, <2>1
<1> QED
  BY <1>1, <1>2 DEF ReachedFrom

\* A closed set with the dependencies of n holds all that n reaches.
LEMMA ReachedLeast ==
  ASSUME NEW n \in Node, NEW S \in SUBSET Node, edges[n] \subseteq S, Closed(S)
  PROVE  ReachedFrom(n) \subseteq S
BY DEF ReachedFrom, Closed

-----------------------------------------------------------------------------
(* The invariant of the search. *)

Frame == [id : Node, rest : SUBSET Node]

Black == {n \in Node : color[n] = "black"}

CycleTypeOK ==
  /\ Graph
  /\ start \in Node
  /\ color \in [Node -> {"white", "gray", "black"}]
  /\ stack \in Seq(Frame)
  /\ verdict \in {"searching", "nil", "ErrCyclicDependency"}

Frames == 1..Len(stack)

\* The frames are the gray nodes, each once; the outermost is that of startID.
GrayOnStack ==
  /\ Len(stack) > 0
  /\ stack[Len(stack)].id = start
  /\ \A i \in Frames : color[stack[i].id] = "gray"
  /\ \A i, j \in Frames : stack[i].id = stack[j].id => i = j
  /\ \A n \in Node : color[n] = "gray" => \E i \in Frames : stack[i].id = n

\* All nodes on the stack are reached from startID, and each from the frames below.
StackIsPath ==
  /\ \A i \in Frames : stack[i].id \in {start} \cup ReachedFrom(start)
  /\ \A i, j \in Frames : i < j => stack[i].id \in ReachedFrom(stack[j].id)

\* What a frame has still to look at, and what it has looked at.
LoopsDone ==
  \A i \in Frames :
    /\ stack[i].rest \subseteq edges[stack[i].id]
    /\ \A d \in edges[stack[i].id] \ stack[i].rest :
         d \in Black \/ (i > 1 /\ d = stack[i - 1].id)

\* Nothing but finished nodes can be reached from one, and none is on a cycle.
BlackDone ==
  /\ Closed(Black)
  /\ \A n \in Black : n \notin ReachedFrom(n)

SearchInv ==
  /\ CycleTypeOK
  /\ verdict = "searching" => GrayOnStack /\ StackIsPath /\ LoopsDone /\ BlackDone
  /\ verdict # "searching" => stack = <<>>
  /\ VerdictRight

-----------------------------------------------------------------------------
(* The steps. *)

LEMMA TopFacts ==
  ASSUME CycleTypeOK, stack # <<>>
  PROVE  /\ Len(stack) \in Nat /\ Len(stack) > 0
         /\ 1 \in Frames /\ Len(stack) \in Frames
         /\ Top = stack[1] /\ Top \in Frame
         /\ Tail(stack) \in Seq(Frame) /\ Len(Tail(stack)) = Len(stack) - 1
         /\ \A i \in 1..Len(stack) - 1 : Tail(stack)[i] = stack[i + 1]
<1>1. stack \in Seq(Frame) /\ Len(stack) \in Nat /\ Len(stack) > 0
  BY DEF CycleTypeOK
<1>2. /\ Head(stack) \in Frame /\ Tail(stack) \in Seq(Frame)
      /\ Len(Tail(stack)) = Len(stack) - 1
      /\ \A i \in 1..Len(Tail(stack)) : Tail(stack)[i] = stack[i + 1]
  BY <1>1, HeadTailProperties
<1>3. Head(stack) = stack[1]
  BY <1>1
<1> QED
  BY <1>1, <1>2, <1>3 DEF Top, Frames

\* A frame in front of a stack.
LEMMA Push ==
  ASSUME NEW f \in Frame, NEW s \in Seq(Frame)
  PROVE  /\ <<f>> \o s \in Seq(Frame)
         /\ Len(<<f>> \o s) = Len(s) + 1
         /\ (<<f>> \o s)[1] = f
         /\ \A i \in 1..Len(s) : (<<f>> \o s)[i + 1] = s[i]
<1>1. <<f>> \in Seq(Frame) /\ Len(<<f>>) = 1 /\ <<f>>[1] = f /\ Len(s) \in Nat
  OBVIOUS
<1>2. /\ <<f>> \o s \in Seq(Frame)
      /\ Len(<<f>> \o s) = 1 + Len(s)
      /\ \A i \in 1..1 + Len(s) :
           (<<f>> \o s)[i] = IF i <= 1 THEN <<f>>[i] ELSE s[i - 1]
  BY <1>1, ConcatProperties
<1>3. ASSUME NEW i \in 1..Len(s) PROVE (<<f>> \o s)[i + 1] = s[i]
  <2>1. i + 1 \in 1..1 + Len(s) /\ ~(i + 1 <= 1) /\ (i + 1) - 1 = i
    BY <1>1
  <2> QED
    BY <1>2, <2>1
<1> QED
  BY <1>1, <1>2, <1>3

\* The graph does not change, so reachability does not.
LEMMA SameGraph ==
  ASSUME UNCHANGED <<edges, start>>
  PROVE  /\ (Cyclic' <=> Cyclic) /\ (Graph' <=> Graph)
         /\ \A n : ReachedFrom(n)' = ReachedFrom(n)
<1>1. \A n : ReachedFrom(n)' = ReachedFrom(n)
  BY DEF ReachedFrom
<1> QED
  BY <1>1 DEF Cyclic, Graph

\* A gray dependency is on the stack, hence on a cycle.
LEMMA GrayIsCycle ==
  ASSUME CycleTypeOK, GrayOnStack, StackIsPath, stack # <<>>,
         NEW d \in Node, d \in edges[Top.id], color[d] = "gray"
  PROVE  Cyclic
<1>1. 1 \in Frames /\ Top = stack[1] /\ Graph
  BY TopFacts DEF CycleTypeOK
<1>2. PICK j \in Frames : stack[j].id = d
  BY DEF GrayOnStack
<1>3. j = 1 \/ 1 < j
  BY <1>2 DEF Frames, CycleTypeOK
<1>4. d \in ReachedFrom(d)
  <2>1. CASE j = 1
    BY <1>1, <1>2, <2>1, ReachedEdge
  <2>2. CASE 1 < j
    <3>1. Top.id \in ReachedFrom(d)
      BY <1>1, <1>2, <2>2 DEF StackIsPath
    <3> QED
      BY <1>1, <3>1, ReachedClosed
  <2> QED
    BY <1>3, <2>1, <2>2
<1> QED
  BY <1>2, <1>4 DEF StackIsPath, Cyclic

\* When a loop is over, all dependencies of its node are black.
LEMMA LoopOver ==
  ASSUME CycleTypeOK, GrayOnStack, LoopsDone, BlackDone, stack # <<>>, Top.rest = {}
  PROVE  /\ Top.id \in Node /\ color[Top.id] = "gray"
         /\ edges[Top.id] \subseteq Black
         /\ Top.id \notin ReachedFrom(Top.id)
         /\ ReachedFrom(Top.id) \subseteq Black
<1>1. 1 \in Frames /\ Top = stack[1] /\ Top \in Frame
  BY TopFacts
<1>2. Top.id \in Node /\ color[Top.id] = "gray"
  BY <1>1 DEF GrayOnStack, Frame
<1>3. edges[Top.id] \subseteq Black
  BY <1>1 DEF LoopsDone
<1>4. Black \in SUBSET Node /\ Top.id \notin Black
  BY <1>2 DEF Black
<1>5. ReachedFrom(Top.id) \subseteq Black
  BY <1>2, <1>3, <1>4, ReachedLeast DEF BlackDone
<1> QED
  BY <1>2, <1>3, <1>4, <1>5

LEMMA LeaveKeeps ==
  ASSUME SearchInv, Leave
  PROVE  SearchInv'
<1> USE DEF SearchInv
<1>0. /\ stack # <<>> /\ Top.rest = {} /\ UNCHANGED <<edges, start>>
      /\ color' = [color EXCEPT ![Top.id] = "black"]
      /\ stack' = Tail(stack)
      /\ verdict' = IF Len(stack) = 1 THEN "nil" ELSE verdict
  BY DEF Leave
<1>1. verdict = "searching" /\ GrayOnStack /\ StackIsPath /\ LoopsDone /\ BlackDone
  BY <1>0
<1>2. /\ Len(stack) \in Nat /\ Len(stack) > 0
      /\ 1 \in Frames /\ Len(stack) \in Frames
      /\ Top = stack[1] /\ Top \in Frame
      /\ Tail(stack) \in Seq(Frame) /\ Len(Tail(stack)) = Len(stack) - 1
      /\ \A i \in 1..Len(stack) - 1 : Tail(stack)[i] = stack[i + 1]
  BY <1>0, TopFacts
<1>3. /\ Top.id \in Node /\ color[Top.id] = "gray"
      /\ edges[Top.id] \subseteq Black
      /\ Top.id \notin ReachedFrom(Top.id)
      /\ ReachedFrom(Top.id) \subseteq Black
  BY <1>0, <1>1, LoopOver
<1>4. /\ (Cyclic' <=> Cyclic) /\ (Graph' <=> Graph)
      /\ \A n : ReachedFrom(n)' = ReachedFrom(n)
  BY <1>0, SameGraph
<1>5. CycleTypeOK'
  BY <1>0, <1>1, <1>2, <1>3, <1>4 DEF CycleTypeOK
<1>6. Black' = Black \cup {Top.id}
  BY <1>0, <1>3 DEF Black, CycleTypeOK
<1>7. BlackDone'
  <2>1. Closed(Black)'
    BY <1>0, <1>1, <1>3, <1>6 DEF Closed, BlackDone
  <2> QED
    BY <1>1, <1>3, <1>4, <1>6, <2>1 DEF BlackDone
<1>8. CASE Len(stack) = 1
  <2>1. Top.id = start
    BY <1>1, <1>2, <1>8 DEF GrayOnStack
  <2>2. ~Cyclic
    <3> SUFFICES ASSUME NEW n \in {start} \cup ReachedFrom(start)
                 PROVE  n \notin ReachedFrom(n)
      BY DEF Cyclic
    <3>1. n = Top.id \/ n \in Black
      BY <1>3, <2>1
    <3> QED
      BY <1>1, <1>3, <3>1 DEF BlackDone
  <2>3. stack' = <<>>
    BY <1>0, <1>2, <1>8
  <2>4. verdict' = "nil" /\ ~Cyclic'
    BY <1>0, <1>4, <1>8, <2>2
  <2>5. VerdictRight'
    BY <2>4 DEF VerdictRight, Cyclic
  <2> QED
    BY <1>5, <2>3, <2>4, <2>5
<1>9. CASE Len(stack) # 1
  <2>1. /\ Len(stack') = Len(stack) - 1 /\ Len(stack') > 0
        /\ \A i \in 1..Len(stack') : i + 1 \in Frames /\ stack'[i] = stack[i + 1]
    BY <1>0, <1>2, <1>9 DEF Frames
  <2>2. \A i \in 1..Len(stack') : stack'[i].id # Top.id /\ stack'[i].id \in Node
    <3> SUFFICES ASSUME NEW i \in 1..Len(stack')
                 PROVE  stack'[i].id # Top.id /\ stack'[i].id \in Node
      OBVIOUS
    <3>1. i + 1 \in Frames /\ i + 1 # 1 /\ stack'[i] = stack[i + 1]
      BY <1>2, <2>1
    <3>2. stack[i + 1] \in Frame
      BY <3>1 DEF CycleTypeOK, Frames
    <3> QED
      BY <1>1, <1>2, <3>1, <3>2 DEF GrayOnStack, Frame
  <2>3. GrayOnStack'
    <3>1. stack'[Len(stack')].id = start
      <4>1. Len(stack') \in 1..Len(stack') /\ Len(stack') + 1 = Len(stack)
        BY <1>2, <2>1
      <4> QED
        BY <1>1, <2>1, <4>1 DEF GrayOnStack
    <3>2. \A i \in 1..Len(stack') : color'[stack'[i].id] = "gray"
      BY <1>0, <1>1, <2>1, <2>2 DEF GrayOnStack, CycleTypeOK
    <3>3. \A i, j \in 1..Len(stack') : stack'[i].id = stack'[j].id => i = j
      <4> SUFFICES ASSUME NEW i \in 1..Len(stack'), NEW j \in 1..Len(stack'),
                          stack'[i].id = stack'[j].id
                   PROVE  i = j
        OBVIOUS
      <4>1. i + 1 = j + 1
        BY <1>1, <2>1 DEF GrayOnStack
      <4> QED
        BY <4>1
    <3>4. ASSUME NEW n \in Node, color'[n] = "gray"
          PROVE  \E i \in 1..Len(stack') : stack'[i].id = n
      <4>1. color[n] = "gray" /\ n # Top.id
        BY <1>0, <3>4 DEF CycleTypeOK
      <4>2. PICK i \in Frames : stack[i].id = n
        BY <1>1, <4>1 DEF GrayOnStack
      <4>3. i # 1
        BY <1>2, <4>1, <4>2
      <4>4. i - 1 \in 1..Len(stack') /\ (i - 1) + 1 = i
        BY <1>2, <2>1, <4>2, <4>3 DEF Frames
      <4> QED
        BY <2>1, <4>2, <4>4
    <3> QED
      BY <1>0, <2>1, <3>1, <3>2, <3>3, <3>4 DEF GrayOnStack, Frames
  <2>4. StackIsPath'
    <3>1. \A i \in 1..Len(stack') : stack'[i].id \in {start} \cup ReachedFrom(start)
      BY <1>1, <2>1 DEF StackIsPath
    <3>2. \A i, j \in 1..Len(stack') : i < j => stack'[i].id \in ReachedFrom(stack'[j].id)
      <4> SUFFICES ASSUME NEW i \in 1..Len(stack'), NEW j \in 1..Len(stack'), i < j
                   PROVE  stack'[i].id \in ReachedFrom(stack'[j].id)
        OBVIOUS
      <4>1. i + 1 < j + 1
        OBVIOUS
      <4> QED
        BY <1>1, <2>1, <4>1 DEF StackIsPath
    <3> QED
      BY <1>0, <1>4, <3>1, <3>2 DEF StackIsPath, Frames
  <2>5. LoopsDone'
    <3> SUFFICES ASSUME NEW i \in 1..Len(stack')
                 PROVE  /\ stack'[i].rest \subseteq edges[stack'[i].id]
                        /\ \A d \in edges[stack'[i].id] \ stack'[i].rest :
                             d \in Black' \/ (i > 1 /\ d = stack'[i - 1].id)
      BY <1>0 DEF LoopsDone, Frames
    <3>1. i + 1 \in Frames /\ stack'[i] = stack[i + 1]
      BY <2>1
    <3>2. /\ stack[i + 1].rest \subseteq edges[stack[i + 1].id]
          /\ \A d \in edges[stack[i + 1].id] \ stack[i + 1].rest :
               d \in Black \/ (i + 1 > 1 /\ d = stack[(i + 1) - 1].id)
      BY <1>1, <3>1 DEF LoopsDone
    <3>3. (i + 1) - 1 = i
      OBVIOUS
    <3>4. CASE i = 1
      BY <1>2, <1>6, <3>1, <3>2, <3>4
    <3>5. CASE i # 1
      <4>1. i > 1 /\ i - 1 \in 1..Len(stack') /\ (i - 1) + 1 = i
        BY <3>5, <2>1, <1>2
      <4>2. stack'[i - 1] = stack[i]
        BY <2>1, <4>1
      <4> QED
        BY <1>6, <3>1, <3>2, <3>3, <4>1, <4>2
    <3> QED
      BY <3>4, <3>5
  <2>6. verdict' = "searching"
    BY <1>0, <1>1, <1>9
  <2> QED
    BY <1>5, <1>7, <2>3, <2>4, <2>5, <2>6 DEF VerdictRight
<1> QED
  BY <1>8, <1>9

\* The frames after the innermost one has taken d out of its rest.
FramesAfter(d) == <<[Top EXCEPT !.rest = @ \ {d}]>> \o Tail(stack)

LEMMA LoopGoesOn ==
  ASSUME CycleTypeOK, stack # <<>>, NEW d,
         NEW frames, frames = FramesAfter(d)
  PROVE  /\ frames \in Seq(Frame) /\ Len(frames) = Len(stack)
         /\ \A i \in Frames : frames[i].id = stack[i].id
         /\ frames[1].rest = stack[1].rest \ {d}
         /\ \A i \in Frames : i > 1 => frames[i] = stack[i]
<1>1. /\ Len(stack) \in Nat /\ Len(stack) > 0
      /\ Top = stack[1] /\ Top \in Frame
      /\ Tail(stack) \in Seq(Frame) /\ Len(Tail(stack)) = Len(stack) - 1
      /\ \A i \in 1..Len(stack) - 1 : Tail(stack)[i] = stack[i + 1]
  BY TopFacts
<1> DEFINE f == [Top EXCEPT !.rest = @ \ {d}]
<1>2. f \in Frame /\ f.id = Top.id /\ f.rest = Top.rest \ {d}
  BY <1>1 DEF Frame
<1> HIDE DEF f
<1>3. /\ frames \in Seq(Frame) /\ Len(frames) = Len(Tail(stack)) + 1
      /\ frames[1] = f
      /\ \A i \in 1..Len(Tail(stack)) : frames[i + 1] = Tail(stack)[i]
  BY <1>1, <1>2, Push DEF f, FramesAfter
<1>4. ASSUME NEW i \in Frames, i > 1 PROVE frames[i] = stack[i]
  <2>1. i - 1 \in 1..Len(stack) - 1 /\ (i - 1) + 1 = i
    BY <1>1, <1>4 DEF Frames
  <2> QED
    BY <1>1, <1>3, <2>1
<1>5. ASSUME NEW i \in Frames PROVE frames[i].id = stack[i].id
  <2>1. i = 1 \/ i > 1
    BY DEF Frames
  <2> QED
    BY <1>1, <1>2, <1>3, <1>4, <2>1
<1>6. Len(frames) = Len(stack)
  BY <1>1, <1>3
<1>7. frames[1].rest = stack[1].rest \ {d}
  BY <1>1, <1>2, <1>3
<1> QED
  BY <1>3, <1>4, <1>5, <1>6, <1>7

\* A gray dependency: the search ends with the error.
LEMMA VisitGray ==
  ASSUME SearchInv, stack # <<>>, NEW d \in Node, d \in Top.rest, color[d] = "gray",
         verdict' = "ErrCyclicDependency", stack' = <<>>, UNCHANGED <<color, edges, start>>
  PROVE  SearchInv'
<1> USE DEF SearchInv
<1>1. GrayOnStack /\ StackIsPath /\ LoopsDone
  OBVIOUS
<1>2. d \in edges[Top.id]
  BY <1>1, TopFacts DEF LoopsDone
<1>3. Cyclic /\ (Cyclic' <=> Cyclic) /\ (Graph' <=> Graph)
  BY <1>1, <1>2, GrayIsCycle, SameGraph
<1>4. CycleTypeOK'
  BY <1>3 DEF CycleTypeOK
<1>5. VerdictRight'
  BY <1>3 DEF VerdictRight, Cyclic
<1> QED
  BY <1>4, <1>5

\* A black one: nothing but the loop goes on.
LEMMA VisitBlack ==
  ASSUME SearchInv, stack # <<>>, NEW d \in Node, d \in Top.rest, color[d] = "black",
         stack' = FramesAfter(d),
         UNCHANGED <<color, verdict, edges, start>>
  PROVE  SearchInv'
<1> USE DEF SearchInv
<1>1. verdict = "searching" /\ GrayOnStack /\ StackIsPath /\ LoopsDone /\ BlackDone
  OBVIOUS
<1>2. /\ stack' \in Seq(Frame) /\ Len(stack') = Len(stack)
      /\ \A i \in Frames : stack'[i].id = stack[i].id
      /\ stack'[1].rest = stack[1].rest \ {d}
      /\ \A i \in Frames : i > 1 => stack'[i] = stack[i]
  BY LoopGoesOn
<1>3. Frames' = Frames /\ Black' = Black /\ d \in Black
  BY <1>2 DEF Frames, Black
<1>4. /\ (Graph' <=> Graph)
      /\ \A n : ReachedFrom(n)' = ReachedFrom(n)
  BY SameGraph
<1>5. CycleTypeOK'
  BY <1>2, <1>4 DEF CycleTypeOK
<1>6. GrayOnStack'
  <2>1. Len(stack) \in Frames
    BY TopFacts
  <2>2. Len(stack') > 0 /\ stack'[Len(stack')].id = start
    BY <1>1, <1>2, <2>1 DEF GrayOnStack
  <2>3. /\ \A i \in Frames : color[stack'[i].id] = "gray"
        /\ \A i, j \in Frames : stack'[i].id = stack'[j].id => i = j
        /\ \A n \in Node : color[n] = "gray" => \E i \in Frames : stack'[i].id = n
    BY <1>1, <1>2 DEF GrayOnStack
  <2> QED
    BY <1>3, <2>2, <2>3 DEF GrayOnStack
<1>7. StackIsPath'
  BY <1>1, <1>2, <1>3, <1>4 DEF StackIsPath
<1>8. LoopsDone'
  <2> SUFFICES ASSUME NEW i \in Frames
               PROVE  /\ stack'[i].rest \subseteq edges[stack[i].id]
                      /\ \A e \in edges[stack[i].id] \ stack'[i].rest :
                           e \in Black \/ (i > 1 /\ e = stack'[i - 1].id)
    BY <1>2, <1>3 DEF LoopsDone
  <2>1. CASE i = 1
    <3>1. /\ stack[1].rest \subseteq edges[stack[1].id]
          /\ \A e \in edges[stack[1].id] \ stack[1].rest : e \in Black
      BY <1>1, <2>1 DEF LoopsDone
    <3> QED
      BY <1>2, <1>3, <2>1, <3>1
  <2>2. CASE i # 1
    <3>1. i > 1 /\ i - 1 \in Frames
      BY <2>2 DEF Frames, CycleTypeOK
    <3> QED
      BY <1>1, <1>2, <3>1 DEF LoopsDone
  <2> QED
    BY <2>1, <2>2
<1>9. BlackDone'
  BY <1>1, <1>3, <1>4 DEF BlackDone, Closed
<1> QED
  BY <1>1, <1>5, <1>6, <1>7, <1>8, <1>9 DEF VerdictRight

\* A white one: a frame of its own.
LEMMA VisitWhite ==
  ASSUME SearchInv, stack # <<>>, NEW d \in Node, d \in Top.rest, color[d] = "white",
         Enter(d, FramesAfter(d)),
         UNCHANGED <<verdict, edges, start>>
  PROVE  SearchInv'
<1> USE DEF SearchInv
<1>1. verdict = "searching" /\ GrayOnStack /\ StackIsPath /\ LoopsDone /\ BlackDone
  OBVIOUS
<1>2. /\ Len(stack) \in Nat /\ Len(stack) > 0 /\ 1 \in Frames /\ Len(stack) \in Frames
      /\ Top = stack[1] /\ Graph
  BY TopFacts DEF CycleTypeOK
<1> DEFINE frames == FramesAfter(d)
           f == [id |-> d, rest |-> edges[d]]
<1>3. /\ frames \in Seq(Frame) /\ Len(frames) = Len(stack)
      /\ \A i \in Frames : frames[i].id = stack[i].id
      /\ frames[1].rest = stack[1].rest \ {d}
      /\ \A i \in Frames : i > 1 => frames[i] = stack[i]
  BY LoopGoesOn
<1>4. f \in Frame /\ f.id = d /\ f.rest = edges[d]
  BY <1>2 DEF Frame, Graph
<1>5. color' = [color EXCEPT ![d] = "gray"] /\ stack' = <<f>> \o frames
  BY DEF Enter
<1> HIDE DEF frames, f
<1>6. /\ stack' \in Seq(Frame) /\ Len(stack') = Len(stack) + 1
      /\ stack'[1] = f
      /\ \A i \in Frames : stack'[i + 1] = frames[i]
  BY <1>3, <1>4, <1>5, Push DEF Frames
<1>7. ASSUME NEW i \in Frames', i # 1
      PROVE  /\ i > 1 /\ i - 1 \in Frames
             /\ stack'[i] = frames[i - 1] /\ stack'[i].id = stack[i - 1].id
  <2>1. i > 1 /\ i - 1 \in Frames /\ (i - 1) + 1 = i
    BY <1>2, <1>6, <1>7 DEF Frames
  <2> QED
    BY <1>3, <1>6, <2>1
<1>8. stack'[1].id = d /\ d # start /\ \A i \in Frames : stack[i].id # d
  BY <1>1, <1>2, <1>4, <1>6 DEF GrayOnStack
<1>9. /\ (Graph' <=> Graph)
      /\ \A n : ReachedFrom(n)' = ReachedFrom(n)
  BY SameGraph
<1>10. CycleTypeOK'
  BY <1>5, <1>6, <1>9 DEF CycleTypeOK
<1>11. Black' = Black
  BY <1>5 DEF Black, CycleTypeOK
<1>12. BlackDone'
  BY <1>1, <1>9, <1>11 DEF BlackDone, Closed
<1>13. 1 \in Frames' /\ Len(stack') \in Frames' /\ Len(stack') - 1 = Len(stack)
  BY <1>2, <1>6 DEF Frames
<1>14. GrayOnStack'
  <2>1. stack'[Len(stack')].id = start
    BY <1>1, <1>2, <1>7, <1>13 DEF GrayOnStack
  <2>2. ASSUME NEW i \in Frames' PROVE color'[stack'[i].id] = "gray"
    <3>1. CASE i = 1
      BY <1>5, <1>8, <3>1 DEF CycleTypeOK
    <3>2. CASE i # 1
      <4>1. i - 1 \in Frames /\ stack'[i].id = stack[i - 1].id
        BY <1>7, <3>2
      <4>2. color[stack[i - 1].id] = "gray" /\ stack[i - 1].id # d
        BY <1>1, <1>8, <4>1 DEF GrayOnStack
      <4>3. stack[i - 1].id \in Node
        <5>1. stack[i - 1] \in Frame
          BY <4>1 DEF CycleTypeOK, Frames
        <5> QED
          BY <5>1 DEF Frame
      <4> QED
        BY <1>5, <4>1, <4>2, <4>3 DEF CycleTypeOK
    <3> QED
      BY <3>1, <3>2
  <2>3. ASSUME NEW i \in Frames', NEW j \in Frames', stack'[i].id = stack'[j].id
        PROVE  i = j
    <3>1. CASE i = 1 \/ j = 1
      BY <1>7, <1>8, <2>3, <3>1
    <3>2. CASE i # 1 /\ j # 1
      <4>1. i - 1 = j - 1
        BY <1>1, <1>7, <2>3, <3>2 DEF GrayOnStack
      <4>2. i \in Int /\ j \in Int
        BY DEF Frames
      <4> QED
        BY <4>1, <4>2
    <3> QED
      BY <3>1, <3>2
  <2>4. ASSUME NEW n \in Node, color'[n] = "gray" PROVE \E i \in Frames' : stack'[i].id = n
    <3>1. CASE n = d
      BY <1>8, <1>13, <3>1
    <3>2. CASE n # d
      <4>1. PICK i \in Frames : stack[i].id = n
        BY <1>1, <1>5, <2>4, <3>2 DEF GrayOnStack, CycleTypeOK
      <4>2. i + 1 \in Frames' /\ stack'[i + 1].id = n
        BY <1>2, <1>3, <1>6, <4>1 DEF Frames
      <4> QED
        BY <4>2
    <3> QED
      BY <3>1, <3>2
  <2>5. Len(stack') > 0
    BY <1>2, <1>6
  <2> QED
    BY <2>1, <2>2, <2>3, <2>4, <2>5 DEF GrayOnStack
<1>15. d \in edges[Top.id] /\ Top.id \in Node
  BY <1>1, <1>2, TopFacts DEF LoopsDone, Frame
<1>16. StackIsPath'
  <2>1. ASSUME NEW k \in Node, Top.id = k \/ Top.id \in ReachedFrom(k)
        PROVE  d \in ReachedFrom(k)
    BY <1>2, <1>15, <2>1, ReachedEdge, ReachedClosed
  <2>2. ASSUME NEW i \in Frames' PROVE stack'[i].id \in {start} \cup ReachedFrom(start)
    <3>1. CASE i = 1
      <4>1. Top.id = start \/ Top.id \in ReachedFrom(start)
        BY <1>1, <1>2 DEF StackIsPath
      <4> QED
        BY <1>8, <2>1, <3>1, <4>1 DEF CycleTypeOK
    <3>2. CASE i # 1
      BY <1>1, <1>7, <3>2 DEF StackIsPath
    <3> QED
      BY <3>1, <3>2
  <2>3. ASSUME NEW i \in Frames', NEW j \in Frames', i < j
        PROVE  stack'[i].id \in ReachedFrom(stack'[j].id)
    <3>1. j # 1
      BY <2>3 DEF Frames
    <3>2. j - 1 \in Frames /\ stack'[j].id = stack[j - 1].id
      BY <1>7, <3>1
    <3>3. stack[j - 1].id \in Node
      <4>1. stack[j - 1] \in Frame
        BY <3>2 DEF CycleTypeOK, Frames
      <4> QED
        BY <4>1 DEF Frame
    <3>4. CASE i = 1
      <4>1. j - 1 = 1 \/ 1 < j - 1
        BY <3>2 DEF Frames
      <4>2. Top.id = stack[j - 1].id \/ Top.id \in ReachedFrom(stack[j - 1].id)
        BY <1>1, <1>2, <3>2, <4>1 DEF StackIsPath
      <4> QED
        BY <1>8, <2>1, <3>2, <3>3, <3>4, <4>2
    <3>5. CASE i # 1
      <4>1. i - 1 \in Frames /\ stack'[i].id = stack[i - 1].id
        BY <1>7, <3>5
      <4>2. i - 1 < j - 1
        BY <2>3 DEF Frames
      <4> QED
        BY <1>1, <3>2, <4>1, <4>2 DEF StackIsPath
    <3> QED
      BY <3>4, <3>5
  <2> QED
    BY <1>9, <2>2, <2>3 DEF StackIsPath
<1>17. LoopsDone'
  <2> SUFFICES ASSUME NEW i \in Frames'
               PROVE  /\ stack'[i].rest \subseteq edges[stack'[i].id]
                      /\ \A e \in edges[stack'[i].id] \ stack'[i].rest :
                           e \in Black \/ (i > 1 /\ e = stack'[i - 1].id)
    BY <1>11 DEF LoopsDone
  <2>1. CASE i = 1
    BY <1>4, <1>6, <2>1
  <2>2. CASE i = 2
    <3>1. /\ i - 1 = 1 /\ i > 1 /\ stack'[i - 1].id = d
          /\ stack'[i].id = stack[1].id /\ stack'[i].rest = stack[1].rest \ {d}
      BY <1>3, <1>7, <1>8, <2>2
    <3>2. /\ stack[1].rest \subseteq edges[stack[1].id]
          /\ \A e \in edges[stack[1].id] \ stack[1].rest : e \in Black
      BY <1>1, <1>2 DEF LoopsDone
    <3> QED
      BY <3>1, <3>2
  <2>3. CASE i # 1 /\ i # 2
    <3>1. i > 2 /\ i - 1 \in Frames /\ i - 1 \in Frames' /\ i - 1 # 1 /\ i - 1 > 1
      BY <1>2, <1>6, <2>3 DEF Frames
    <3>2. stack'[i] = stack[i - 1]
      BY <1>3, <1>7, <2>3, <3>1
    <3>3. stack'[i - 1].id = stack[(i - 1) - 1].id
      BY <1>7, <3>1
    <3>4. /\ stack[i - 1].rest \subseteq edges[stack[i - 1].id]
          /\ \A e \in edges[stack[i - 1].id] \ stack[i - 1].rest :
               e \in Black \/ e = stack[(i - 1) - 1].id
      BY <1>1, <3>1 DEF LoopsDone
    <3>5. i > 1
      BY <3>1 DEF Frames
    <3> QED
      BY <3>2, <3>3, <3>4, <3>5
  <2> QED
    BY <2>1, <2>2, <2>3
<1> QED
  BY <1>1, <1>10, <1>12, <1>14, <1>16, <1>17 DEF VerdictRight

LEMMA SearchInvInit == CycleInit => SearchInv
<1> SUFFICES ASSUME CycleInit PROVE SearchInv
  OBVIOUS
<1> USE DEF CycleInit
<1> DEFINE f == [id |-> start, rest |-> edges[start]]
<1>1. f \in Frame /\ f.id = start /\ f.rest = edges[start]
  BY DEF Frame
<1>2. stack = <<f>>
  OBVIOUS
<1> HIDE DEF f
<1>3. stack \in Seq(Frame) /\ Len(stack) = 1 /\ stack[1] = f
  BY <1>1, <1>2
<1>4. Frames = {1}
  BY <1>3 DEF Frames
<1>5. CycleTypeOK
  BY <1>3 DEF CycleTypeOK, Graph
<1>6. GrayOnStack /\ StackIsPath
  BY <1>1, <1>3, <1>4 DEF GrayOnStack, StackIsPath
<1>7. Black = {}
  BY DEF Black
<1>8. LoopsDone /\ BlackDone
  BY <1>1, <1>3, <1>4, <1>7 DEF LoopsDone, BlackDone, Closed
<1> QED
  BY <1>5, <1>6, <1>8 DEF SearchInv, VerdictRight

LEMMA SearchInvNext == SearchInv /\ [CycleNext]_cycleVars => SearchInv'
<1>1. ASSUME SearchInv, NEW d \in Node, Visit(d) PROVE SearchInv'
  BY <1>1, VisitGray, VisitBlack, VisitWhite DEF Visit, FramesAfter
<1>2. ASSUME SearchInv, UNCHANGED cycleVars PROVE SearchInv'
  <2>1. UNCHANGED <<edges, start, color, stack, verdict>>
    BY <1>2 DEF cycleVars
  <2>2. /\ (Cyclic' <=> Cyclic) /\ (Graph' <=> Graph)
        /\ \A n : ReachedFrom(n)' = ReachedFrom(n)
    BY <2>1, SameGraph
  <2>3. Frames' = Frames /\ Black' = Black
    BY <2>1 DEF Frames, Black
  <2>4. CycleTypeOK'
    BY <1>2, <2>1, <2>2 DEF SearchInv, CycleTypeOK
  <2>5. verdict = "searching" => GrayOnStack' /\ StackIsPath' /\ LoopsDone' /\ BlackDone'
    BY <1>2, <2>1, <2>2, <2>3
       DEF SearchInv, GrayOnStack, StackIsPath, LoopsDone, BlackDone, Closed
  <2>6. VerdictRight'
    BY <1>2, <2>1, <2>2 DEF SearchInv, VerdictRight, Cyclic
  <2> QED
    BY <1>2, <2>1, <2>4, <2>5, <2>6 DEF SearchInv
<1> QED
  BY <1>1, <1>2, LeaveKeeps DEF CycleNext

(***************************************************************************)
(* CheckCycle reports ErrCyclicDependency exactly when the graph reachable *)
(* from startID has a cycle (dag.go:5-6), for every graph: the gray nodes  *)
(* are the path to the current one, so meeting one closes a cycle, and     *)
(* from a black node only black nodes are reached, so none is missed.      *)
(***************************************************************************)
THEOREM CycleVerdictRight == CycleSpec => []VerdictRight
<1>1. SearchInv => VerdictRight
  BY DEF SearchInv
<1> QED
  BY <1>1, SearchInvInit, SearchInvNext, PTL DEF CycleSpec
=============================================================================
