---------------------------- MODULE ListingProofs ----------------------------
(***************************************************************************)
(* Theorems about ListTasks against tasks that are created and change      *)
(* meanwhile, for every number of tasks, every page size, every filter and *)
(* every limit of the OFFSET.                                              *)
(***************************************************************************)
EXTENDS Listing, FiniteSetTheorems, SequenceTheorems, TLAPS

-----------------------------------------------------------------------------
(* Rows and their order. *)

\* The list holds the existing tasks, each once.
OrderOK ==
  /\ tasks \in [TaskID -> Row]
  /\ order \in Seq(TaskID)
  /\ \A i, j \in DOMAIN order : order[i] = order[j] => i = j
  /\ \A t \in TaskID : Exists(t) <=> \E i \in DOMAIN order : order[i] = t

\* The rows before t, and t.
UpTo(req, t) == {u \in Matching(req) : NotOlder(u, t)}

LEMMA UpToFinite ==
  ASSUME NEW req, NEW t
  PROVE  /\ IsFiniteSet(Matching(req)) /\ IsFiniteSet(UpTo(req, t))
         /\ UpTo(req, t) \subseteq Matching(req) /\ Matching(req) \subseteq TaskID
         /\ Place(req, t) = Cardinality(UpTo(req, t)) /\ Place(req, t) \in Nat
         /\ Cardinality(Matching(req)) \in Nat
         /\ Place(req, t) <= Cardinality(Matching(req))
<1>1. Matching(req) \subseteq TaskID /\ UpTo(req, t) \subseteq Matching(req)
  BY DEF Matching, UpTo
<1>2. IsFiniteSet(Matching(req))
  BY <1>1, RepoAssumption, FS_Subset
<1>3. IsFiniteSet(UpTo(req, t)) /\ Cardinality(UpTo(req, t)) <= Cardinality(Matching(req))
  BY <1>1, <1>2, FS_Subset
<1>4. Place(req, t) = Cardinality(UpTo(req, t))
  BY DEF Place, UpTo
<1> QED
  BY <1>1, <1>2, <1>3, <1>4, FS_CardinalityType

LEMMA InOrder ==
  ASSUME OrderOK, NEW req, NEW t \in Matching(req)
  PROVE  \E i \in DOMAIN order : order[i] = t
BY DEF OrderOK, Matching

LEMMA PlacePositive ==
  ASSUME OrderOK, NEW req, NEW t \in Matching(req)
  PROVE  Place(req, t) >= 1
<1>1. PICK i \in DOMAIN order : order[i] = t
  BY InOrder
<1>2. i <= i
  BY DEF OrderOK
<1>3. t \in UpTo(req, t)
  BY <1>1, <1>2 DEF UpTo, NotOlder
<1>4. /\ IsFiniteSet(UpTo(req, t))
      /\ Place(req, t) = Cardinality(UpTo(req, t)) /\ Place(req, t) \in Nat
  BY UpToFinite
<1>5. Cardinality(UpTo(req, t)) # 0
  BY <1>3, <1>4, FS_EmptySet
<1> QED
  BY <1>4, <1>5

\* Two rows have different places.
LEMMA PlaceDiffers ==
  ASSUME OrderOK, NEW req, NEW t \in Matching(req), NEW u \in Matching(req),
         Place(req, t) = Place(req, u)
  PROVE  t = u
<1>1. ASSUME NEW a \in Matching(req), NEW b \in Matching(req),
             NEW i \in DOMAIN order, NEW j \in DOMAIN order,
             order[i] = a, order[j] = b, i <= j, Place(req, a) = Place(req, b)
      PROVE  a = b
  <2>0. DOMAIN order \subseteq Nat
    BY DEF OrderOK
  <2>1. UpTo(req, a) \subseteq UpTo(req, b)
    <3> SUFFICES ASSUME NEW v \in Matching(req), NotOlder(v, a) PROVE NotOlder(v, b)
      BY DEF UpTo
    <3>1. PICK k, l \in DOMAIN order : k <= l /\ order[k] = v /\ order[l] = a
      BY DEF NotOlder
    <3>2. l = i
      BY <1>1, <3>1 DEF OrderOK
    <3>3. k <= j
      BY <1>1, <2>0, <3>1, <3>2
    <3> QED
      BY <1>1, <3>1, <3>3 DEF NotOlder
  <2>2. IsFiniteSet(UpTo(req, b)) /\ Cardinality(UpTo(req, a)) = Cardinality(UpTo(req, b))
    BY <1>1, UpToFinite
  <2>3. UpTo(req, a) = UpTo(req, b)
    BY <2>1, <2>2, FS_Subset
  <2>4. b \in UpTo(req, a)
    BY <1>1, <2>0, <2>3 DEF UpTo, NotOlder
  <2>5. PICK k, l \in DOMAIN order : k <= l /\ order[k] = b /\ order[l] = a
    BY <2>4 DEF UpTo, NotOlder
  <2>6. k = j /\ l = i
    BY <1>1, <2>5 DEF OrderOK
  <2>7. i = j
    BY <1>1, <2>0, <2>5, <2>6
  <2> QED
    BY <1>1, <2>7
<1>2. PICK i, j \in DOMAIN order : order[i] = t /\ order[j] = u
  BY InOrder
<1>3. i <= j \/ j <= i
  BY DEF OrderOK
<1> QED
  BY <1>1, <1>2, <1>3

\* The places are 1, 2, ... without a gap.
LEMMA NoGap ==
  ASSUME OrderOK, NEW req, NEW t \in Matching(req), NEW k \in Nat, k < Place(req, t)
  PROVE  \E u \in Matching(req) : Place(req, u) = k + 1
<1> DEFINE n == Cardinality(Matching(req))
           f == [u \in Matching(req) |-> Place(req, u)]
<1>1. n \in Nat /\ Place(req, t) \in Nat /\ Place(req, t) <= n /\ IsFiniteSet(Matching(req))
  BY UpToFinite
<1>2. \A u \in Matching(req) : Place(req, u) \in 1..n
  BY PlacePositive, UpToFinite
<1>3. f \in Injection(Matching(req), 1..n)
  <2>1. f \in [Matching(req) -> 1..n]
    BY <1>2
  <2>2. IsInjective(f)
    BY PlaceDiffers DEF IsInjective
  <2> QED
    BY <2>1, <2>2 DEF Injection
<1> HIDE DEF n
<1>4. IsFiniteSet(1..n) /\ Cardinality(1..n) = n
  BY <1>1, FS_Interval
<1>5. f \in Surjection(Matching(req), 1..n)
  <2> HIDE DEF f
  <2> QED
    BY <1>3, <1>4, FS_Injection DEF n
<1>6. k + 1 \in 1..n
  BY <1>1
<1>7. PICK u \in Matching(req) : f[u] = k + 1
  BY <1>5, <1>6 DEF Surjection
<1> QED
  BY <1>7

\* Only status and type of a request select its rows.
LEMMA SameFilter ==
  ASSUME NEW r, NEW q, r.status = q.status, r.type = q.type
  PROVE  /\ Matching(r) = Matching(q)
         /\ \A t : Place(r, t) = Place(q, t)
<1>1. Matching(r) = Matching(q)
  BY DEF Matching, Where
<1> QED
  BY <1>1 DEF Place

\* Rows that come in, anywhere, move the others only towards the end.
LEMMA PlacesGrow ==
  ASSUME NEW req, NEW t, Matching(req) \subseteq Matching(req)',
         \A u : NotOlder(u, t) => NotOlder(u, t)'
  PROVE  Place(req, t)' \in Nat /\ Place(req, t) <= Place(req, t)'
<1>1. /\ IsFiniteSet(UpTo(req, t)) /\ UpTo(req, t) \subseteq Matching(req)
      /\ Place(req, t) = Cardinality(UpTo(req, t))
  BY UpToFinite
<1>2. PICK S : S = {u \in Matching(req)' : NotOlder(u, t)'}
  OBVIOUS
<1>3. S \subseteq TaskID /\ UpTo(req, t) \subseteq S
  BY <1>2 DEF UpTo, Matching
<1>4. IsFiniteSet(S)
  BY <1>3, RepoAssumption, FS_Subset
<1>5. Cardinality(UpTo(req, t)) <= Cardinality(S) /\ Cardinality(S) \in Nat
  BY <1>3, <1>4, FS_Subset, FS_CardinalityType
<1>6. Place(req, t)' = Cardinality(S)
  BY <1>2 DEF Place
<1> QED
  BY <1>1, <1>5, <1>6

-----------------------------------------------------------------------------
(* What creating and changing a task does to the list. *)

LEMMA InsertOrder ==
  ASSUME NEW T, NEW s \in Seq(T), NEW t \in T, NEW i \in 1..Len(s) + 1
  PROVE  /\ InsertAt(s, i, t) \in Seq(T)
         /\ Len(InsertAt(s, i, t)) = Len(s) + 1
         /\ InsertAt(s, i, t)[i] = t
         /\ \A k \in 1..Len(s) :
              InsertAt(s, i, t)[IF k < i THEN k ELSE k + 1] = s[k]
<1>0. Len(s) \in Nat /\ i \in Nat /\ \A k \in 1..Len(s) : s[k] \in T
  OBVIOUS
<1> DEFINE a == SubSeq(s, 1, i - 1)
           b == SubSeq(s, i, Len(s))
<1>1. /\ a \in Seq(T) /\ Len(a) = i - 1
      /\ \A k \in 1..i - 1 : a[k] = s[k]
  <2>1. \A k \in 1..i - 1 : s[k] \in T
    BY <1>0
  <2>2. /\ a \in Seq(T) /\ Len(a) = IF 1 <= i - 1 THEN (i - 1) - 1 + 1 ELSE 0
        /\ \A k \in 1..(i - 1) - 1 + 1 : a[k] = s[1 + k - 1]
    BY <1>0, <2>1, SubSeqProperties
  <2>3. \A k \in 1..i - 1 : k \in 1..(i - 1) - 1 + 1 /\ 1 + k - 1 = k
    BY <1>0
  <2>4. Len(a) = i - 1
    BY <1>0, <2>2
  <2> QED
    BY <2>2, <2>3, <2>4
<1>2. /\ b \in Seq(T) /\ Len(b) = Len(s) - i + 1
      /\ \A k \in i..Len(s) : b[k - i + 1] = s[k]
  <2>1. \A k \in i..Len(s) : s[k] \in T
    BY <1>0
  <2>2. /\ b \in Seq(T) /\ Len(b) = IF i <= Len(s) THEN Len(s) - i + 1 ELSE 0
        /\ \A k \in 1..Len(s) - i + 1 : b[k] = s[i + k - 1]
    BY <1>0, <2>1, SubSeqProperties
  <2>3. \A k \in i..Len(s) : k - i + 1 \in 1..Len(s) - i + 1 /\ i + (k - i + 1) - 1 = k
    BY <1>0
  <2>4. Len(b) = Len(s) - i + 1
    BY <1>0, <2>2
  <2> QED
    BY <2>2, <2>3, <2>4
<1>3. InsertAt(s, i, t) = (a \o <<t>>) \o b
  BY DEF InsertAt
<1> HIDE DEF a, b
<1> DEFINE c == a \o <<t>>
<1>4. <<t>> \in Seq(T) /\ Len(<<t>>) = 1 /\ <<t>>[1] = t
  OBVIOUS
<1>5. /\ c \in Seq(T) /\ Len(c) = i
      /\ \A k \in 1..i - 1 : c[k] = s[k]
      /\ c[i] = t
  <2>1. /\ c \in Seq(T) /\ Len(c) = Len(a) + Len(<<t>>)
        /\ \A k \in 1..Len(a) + Len(<<t>>) :
             c[k] = IF k <= Len(a) THEN a[k] ELSE <<t>>[k - Len(a)]
    BY <1>1, <1>4, ConcatProperties
  <2>2. Len(c) = i
    BY <1>0, <1>1, <1>4, <2>1
  <2>3. ASSUME NEW k \in 1..i - 1 PROVE c[k] = s[k]
    <3>1. k \in 1..Len(a) + Len(<<t>>) /\ k <= Len(a)
      BY <1>0, <1>1, <1>4
    <3> QED
      BY <1>1, <2>1, <3>1
  <2>4. i \in 1..Len(a) + Len(<<t>>) /\ ~(i <= Len(a)) /\ i - Len(a) = 1
    BY <1>0, <1>1, <1>4
  <2>5. c[i] = t
    BY <1>4, <2>1, <2>4
  <2> QED
    BY <2>1, <2>2, <2>3, <2>5
<1> HIDE DEF c
<1> DEFINE d == c \o b
<1>6. /\ d \in Seq(T) /\ Len(d) = Len(c) + Len(b)
      /\ \A k \in 1..Len(c) + Len(b) : d[k] = IF k <= Len(c) THEN c[k] ELSE b[k - Len(c)]
  BY <1>2, <1>5, ConcatProperties
<1>7. d = InsertAt(s, i, t)
  BY <1>3 DEF c
<1> HIDE DEF d
<1>8. Len(d) = Len(s) + 1
  BY <1>0, <1>2, <1>5, <1>6
<1>9. d[i] = t
  <2>1. i \in 1..Len(c) + Len(b) /\ i <= Len(c)
    BY <1>0, <1>2, <1>5
  <2> QED
    BY <1>5, <1>6, <2>1
<1>10. ASSUME NEW k \in 1..Len(s) PROVE d[IF k < i THEN k ELSE k + 1] = s[k]
  <2>1. CASE k < i
    <3>1. k \in 1..Len(c) + Len(b) /\ k <= Len(c) /\ k \in 1..i - 1
      BY <1>0, <1>2, <1>5, <2>1
    <3> QED
      BY <1>5, <1>6, <2>1, <3>1
  <2>2. CASE ~(k < i)
    <3>1. /\ k + 1 \in 1..Len(c) + Len(b) /\ ~(k + 1 <= Len(c))
          /\ (k + 1) - Len(c) = k - i + 1 /\ k \in i..Len(s)
      BY <1>0, <1>2, <1>5, <2>2
    <3> QED
      BY <1>2, <1>6, <2>2, <3>1
  <2> QED
    BY <2>1, <2>2
<1> QED
  BY <1>6, <1>7, <1>8, <1>9, <1>10

LEMMA InsertStep ==
  ASSUME OrderOK, NEW t \in TaskID, NEW cmd \in NewTasks, NEW i \in 1..Len(order) + 1,
         Insert(t, cmd, i)
  PROVE  /\ OrderOK'
         /\ \A req : Matching(req) \subseteq Matching(req)'
         /\ \A u, v : NotOlder(u, v) => NotOlder(u, v)'
<1>1. /\ tasks[t].status = "absent" /\ order' = InsertAt(order, i, t)
      /\ tasks' = [tasks EXCEPT ![t] =
                     [status |-> "pending", type |-> cmd.type,
                      priority |-> cmd.priority, retry_limit |-> cmd.retry_limit,
                      attempt_count |-> 0, wait |-> cmd.wait, age |-> 0,
                      worker_id |-> NoWorker, key |-> cmd.key]]
  BY DEF Insert, Create, Creatable
<1>2. [status |-> "pending", type |-> cmd.type,
       priority |-> cmd.priority, retry_limit |-> cmd.retry_limit,
       attempt_count |-> 0, wait |-> cmd.wait, age |-> 0,
       worker_id |-> NoWorker, key |-> cmd.key] \in Row
  BY ListingAssumption DEF Row, Status
<1>3. /\ tasks' \in [TaskID -> Row]
      /\ tasks'[t].status = "pending"
      /\ \A u \in TaskID : u # t => tasks'[u] = tasks[u]
  BY <1>1, <1>2 DEF OrderOK
<1>4. ~Exists(t) /\ Exists(t)' /\ \A u \in TaskID : u # t => (Exists(u)' <=> Exists(u))
  BY <1>1, <1>3 DEF Exists, Status
<1>5. /\ order \in Seq(TaskID) /\ DOMAIN order = 1..Len(order) /\ Len(order) \in Nat
      /\ order' \in Seq(TaskID) /\ Len(order') = Len(order) + 1
      /\ DOMAIN order' = 1..Len(order')
      /\ order'[i] = t
      /\ \A k \in 1..Len(order) : order'[IF k < i THEN k ELSE k + 1] = order[k]
  BY <1>1, InsertOrder DEF OrderOK
<1> DEFINE Shift(k) == IF k < i THEN k ELSE k + 1
<1>6. ASSUME NEW k \in DOMAIN order
      PROVE  Shift(k) \in DOMAIN order' /\ order'[Shift(k)] = order[k]
  BY <1>5
<1>7. ASSUME NEW k \in DOMAIN order, NEW l \in DOMAIN order, k <= l
      PROVE  Shift(k) <= Shift(l)
  BY <1>5, <1>7
<1>8. ASSUME NEW m \in DOMAIN order', m # i
      PROVE  \E k \in DOMAIN order : m = Shift(k) /\ order'[m] = order[k]
  <2>1. CASE m < i
    <3>1. m \in DOMAIN order /\ m = Shift(m)
      BY <1>5, <2>1
    <3> QED
      BY <1>6, <3>1
  <2>2. CASE m > i
    <3>1. m - 1 \in DOMAIN order /\ m = Shift(m - 1)
      BY <1>5, <2>2
    <3> QED
      BY <1>6, <3>1
  <2> QED
    BY <1>5, <1>8, <2>1, <2>2
<1> HIDE DEF Shift
<1>9. ASSUME NEW k \in DOMAIN order PROVE order[k] # t
  BY <1>4 DEF OrderOK
<1>10. ASSUME NEW m \in DOMAIN order', NEW n \in DOMAIN order', order'[m] = order'[n]
       PROVE  m = n
  <2>1. CASE m = i \/ n = i
    BY <1>5, <1>8, <1>9, <1>10, <2>1
  <2>2. CASE m # i /\ n # i
    <3>1. PICK k \in DOMAIN order : m = Shift(k) /\ order'[m] = order[k]
      BY <1>8, <2>2
    <3>2. PICK l \in DOMAIN order : n = Shift(l) /\ order'[n] = order[l]
      BY <1>8, <2>2
    <3>3. k = l
      BY <1>10, <3>1, <3>2 DEF OrderOK
    <3> QED
      BY <3>1, <3>2, <3>3
  <2> QED
    BY <2>1, <2>2
<1>11. ASSUME NEW u \in TaskID
       PROVE  Exists(u)' <=> \E m \in DOMAIN order' : order'[m] = u
  <2>1. CASE u = t
    <3>1. i \in DOMAIN order'
      BY <1>5
    <3> QED
      BY <1>4, <1>5, <2>1, <3>1
  <2>2. CASE u # t
    <3>1. Exists(u)' <=> \E k \in DOMAIN order : order[k] = u
      BY <1>4, <2>2 DEF OrderOK
    <3>2. ASSUME NEW k \in DOMAIN order, order[k] = u
          PROVE  \E m \in DOMAIN order' : order'[m] = u
      BY <1>6, <3>2
    <3>3. ASSUME NEW m \in DOMAIN order', order'[m] = u
          PROVE  \E k \in DOMAIN order : order[k] = u
      BY <1>5, <1>8, <2>2, <3>3
    <3> QED
      BY <3>1, <3>2, <3>3
  <2> QED
    BY <2>1, <2>2
<1>12. OrderOK'
  BY <1>3, <1>5, <1>10, <1>11 DEF OrderOK
<1>13. ASSUME NEW req PROVE Matching(req) \subseteq Matching(req)'
  <2> SUFFICES ASSUME NEW u \in TaskID, Exists(u), Where(req, tasks[u])
               PROVE  Exists(u)' /\ Where(req, tasks'[u])
    BY DEF Matching
  <2>1. u # t
    BY <1>4
  <2> QED
    BY <1>3, <1>4, <2>1
<1>14. ASSUME NEW u, NEW v, NotOlder(u, v) PROVE NotOlder(u, v)'
  <2>1. PICK k, l \in DOMAIN order : k <= l /\ order[k] = u /\ order[l] = v
    BY <1>14 DEF NotOlder
  <2>2. Shift(k) \in DOMAIN order' /\ Shift(l) \in DOMAIN order' /\ Shift(k) <= Shift(l)
        /\ order'[Shift(k)] = u /\ order'[Shift(l)] = v
    BY <1>6, <1>7, <2>1
  <2> QED
    BY <2>2 DEF NotOlder
<1> QED
  BY <1>12, <1>13, <1>14

LEMMA ChangeStep ==
  ASSUME OrderOK, NEW t \in TaskID, NEW next, Change(t, next), ~shrunk'
  PROVE  ~shrunk /\ Matching(request) \subseteq Matching(request)'
<1>1. /\ tasks' = [tasks EXCEPT ![t] = [tasks[t] EXCEPT !.status = next, !.age = 0]]
      /\ CanTransition(tasks[t].status, next)
      /\ ~shrunk /\ (Where(request, tasks[t]) => Where(request, tasks'[t]))
      /\ request' = request
  BY DEF Change, UpdateTask
<1>2. [tasks[t] EXCEPT !.status = next, !.age = 0].status = next
  BY DEF OrderOK, Row
<1>3. next \in Status
  BY <1>1 DEF CanTransition, allowedTransitions, Status
<1>4. Exists(t)' /\ \A u \in TaskID : u # t => tasks'[u] = tasks[u]
  BY <1>1, <1>2, <1>3 DEF Exists, OrderOK
<1> SUFFICES ASSUME NEW u \in TaskID, Exists(u), Where(request, tasks[u])
             PROVE  Exists(u)' /\ Where(request', tasks'[u])
  BY <1>1 DEF Matching
<1>5. CASE u = t
  BY <1>1, <1>4, <1>5
<1>6. CASE u # t
  BY <1>1, <1>4, <1>6 DEF Exists
<1> QED
  BY <1>5, <1>6

LEMMA ChangeOrder ==
  ASSUME OrderOK, NEW t \in TaskID, NEW next, Change(t, next)
  PROVE  OrderOK'
<1>1. /\ tasks' = [tasks EXCEPT ![t] = [tasks[t] EXCEPT !.status = next, !.age = 0]]
      /\ CanTransition(tasks[t].status, next) /\ order' = order
  BY DEF Change, UpdateTask
<1>2. next \in Status /\ tasks[t].status \in Status
  BY <1>1 DEF CanTransition, allowedTransitions, Status
<1>3. /\ [tasks[t] EXCEPT !.status = next, !.age = 0].status = next
      /\ [tasks[t] EXCEPT !.status = next, !.age = 0] \in Row
  <2>1. tasks[t] \in Row
    BY DEF OrderOK
  <2> QED
    BY <1>2, <2>1 DEF Row
<1>4. tasks' \in [TaskID -> Row]
  BY <1>1, <1>3 DEF OrderOK
<1>5. \A u \in TaskID : Exists(u)' <=> Exists(u)
  <2>1. tasks'[t].status = next /\ \A u \in TaskID : u # t => tasks'[u] = tasks[u]
    BY <1>1, <1>3 DEF OrderOK
  <2> QED
    BY <1>2, <2>1 DEF Exists
<1> QED
  BY <1>1, <1>4, <1>5 DEF OrderOK

-----------------------------------------------------------------------------
(* The walk. *)

Walking == {"count", "select"}

ListRequest ==
  [status : Nat, type : TaskType \cup {AnyType}, page : Int, size : Int, first : Int]

\* The rows before the page of req, without the conversion to an int32.
Skipped(req) == (Page(req) - 1) * PageSize(req)

WalkTypeOK ==
  /\ at \in {"idle", "count", "select", "done", "error"}
  /\ request \in ListRequest /\ request.size < OffsetLimit
  /\ total \in Nat
  /\ seen \subseteq TaskID /\ wanted \subseteq TaskID
  /\ shrunk \in BOOLEAN
  /\ at = "idle" => seen = {}

\* What the client has seen matches its filter still.
SeenMatch == ~shrunk => seen \subseteq Matching(request)

\* The total of the current or last call covers what was seen before its page.
TotalCounted == at \in {"select", "done"} /\ ~shrunk => Cardinality(seen) <= total

\* A walk from the first page gets an error before its offset wraps around.
NoWrap ==
  at \in Walking /\ request.first <= 1 =>
    Skipped(request) >= 0 /\ Skipped(request) < 2 * OffsetLimit

\* What the client wants and has not seen is on this page or a later one.
StillAhead ==
  at \in Walking /\ request.first <= 1 /\ ~shrunk =>
    \A t \in wanted \ seen : t \in Matching(request) /\ Place(request, t) > Skipped(request)

ListingInv ==
  /\ OrderOK /\ WalkTypeOK /\ SeenMatch /\ TotalCounted /\ NoWrap /\ StillAhead
  /\ PagingMissesNothing

LEMMA PageFacts ==
  ASSUME NEW req \in ListRequest, req.size < OffsetLimit
  PROVE  /\ PageSize(req) \in Nat /\ PageSize(req) > 0 /\ PageSize(req) < OffsetLimit
         /\ Page(req) \in Nat /\ Page(req) >= 1
         /\ OffsetLimit \in Nat /\ OffsetLimit > 0
         /\ Skipped(req) \in Nat
<1>1. req.page \in Int /\ req.size \in Int
  BY DEF ListRequest
<1>2. /\ PageSize(req) \in Nat /\ PageSize(req) > 0 /\ PageSize(req) < OffsetLimit
      /\ Page(req) \in Nat /\ Page(req) >= 1
      /\ OffsetLimit \in Nat /\ OffsetLimit > 0
  BY <1>1, ListingAssumption DEF PageSize, Page
<1>3. \A a, b \in Nat : a * b \in Nat
  OBVIOUS
<1>4. Page(req) - 1 \in Nat
  BY <1>2
<1> QED
  BY <1>2, <1>3, <1>4 DEF Skipped

\* An offset that is not refused is the number of rows before the page.
LEMMA OffsetExact ==
  ASSUME NEW req \in ListRequest, req.size < OffsetLimit,
         Skipped(req) < 2 * OffsetLimit, Offset(req) >= 0
  PROVE  Offset(req) = Skipped(req) /\ Skipped(req) < OffsetLimit
<1>1. Skipped(req) \in Nat /\ OffsetLimit \in Nat /\ OffsetLimit > 0
  BY PageFacts
<1>2. Offset(req) = Truncate(Skipped(req))
  BY DEF Offset, Skipped
<1> DEFINE n == Skipped(req)
<1> HIDE DEF n
<1>3. n \in Nat /\ n < 2 * OffsetLimit /\ Offset(req) = Truncate(n)
  BY <1>1, <1>2 DEF n
<1>4. n % (2 * OffsetLimit) = n
  <2>1. 2 * OffsetLimit \in Nat
    BY <1>1
  <2>2. \A a, m \in Nat : a < m => a % m = a
    OBVIOUS
  <2> QED
    BY <1>3, <2>1, <2>2
<1>5. Truncate(n) = IF n >= OffsetLimit THEN n - 2 * OffsetLimit ELSE n
  BY <1>4 DEF Truncate
<1>6. n < OffsetLimit
  BY <1>1, <1>3, <1>5
<1> QED
  BY <1>1, <1>3, <1>5, <1>6 DEF n

LEMMA NextPage ==
  ASSUME NEW req \in ListRequest, req.size < OffsetLimit,
         NEW r, r = [req EXCEPT !.page = @ + 1]
  PROVE  /\ r \in ListRequest /\ r.size = req.size /\ r.first = req.first
         /\ r.status = req.status /\ r.type = req.type
         /\ Skipped(req) <= Skipped(r) /\ Skipped(r) <= Skipped(req) + PageSize(req)
<1>1. /\ r \in ListRequest /\ r.size = req.size /\ r.first = req.first
      /\ r.status = req.status /\ r.type = req.type /\ r.page = req.page + 1
      /\ req.page \in Int
  BY DEF ListRequest
<1>2. /\ PageSize(req) \in Nat /\ Page(req) \in Nat
      /\ Skipped(req) \in Nat
  BY PageFacts
<1>3. PageSize(r) = PageSize(req)
  BY <1>1 DEF PageSize
<1>4. CASE req.page <= 0
  <2>1. Page(r) = Page(req)
    BY <1>1, <1>4 DEF Page
  <2>2. Skipped(r) = Skipped(req)
    BY <1>3, <2>1 DEF Skipped
  <2> QED
    BY <1>1, <1>2, <2>2
<1>5. CASE req.page > 0
  <2>1. Page(r) = Page(req) + 1
    BY <1>1, <1>5 DEF Page
  <2>2. \A p, s \in Nat : (p + 1 - 1) * s = (p - 1) * s + s
    OBVIOUS
  <2>3. Skipped(r) = Skipped(req) + PageSize(req)
    BY <1>2, <1>3, <2>1, <2>2 DEF Skipped
  <2> QED
    BY <1>1, <1>2, <2>3
<1> QED
  BY <1>1, <1>4, <1>5

\* The two conversions of mapper.go agree.
LEMMA StatusConversions ==
  ASSUME NEW s \in Status, NEW n, n = Unspecified \/ statusToProto(s) = n
  PROVE  protoToStatus(n) \in {AnyStatus, s}
<1>1. CASE n = Unspecified
  BY <1>1 DEF protoToStatus, Unspecified
<1>2. CASE statusToProto(s) = n
  BY <1>2 DEF Status, statusToProto, protoToStatus
<1> QED
  BY <1>1, <1>2

LEMMA StartWalkKeeps ==
  ASSUME ListingInv, NEW filter \in Filters, NEW start \in Starts, StartWalk(filter, start)
  PROVE  ListingInv'
<1> USE DEF ListingInv
<1>1. /\ at = "idle" /\ at' = "count" /\ UNCHANGED <<tasks, order, total, seen, shrunk>>
      /\ request' = [status |-> filter.status, type |-> filter.type,
                     page |-> start.page, size |-> start.size, first |-> start.page]
      /\ wanted' = {t \in TaskID : /\ Exists(t)
                                   /\ \/ filter.status = Unspecified
                                      \/ statusToProto(tasks[t].status) = filter.status
                                   /\ filter.type \in {AnyType, tasks[t].type}}
  BY DEF StartWalk, repoVars
<1>2. /\ filter.status \in Nat /\ filter.type \in TaskType \cup {AnyType}
      /\ start.page \in Int /\ start.size \in Int /\ start.size < OffsetLimit
  BY ListingAssumption
<1>3. PICK r : r = request'
  OBVIOUS
<1>4. /\ r \in ListRequest /\ r.size < OffsetLimit /\ r.status = filter.status
      /\ r.type = filter.type /\ r.page = r.first
  BY <1>1, <1>2, <1>3 DEF ListRequest
<1>5. WalkTypeOK' /\ seen' = {}
  BY <1>1, <1>3, <1>4 DEF WalkTypeOK
<1>6. OrderOK'
  BY <1>1 DEF OrderOK, Exists
<1>7. Matching(request)' = Matching(r) /\ \A t : Place(request, t)' = Place(r, t)
  BY <1>1, <1>3 DEF Matching, Place, NotOlder, Exists, Where
<1>8. wanted' \subseteq Matching(r)
  <2> SUFFICES ASSUME NEW t \in wanted' PROVE t \in Matching(r)
    OBVIOUS
  <2>1. /\ t \in TaskID /\ Exists(t) /\ filter.type \in {AnyType, tasks[t].type}
        /\ filter.status = Unspecified \/ statusToProto(tasks[t].status) = filter.status
    BY <1>1
  <2>2. protoToStatus(filter.status) \in {AnyStatus, tasks[t].status}
    BY <2>1, StatusConversions DEF Exists
  <2> QED
    BY <1>4, <2>1, <2>2 DEF Matching, Where
<1>9. r.first <= 1 => Skipped(r) = 0
  <2> SUFFICES ASSUME r.first <= 1 PROVE Skipped(r) = 0
    OBVIOUS
  <2>1. Page(r) = 1 /\ PageSize(r) \in Nat
    BY <1>2, <1>4, PageFacts DEF Page, ListRequest
  <2>2. \A k \in Nat : (1 - 1) * k = 0
    OBVIOUS
  <2> QED
    BY <2>1, <2>2 DEF Skipped
<1>10. Skipped(request)' = Skipped(r) /\ OffsetLimit > 0 /\ OffsetLimit \in Nat
  BY <1>3, <1>4, PageFacts DEF Skipped, Page, PageSize
<1>11. NoWrap'
  BY <1>3, <1>9, <1>10 DEF NoWrap
<1>12. StillAhead'
  <2> SUFFICES ASSUME r.first <= 1, NEW t \in wanted'
               PROVE  t \in Matching(r) /\ Place(r, t) > Skipped(r)
    BY <1>3, <1>7, <1>10 DEF StillAhead
  <2>1. t \in Matching(r) /\ Place(r, t) >= 1 /\ Place(r, t) \in Nat
    BY <1>8, PlacePositive, UpToFinite
  <2> QED
    BY <1>9, <2>1
<1>13. SeenMatch' /\ TotalCounted' /\ PagingMissesNothing'
  BY <1>1, <1>5 DEF SeenMatch, TotalCounted, PagingMissesNothing
<1> QED
  BY <1>5, <1>6, <1>11, <1>12, <1>13

LEMMA CountKeeps == ASSUME ListingInv, Count PROVE ListingInv'
<1> USE DEF ListingInv
<1>1. /\ at = "count" /\ at' = "select" /\ total' = Cardinality(Matching(request))
      /\ UNCHANGED <<tasks, order, request, seen, wanted, shrunk>>
  BY DEF Count, repoVars
<1>2. /\ Matching(request)' = Matching(request) /\ Skipped(request)' = Skipped(request)
      /\ \A t : Place(request, t)' = Place(request, t)
  BY <1>1 DEF Matching, Place, NotOlder, Exists, Where, Skipped, Page, PageSize
<1>3. IsFiniteSet(Matching(request)) /\ Cardinality(Matching(request)) \in Nat
  BY UpToFinite
<1>4. OrderOK' /\ WalkTypeOK'
  BY <1>1, <1>3 DEF OrderOK, Exists, WalkTypeOK
<1>5. SeenMatch'
  BY <1>1, <1>2 DEF SeenMatch
<1>6. TotalCounted'
  BY <1>1, <1>3, FS_Subset DEF TotalCounted, SeenMatch
<1>7. NoWrap' /\ StillAhead' /\ PagingMissesNothing'
  BY <1>1, <1>2 DEF NoWrap, StillAhead, PagingMissesNothing, Walking
<1> QED
  BY <1>4, <1>5, <1>6, <1>7

LEMMA SelectKeeps == ASSUME ListingInv, Select PROVE ListingInv'
<1> USE DEF ListingInv
<1>1. at = "select" /\ UNCHANGED <<tasks, order, total, wanted, shrunk>>
  BY DEF Select, repoVars
<1>2. OrderOK'
  BY <1>1 DEF OrderOK, Exists
<1>3. CASE Offset(request) < 0 /\ at' = "error" /\ UNCHANGED <<request, seen>>
  <2>1. Matching(request)' = Matching(request)
    BY <1>1, <1>3 DEF Matching, Exists, Where
  <2> QED
    BY <1>1, <1>2, <1>3, <2>1 DEF WalkTypeOK, SeenMatch, TotalCounted, NoWrap, StillAhead,
                                 PagingMissesNothing, Walking
<1>4. CASE /\ Offset(request) >= 0
           /\ seen' = seen \cup Rows(request)
           /\ at' = IF Rows(request) = {} THEN "done" ELSE "count"
           /\ request' = [request EXCEPT !.page = @ + 1]
  <2>0. request \in ListRequest /\ request.size < OffsetLimit
    BY DEF WalkTypeOK
  <2>1. PICK r : r = request'
    OBVIOUS
  <2>2. /\ r \in ListRequest /\ r.size = request.size /\ r.first = request.first
        /\ r.status = request.status /\ r.type = request.type
        /\ Skipped(request) <= Skipped(r) /\ Skipped(r) <= Skipped(request) + PageSize(request)
    BY <1>4, <2>0, <2>1, NextPage
  <2>3. /\ Matching(request)' = Matching(request)
        /\ \A t : Place(request, t)' = Place(request, t)
        /\ Skipped(request)' = Skipped(r)
    <3>1. Matching(r) = Matching(request) /\ \A t : Place(r, t) = Place(request, t)
      BY <2>2, SameFilter
    <3>2. /\ Matching(request)' = Matching(r)
          /\ \A t : Place(request, t)' = Place(r, t)
          /\ Skipped(request)' = Skipped(r)
      BY <1>1, <2>1 DEF Matching, Place, NotOlder, Exists, Where, Skipped, Page, PageSize
    <3> QED
      BY <3>1, <3>2
  <2>4. Rows(request) \subseteq Matching(request) /\ Matching(request) \subseteq TaskID
    BY DEF Rows, Matching
  <2>5. WalkTypeOK'
    BY <1>1, <1>4, <2>1, <2>2, <2>4 DEF WalkTypeOK
  <2>6. SeenMatch'
    BY <1>1, <1>4, <2>3, <2>4 DEF SeenMatch
  <2>7. TotalCounted'
    <3> SUFFICES ASSUME at' = "done", ~shrunk PROVE Cardinality(seen') <= total
      BY <1>1, <1>4 DEF TotalCounted
    <3>1. seen' = seen
      BY <1>4
    <3> QED
      BY <1>1, <3>1 DEF TotalCounted
  <2>8. /\ Skipped(request) \in Nat /\ PageSize(request) \in Nat
        /\ PageSize(request) > 0 /\ PageSize(request) < OffsetLimit
        /\ OffsetLimit \in Nat /\ Skipped(r) \in Nat
    BY <2>0, <2>2, PageFacts
  <2>9. request.first <= 1 => Offset(request) = Skipped(request) /\ Skipped(request) < OffsetLimit
    <3> SUFFICES ASSUME request.first <= 1
                 PROVE  Offset(request) = Skipped(request) /\ Skipped(request) < OffsetLimit
      OBVIOUS
    <3>1. Skipped(request) < 2 * OffsetLimit
      BY <1>1 DEF NoWrap, Walking
    <3> QED
      BY <1>4, <2>0, <3>1, OffsetExact
  <2>10. NoWrap'
    <3> SUFFICES ASSUME request.first <= 1 PROVE Skipped(r) >= 0 /\ Skipped(r) < 2 * OffsetLimit
      BY <2>1, <2>2, <2>3 DEF NoWrap
    <3> QED
      BY <2>2, <2>8, <2>9
  <2>11. ASSUME request.first <= 1, ~shrunk, NEW t \in wanted \ seen
         PROVE  /\ t \in Matching(request) /\ Place(request, t) \in Nat
                /\ Place(request, t) > Skipped(request)
    BY <1>1, <2>11, UpToFinite DEF StillAhead, Walking
  <2>12. StillAhead'
    <3> SUFFICES ASSUME request.first <= 1, ~shrunk, NEW t \in wanted \ seen'
                 PROVE  t \in Matching(request) /\ Place(request, t) > Skipped(r)
      BY <1>1, <2>1, <2>2, <2>3 DEF StillAhead
    <3>1. /\ t \in Matching(request) /\ Place(request, t) \in Nat
          /\ Place(request, t) > Skipped(request) /\ t \notin Rows(request)
      BY <1>4, <2>11
    <3>2. Place(request, t) \notin Offset(request) + 1..Offset(request) + PageSize(request)
      BY <3>1 DEF Rows
    <3> QED
      BY <2>2, <2>8, <2>9, <3>1, <3>2
  <2>13. PagingMissesNothing'
    <3> SUFFICES ASSUME at' = "done", request.first <= 1, ~shrunk, NEW t \in wanted \ seen'
                 PROVE  FALSE
      BY <1>1, <2>1, <2>2 DEF PagingMissesNothing
    <3>1. Rows(request) = {} /\ t \in wanted \ seen
      BY <1>4
    <3>2. PICK u \in Matching(request) : Place(request, u) = Skipped(request) + 1
      BY <2>8, <2>11, <3>1, NoGap
    <3>3. Place(request, u) \in Offset(request) + 1..Offset(request) + PageSize(request)
      BY <2>8, <2>9, <3>2
    <3> QED
      BY <3>1, <3>2, <3>3 DEF Rows
  <2> QED
    BY <1>2, <2>5, <2>6, <2>7, <2>10, <2>12, <2>13
<1> QED
  BY <1>3, <1>4 DEF Select

\* A step of others: rows come in or change, and no row leaves the result set.
LEMMA OthersKeep ==
  ASSUME ListingInv, OrderOK', UNCHANGED <<at, request, total, seen, wanted>>,
         shrunk' \in BOOLEAN, ~shrunk' => ~shrunk,
         ~shrunk' => Matching(request) \subseteq Matching(request)',
         \A u, v : NotOlder(u, v) => NotOlder(u, v)'
  PROVE  ListingInv'
<1> USE DEF ListingInv
<1>1. PICK r : r = request
  OBVIOUS
<1>2. /\ Matching(request)' = Matching(r)' /\ Matching(request) = Matching(r)
      /\ \A t : Place(request, t)' = Place(r, t)' /\ Place(request, t) = Place(r, t)
      /\ Skipped(request)' = Skipped(request)
  BY <1>1 DEF Matching, Place, Where, Skipped, Page, PageSize
<1>3. ASSUME ~shrunk', NEW t
      PROVE  /\ Place(request, t)' \in Nat /\ Place(request, t) \in Nat
             /\ Place(request, t) <= Place(request, t)'
  <2>1. Matching(r) \subseteq Matching(r)'
    BY <1>2, <1>3
  <2>2. Place(r, t)' \in Nat /\ Place(r, t) <= Place(r, t)'
    BY <2>1, PlacesGrow
  <2> QED
    BY <1>2, <2>2, UpToFinite
<1>4. WalkTypeOK'
  BY DEF WalkTypeOK
<1>5. SeenMatch' /\ TotalCounted' /\ NoWrap' /\ PagingMissesNothing'
  BY <1>2 DEF SeenMatch, TotalCounted, NoWrap, PagingMissesNothing
<1>6. StillAhead'
  <2> SUFFICES ASSUME at \in Walking, request.first <= 1, ~shrunk', NEW t \in wanted \ seen
               PROVE  t \in Matching(request)' /\ Place(request, t)' > Skipped(request)
    BY <1>2 DEF StillAhead
  <2>1. t \in Matching(request) /\ Place(request, t) > Skipped(request)
    BY DEF StillAhead
  <2>2. Skipped(request) \in Nat
    BY PageFacts DEF WalkTypeOK
  <2> QED
    BY <1>3, <2>1, <2>2
<1> QED
  BY <1>4, <1>5, <1>6

LEMMA ListingInvNext == ListingInv /\ [ListingNext]_listingVars => ListingInv'
<1> SUFFICES ASSUME ListingInv, [ListingNext]_listingVars PROVE ListingInv'
  OBVIOUS
<1>0. shrunk \in BOOLEAN /\ OrderOK
  BY DEF ListingInv, WalkTypeOK
<1>1. ASSUME NEW t \in TaskID, NEW cmd \in NewTasks, NEW i \in 1..Len(order) + 1,
             Insert(t, cmd, i)
      PROVE  ListingInv'
  <2>1. UNCHANGED <<at, request, total, seen, wanted, shrunk>>
    BY <1>1 DEF Insert, walkVars
  <2>2. /\ OrderOK'
        /\ \A req : Matching(req) \subseteq Matching(req)'
        /\ \A u, v : NotOlder(u, v) => NotOlder(u, v)'
    BY <1>0, <1>1, InsertStep
  <2>3. Matching(request) \subseteq Matching(request)'
    <3>1. PICK r : r = request
      OBVIOUS
    <3>2. Matching(request)' = Matching(r)' /\ Matching(request) = Matching(r)
      BY <2>1, <3>1 DEF Matching, Where
    <3> QED
      BY <2>2, <3>2
  <2> QED
    BY <1>0, <2>1, <2>2, <2>3, OthersKeep
<1>2. ASSUME NEW t \in TaskID, NEW next \in Status, Change(t, next)
      PROVE  ListingInv'
  <2>1. UNCHANGED <<order, at, request, total, seen, wanted>> /\ shrunk' \in BOOLEAN
    BY <1>2 DEF Change
  <2>2. OrderOK'
    BY <1>0, <1>2, ChangeOrder
  <2>3. ~shrunk' => ~shrunk /\ Matching(request) \subseteq Matching(request)'
    BY <1>0, <1>2, ChangeStep
  <2>4. \A u, v : NotOlder(u, v) => NotOlder(u, v)'
    BY <2>1 DEF NotOlder
  <2> QED
    BY <2>1, <2>2, <2>3, <2>4, OthersKeep
<1>3. CASE UNCHANGED listingVars
  <2>1. UNCHANGED <<tasks, order, at, request, total, seen, wanted, shrunk>>
    BY <1>3 DEF listingVars, walkVars
  <2>2. OrderOK'
    BY <1>0, <2>1 DEF OrderOK, Exists
  <2>3. Matching(request)' = Matching(request) /\ \A u, v : NotOlder(u, v) => NotOlder(u, v)'
    BY <2>1 DEF Matching, NotOlder, Exists, Where
  <2> QED
    BY <1>0, <2>1, <2>2, <2>3, OthersKeep
<1> QED
  BY <1>1, <1>2, <1>3, StartWalkKeeps, CountKeeps, SelectKeeps DEF ListingNext

LEMMA ListingInvInit == ListingInit => ListingInv
<1> SUFFICES ASSUME ListingInit PROVE ListingInv
  OBVIOUS
<1> USE DEF ListingInit
<1>1. NoRow \in Row /\ NoRow.status = "absent"
  BY DEF NoRow, Row, Status, TaskType, PriorityMax
<1>2. OrderOK
  BY <1>1 DEF RepoInit, OrderOK, Exists, Status
<1>3. WalkTypeOK
  <2>1. NoRequest \in ListRequest /\ NoRequest.size = 0
    BY DEF NoRequest, ListRequest, Unspecified
  <2>2. 0 < OffsetLimit
    BY ListingAssumption
  <2> QED
    BY <2>1, <2>2 DEF WalkTypeOK
<1>4. SeenMatch /\ TotalCounted /\ NoWrap /\ StillAhead /\ PagingMissesNothing
  BY DEF SeenMatch, TotalCounted, NoWrap, StillAhead, PagingMissesNothing, Walking
<1> QED
  BY <1>2, <1>3, <1>4 DEF ListingInv

-----------------------------------------------------------------------------
(***************************************************************************)
(* A client that walks through the pages of ListTasks from the first one   *)
(* misses no task that matched its filter when it began, unless some task  *)
(* has left the result set: each page is computed from scratch by OFFSET   *)
(* (repo.go:345-387), and new rows move the others only towards the later  *)
(* pages.  The offset is refused before it wraps around an int32.          *)
(***************************************************************************)
THEOREM WalkMissesNothing == ListingSpec => []PagingMissesNothing
<1>1. ListingInv => PagingMissesNothing
  BY DEF ListingInv
<1> QED
  BY <1>1, ListingInvInit, ListingInvNext, PTL DEF ListingSpec

(***************************************************************************)
(* At the end of a walk the total covers everything on its pages           *)
(* (repo.go:356-366): the last COUNT came after all pages with tasks.      *)
(***************************************************************************)
THEOREM TotalIsEnough == ListingSpec => []TotalCoversPages
<1>1. ListingInv => TotalCoversPages
  BY DEF ListingInv, TotalCounted, TotalCoversPages
<1> QED
  BY <1>1, ListingInvInit, ListingInvNext, PTL DEF ListingSpec
=============================================================================
