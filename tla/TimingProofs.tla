---------------------------- MODULE TimingProofs -----------------------------
(***************************************************************************)
(* With timeouts that allow for a full channel, and as long as nothing     *)
(* fails, the monitor resets only tasks that no worker has, and no task is *)
(* executed twice at the same time: for every number of tasks, workers and *)
(* schedulers, every capacity of the channel, batch and read size.         *)
(*                                                                         *)
(* Two things depend on each other here.  While every task has at most one *)
(* dispatch in flight, a delivery waits behind at most the other tasks,    *)
(* and its waiting time is bounded.  While the waiting times are bounded,  *)
(* neither the monitor nor XAUTOCLAIM produces a second dispatch.  So both *)
(* are parts of one inductive invariant.                                   *)
(***************************************************************************)
EXTENDS OutcomeProofs

-----------------------------------------------------------------------------
(* The invariant: deliveries and who holds them. *)

\* The delivery of worker w has no outcome yet.
InHand(w) == pc[w] \in {"get", "run", "complete", "retry", "fail"}

\* Entries not yet delivered.
Fresh == {m \in 1..Len(stream) : m > last}

\* Message m will still lead to an execution or is in one.
InFlight(m) ==
  \/ m > last
  \/ \E w \in WorkerID : m \in chan[w] \/ (job[w] = m /\ InHand(w))

\* A worker that is up has subscribed, one that has not claimed yet holds nothing,
\* and only a busy one has a delivery in process.
UpSubscribed ==
  \A w \in WorkerID : /\ pc[w] # "down" => last # NoGroup
                      /\ pc[w] \in {"down", "claim"} => chan[w] = {}
                      /\ job[w] # 0 => pc[w] \in Busy

\* Only delivered messages are held, each in one place.
HeldDelivered ==
  \A w \in WorkerID : (\A m \in chan[w] : m <= last) /\ (job[w] # 0 => job[w] <= last)

OneHolder ==
  \A v, w \in WorkerID : /\ \A m \in chan[w] : job[v] # m /\ (v # w => m \notin chan[v])
                         /\ v # w /\ job[v] # 0 => job[v] # job[w]

\* The pending entries are held by live workers.
PendingHeld ==
  \A m \in MsgId : owner[m] # NoWorker => \E w \in WorkerID : m \in chan[w] \/ job[w] = m

HeldInv == UpSubscribed /\ HeldDelivered /\ OneHolder /\ PendingHeld

-----------------------------------------------------------------------------
(* The invariant: one dispatch per task. *)

FlightRunning ==
  \A m \in 1..Len(stream) : InFlight(m) => tasks[stream[m]].status = "running"

FlightUnique ==
  \A m, k \in 1..Len(stream) : InFlight(m) /\ InFlight(k) /\ stream[m] = stream[k] => m = k

\* A task still to be published was picked just now, by this scheduler only, and
\* has no message in flight.
OutboxNew ==
  \A s \in SchedulerID : \A i \in 1..Len(outbox[s]) :
    /\ tasks[outbox[s][i]].status = "running" /\ tasks[outbox[s][i]].age = 0
    /\ \A m \in 1..Len(stream) : stream[m] = outbox[s][i] => ~InFlight(m)
    /\ \A r \in SchedulerID : \A j \in 1..Len(outbox[r]) :
         outbox[r][j] = outbox[s][i] => r = s /\ j = i

FlightInv == FlightRunning /\ FlightUnique /\ OutboxNew

-----------------------------------------------------------------------------
(* The invariant: waiting times. *)

\* The time left for waiting by a task that has the tasks A still before it.
Slack(A) == MaxRun * (Cardinality(TaskID) - 1 - Cardinality(A))

\* The tasks of the messages in Q that come before m.
Before(Q, m) == {stream[k] : k \in {j \in Q : j < m}}

\* The task worker w has begun.
Front(w) == IF pc[w] \in {"get", "run"} THEN {TaskOf(w)} ELSE {}

\* What has to be finished before worker w begins message m.
Line(w, m) == Before(chan[w] \cup Fresh, m) \cup Front(w)

Spent(w) == IF pc[w] = "run" THEN ran[w] ELSE 0

Age(m) == tasks[stream[m]].age

FreshYoung == \A m \in Fresh : Age(m) <= Slack(Before(Fresh, m))

QueueYoung(w) ==
  pc[w] # "down" =>
    /\ \A m \in chan[w] \cup Fresh : Age(m) <= Slack(Line(w, m)) + Spent(w)
    /\ \A m \in chan[w] : idle[m] <= Slack(Line(w, m)) + Spent(w)

\* The heartbeat keeps the row of a running handler young, but not its entry in
\* the pending entries list.
JobYoung(w) ==
  /\ pc[w] = "get" => Age(job[w]) <= Slack({}) /\ idle[job[w]] <= Slack({})
  /\ pc[w] = "run" => Age(job[w]) <= Slack({}) + hb[w] /\ idle[job[w]] <= Slack({}) + ran[w]
  /\ pc[w] \in {"complete", "retry", "fail"} => Age(job[w]) <= Slack({}) + HBInterval
  /\ job[w] # 0 => idle[job[w]] <= Slack({}) + MaxRun

YoungInv == FreshYoung /\ \A w \in WorkerID : QueueYoung(w) /\ JobYoung(w)

TimingInv == HeldInv /\ FlightInv /\ YoungInv

-----------------------------------------------------------------------------
(* Lemmas about slack and lines. *)

LEMMA TasksFinite ==
  ASSUME NEW A \in SUBSET TaskID
  PROVE  /\ IsFiniteSet(A) /\ Cardinality(A) \in Nat /\ Cardinality(TaskID) \in Nat
         /\ Cardinality(A) <= Cardinality(TaskID)
BY RepoAssumption, FS_Subset, FS_CardinalityType

LEMMA MaxRunTimes ==
  ASSUME NEW a \in Int, NEW b \in Int, a <= b
  PROVE  /\ MaxRun * a \in Int /\ MaxRun * b \in Int /\ MaxRun * a <= MaxRun * b
         /\ MaxRun * (a + 1) = MaxRun * a + MaxRun
         /\ a >= 0 => MaxRun * a >= 0
<1>0. MaxRun \in Nat
  BY WorkerAssumption
<1>1. \A r \in Nat : r * a <= r * b /\ r * (a + 1) = r * a + r /\ (a >= 0 => r * a >= 0)
  OBVIOUS
<1> QED
  BY <1>0, <1>1

LEMMA SlackType ==
  ASSUME NEW A \in SUBSET TaskID
  PROVE  Slack(A) \in Int
BY TasksFinite, MaxRunTimes DEF Slack

\* Fewer tasks ahead leave more time.
LEMMA SlackMono ==
  ASSUME NEW B \in SUBSET TaskID, NEW A \in SUBSET B
  PROVE  Slack(B) <= Slack(A)
<1>1. /\ Cardinality(A) \in Nat /\ Cardinality(B) \in Nat /\ Cardinality(TaskID) \in Nat
      /\ Cardinality(A) <= Cardinality(B)
  BY TasksFinite, FS_Subset
<1> QED
  BY <1>1, MaxRunTimes DEF Slack

\* A finished task leaves MaxRun more.
LEMMA SlackDrop ==
  ASSUME NEW A \in SUBSET TaskID, NEW u \in TaskID \ A
  PROVE  Slack(A \cup {u}) + MaxRun = Slack(A)
<1>1. /\ Cardinality(A) \in Nat /\ Cardinality(TaskID) \in Nat
      /\ Cardinality(A \cup {u}) = Cardinality(A) + 1
  BY TasksFinite, FS_AddElement
<1> DEFINE a == Cardinality(TaskID) - 1 - Cardinality(A \cup {u})
<1>2. a \in Int /\ a + 1 = Cardinality(TaskID) - 1 - Cardinality(A)
  BY <1>1
<1>3. MaxRun * (a + 1) = MaxRun * a + MaxRun
  BY <1>2, MaxRunTimes
<1> QED
  BY <1>2, <1>3 DEF Slack

\* Behind the other tasks only, there is time.
LEMMA SlackPositive ==
  ASSUME NEW t \in TaskID, NEW A \in SUBSET (TaskID \ {t})
  PROVE  Slack(A) >= 0
<1>1. /\ Cardinality(A) \in Nat /\ Cardinality(TaskID) \in Nat
      /\ Cardinality(A) <= Cardinality(TaskID \ {t})
      /\ Cardinality(TaskID \ {t}) = Cardinality(TaskID) - 1
  BY TasksFinite, FS_Subset, FS_RemoveElement, RepoAssumption
<1> QED
  BY <1>1, MaxRunTimes DEF Slack

\* What TimeoutsSuffice says about the waiting times.
LEMMA SlackEnough ==
  ASSUME TimeoutsSuffice
  PROVE  /\ Slack({}) + HBInterval <= HBTimeout
         /\ Slack({}) + MaxRun < MinIdle
<1>1. Cardinality({}) = 0 /\ Cardinality(TaskID) \in Nat
  BY FS_EmptySet, TasksFinite
<1>2. \A r, n \in Nat : r * (n - 1 - 0) = (n - 1) * r /\ r * (n - 1 - 0) + r = n * r
  OBVIOUS
<1> QED
  BY <1>1, <1>2, WorkerAssumption, BrokerAssumption, RepoAssumption DEF TimeoutsSuffice, Slack
\* What TypeInv says about the values used here.
Typed ==
  /\ Len(stream) \in Nat /\ 1..Len(stream) \subseteq MsgId /\ last \in Int
  /\ \A m \in 1..Len(stream) : stream[m] \in TaskID /\ Age(m) \in Nat
  /\ \A m \in MsgId : idle[m] \in Nat
  /\ \A w \in WorkerID :
       /\ chan[w] \subseteq 1..Len(stream) /\ job[w] \in 0..Len(stream)
       /\ hb[w] \in 0..HBInterval /\ ran[w] \in 0..MaxRun
       /\ pc[w] \in Busy => job[w] \in 1..Len(stream)
       /\ pc[w] \in Busy \cup {"down", "claim", "idle"}

LineTyped(w, m) ==
  /\ Before(Fresh, m) \in SUBSET TaskID
  /\ Before(chan[w] \cup Fresh, m) \in SUBSET TaskID
  /\ Before(Fresh, m) \subseteq Before(chan[w] \cup Fresh, m)
  /\ Front(w) \in SUBSET TaskID
  /\ Line(w, m) \in SUBSET TaskID
  /\ Spent(w) \in 0..MaxRun
  /\ Slack(Line(w, m)) \in Int /\ Slack({}) \in Int /\ Slack(Before(Fresh, m)) \in Int

USE DEF Typed, LineTyped

LEMMA TypeFacts == ASSUME TypeInv PROVE Typed
<1> USE DEF TypeInv, TypeOK
<1>1. /\ Len(stream) \in Nat /\ 1..Len(stream) \subseteq MsgId /\ last \in Int
      /\ \A m \in 1..Len(stream) : stream[m] \in TaskID
      /\ \A m \in MsgId : idle[m] \in Nat
  BY BrokerAssumption DEF BrokerTypeOK, MsgId, NoGroup
<1>2. \A t \in TaskID : tasks[t].age \in Nat
  BY DEF RepoTypeOK, Row
<1>3. \A w \in WorkerID :
        /\ chan[w] \subseteq 1..Len(stream) /\ job[w] \in 0..Len(stream)
        /\ hb[w] \in 0..HBInterval /\ ran[w] \in 0..MaxRun
        /\ pc[w] \in Busy \cup {"down", "claim", "idle"}
  BY DEF WorkerTypeOK, Busy
<1>4. \A w \in WorkerID : pc[w] \in Busy => job[w] \in 1..Len(stream)
  BY TaskOfType
<1> QED
  BY <1>1, <1>2, <1>3, <1>4 DEF Age

LEMMA LineType == ASSUME TypeInv, NEW w \in WorkerID, NEW m PROVE LineTyped(w, m)
<1>1. /\ chan[w] \cup Fresh \subseteq 1..Len(stream)
      /\ \A k \in 1..Len(stream) : stream[k] \in TaskID
      /\ pc[w] \in Busy => job[w] \in 1..Len(stream)
      /\ ran[w] \in 0..MaxRun
  BY TypeFacts DEF Fresh
<1>2. /\ Before(Fresh, m) \in SUBSET TaskID
      /\ Before(chan[w] \cup Fresh, m) \in SUBSET TaskID
      /\ Before(Fresh, m) \subseteq Before(chan[w] \cup Fresh, m)
  BY <1>1 DEF Before
<1>3. Front(w) \in SUBSET TaskID
  BY <1>1 DEF Front, TaskOf, Busy
<1>4. Line(w, m) \in SUBSET TaskID
  BY <1>2, <1>3 DEF Line
<1>5. Spent(w) \in 0..MaxRun
  BY <1>1, WorkerAssumption DEF Spent
<1> QED
  BY <1>2, <1>3, <1>4, <1>5, SlackType

LinesTyped == \A w \in WorkerID : \A m \in Nat : LineTyped(w, m)

LEMMA TypesAlways == TypeInv => Typed /\ LinesTyped
BY TypeFacts, LineType DEF LinesTyped

\* The same after a step.
LEMMA TypesNext == TypeInv' => Typed' /\ LinesTyped'
<1> HIDE DEF Typed
<1> QED
  BY TypesAlways, PTL

\* What a worker has begun is not waiting as well.
LEMMA FrontNotBehind ==
  ASSUME TypeInv, TimingInv, NEW v \in WorkerID, NEW w \in WorkerID, InHand(v), NEW m
  PROVE  TaskOf(v) \in TaskID /\ TaskOf(v) \notin Before(chan[w] \cup Fresh, m)
<1>1. job[v] \in 1..Len(stream) /\ TaskOf(v) \in TaskID /\ job[v] # 0
  BY TypeFacts DEF InHand, Busy, TaskOf
<1>2. InFlight(job[v])
  BY DEF InFlight
<1>3. ASSUME NEW k \in chan[w] \cup Fresh
      PROVE  k \in 1..Len(stream) /\ InFlight(k) /\ k # job[v]
  <2>1. last \in Int /\ k \in 1..Len(stream)
    BY TypeFacts DEF Fresh
  <2>2. job[v] <= last
    BY <1>1 DEF TimingInv, HeldInv, HeldDelivered
  <2>3. k # job[v]
    BY <1>1, <2>1, <2>2 DEF Fresh, TimingInv, HeldInv, OneHolder
  <2> QED
    BY <2>1, <2>3 DEF InFlight, Fresh
<1>4. \A k \in chan[w] \cup Fresh : stream[k] # stream[job[v]]
  BY <1>1, <1>2, <1>3 DEF TimingInv, FlightInv, FlightUnique
<1> QED
  BY <1>1, <1>4 DEF Before, TaskOf

\* A task that is held or waits to be delivered is young.
LEMMA FlightYoung ==
  ASSUME TypeInv, TimingInv, NEW m \in 1..Len(stream), InFlight(m)
  PROVE  Age(m) <= Slack({}) + HBInterval
<1>0. HBInterval \in Nat /\ Slack({}) \in Int /\ Age(m) \in Nat /\ MaxRun \in Nat
  BY WorkerAssumption, TypeFacts, SlackType
<1>1. CASE m > last
  <2>1. m \in Fresh
    BY <1>1 DEF Fresh
  <2>2. Before(Fresh, m) \in SUBSET TaskID
    BY TypeFacts DEF Before, Fresh
  <2>3. Slack(Before(Fresh, m)) <= Slack({}) /\ Slack(Before(Fresh, m)) \in Int
    BY <2>2, SlackMono, SlackType
  <2> QED
    BY <1>0, <2>1, <2>3 DEF TimingInv, YoungInv, FreshYoung
<1>2. ASSUME NEW w \in WorkerID, m \in chan[w]
      PROVE  Age(m) <= Slack({}) + HBInterval
  <2>1. pc[w] # "down"
    BY <1>2 DEF TimingInv, HeldInv, UpSubscribed
  <2>2. Age(m) <= Slack(Line(w, m)) + Spent(w)
    BY <1>2, <2>1 DEF TimingInv, YoungInv, QueueYoung
  <2>3. CASE pc[w] = "run"
    <3>1. InHand(w)
      BY <2>3 DEF InHand
    <3> DEFINE B == Before(chan[w] \cup Fresh, m)
    <3>2. B \in SUBSET TaskID /\ TaskOf(w) \in TaskID \ B
      BY <3>1, LineType, FrontNotBehind
    <3>3. Line(w, m) = B \cup {TaskOf(w)}
      BY <2>3 DEF Line, Front
    <3>4. Slack(Line(w, m)) + MaxRun = Slack(B) /\ Slack(B) <= Slack({}) /\ Slack(B) \in Int
      BY <3>2, <3>3, SlackDrop, SlackMono, SlackType
    <3>5. Spent(w) \in 0..MaxRun /\ Slack(Line(w, m)) \in Int
      BY LineType
    <3> QED
      BY <1>0, <2>2, <3>4, <3>5
  <2>4. CASE pc[w] # "run"
    <3>1. Spent(w) = 0 /\ Slack(Line(w, m)) <= Slack({}) /\ Slack(Line(w, m)) \in Int
      BY <2>4, LineType, SlackMono DEF Spent
    <3> QED
      BY <1>0, <2>2, <3>1
  <2> QED
    BY <2>3, <2>4
<1>3. ASSUME NEW w \in WorkerID, job[w] = m, InHand(w)
      PROVE  Age(m) <= Slack({}) + HBInterval
  <2>1. hb[w] \in 0..HBInterval
    BY TypeFacts
  <2> QED
    BY <1>0, <1>3, <2>1 DEF TimingInv, YoungInv, JobYoung, InHand
<1> QED
  BY <1>1, <1>2, <1>3 DEF InFlight

-----------------------------------------------------------------------------
(* What a step leaves alone. *)

\* A worker that takes no part in a step keeps its times, when the messages not yet
\* delivered become fewer and rows and entries no older.
LEMMA OtherKeeps ==
  ASSUME TypeInv, TypeInv', TimingInv, NEW v \in WorkerID,
         UNCHANGED <<stream, pc[v], chan[v], job[v], hb[v], ran[v]>>, Fresh' \subseteq Fresh,
         \A m \in 1..Len(stream) : InFlight(m) => Age(m)' <= Age(m),
         \A m \in MsgId : idle'[m] <= idle[m]
  PROVE  QueueYoung(v)' /\ JobYoung(v)'
<1>0. QueueYoung(v) /\ JobYoung(v)
  BY DEF TimingInv, YoungInv
<1>1. /\ \A m \in 1..Len(stream) : Age(m) \in Nat /\ Age(m)' \in Nat
      /\ \A m \in MsgId : idle[m] \in Nat /\ idle'[m] \in Nat
      /\ 1..Len(stream) \subseteq MsgId
  BY TypeFacts, TypesNext
<1>2. QueueYoung(v)'
  <2> SUFFICES ASSUME pc[v] # "down", NEW m \in chan[v] \cup Fresh'
               PROVE  /\ Age(m)' <= Slack(Line(v, m))' + Spent(v)'
                      /\ m \in chan[v] => idle'[m] <= Slack(Line(v, m))' + Spent(v)'
    BY DEF QueueYoung
  <2>1. m \in 1..Len(stream) /\ InFlight(m) /\ m \in chan[v] \cup Fresh
    BY TypeFacts DEF Fresh, InFlight
  <2>2. Line(v, m)' \subseteq Line(v, m) /\ Slack(Line(v, m))' = Slack(Line(v, m)')
    BY DEF Line, Before, Front, TaskOf, Slack
  <2>3. LineTyped(v, m)
    BY LineType
  <2>4. Slack(Line(v, m)) <= Slack(Line(v, m)') /\ Slack(Line(v, m)') \in Int
    BY <2>2, <2>3, SlackMono, SlackType
  <2>5. Spent(v)' = Spent(v) /\ Spent(v) \in Int /\ Slack(Line(v, m)) \in Int
    BY <2>3, WorkerAssumption DEF Spent
  <2>6. /\ Age(m) <= Slack(Line(v, m)) + Spent(v)
        /\ m \in chan[v] => idle[m] <= Slack(Line(v, m)) + Spent(v)
    BY <1>0, <2>1 DEF QueueYoung
  <2>7. Age(m)' <= Age(m) /\ idle'[m] <= idle[m] /\ m \in MsgId
    BY <1>1, <2>1
  <2> QED
    BY <1>1, <2>1, <2>2, <2>4, <2>5, <2>6, <2>7
<1>3. JobYoung(v)'
  <2>1. Slack({})' = Slack({}) /\ Slack({}) \in Int /\ MaxRun \in Int /\ HBInterval \in Int
    BY SlackType, WorkerAssumption DEF Slack
  <2>2. hb[v] \in Int /\ ran[v] \in Int
    BY TypeFacts
  <2>3. ASSUME job[v] # 0 PROVE job[v] \in MsgId /\ idle'[job[v]] <= idle[job[v]]
    BY <1>1, <2>3, TypeFacts
  <2>4. ASSUME InHand(v) PROVE /\ Age(job[v])' <= Age(job[v]) /\ job[v] # 0
                              /\ Age(job[v]) \in Int /\ Age(job[v])' \in Int
    <3>1. job[v] \in 1..Len(stream) /\ InFlight(job[v])
      BY <2>4, TypeFacts DEF InHand, Busy, InFlight
    <3>2. Age(job[v])' = (tasks'[stream[job[v]]]).age
      BY DEF Age
    <3>3. PICK m \in 1..Len(stream) : m = job[v] /\ Age(m)' = (tasks'[stream[job[v]]]).age
      BY <3>1 DEF Age
    <3> QED
      BY <1>1, <3>1, <3>2, <3>3
  <2> QED
    BY <1>0, <1>1, <2>1, <2>2, <2>3, <2>4 DEF JobYoung, InHand
<1> QED
  BY <1>2, <1>3

LEMMA FreshKeeps ==
  ASSUME TypeInv, TypeInv', TimingInv, UNCHANGED stream, Fresh' \subseteq Fresh,
         \A m \in 1..Len(stream) : InFlight(m) => Age(m)' <= Age(m)
  PROVE  FreshYoung'
<1> SUFFICES ASSUME NEW m \in Fresh' PROVE Age(m)' <= Slack(Before(Fresh, m))'
  BY DEF FreshYoung
<1>1. m \in 1..Len(stream) /\ InFlight(m) /\ m \in Fresh
  BY DEF Fresh, InFlight
<1>2. Before(Fresh, m)' \subseteq Before(Fresh, m) /\ Slack(Before(Fresh, m))' = Slack(Before(Fresh, m)')
  BY DEF Before, Slack
<1>3. Before(Fresh, m) \in SUBSET TaskID
  BY TypeFacts DEF Before, Fresh
<1>4. /\ Slack(Before(Fresh, m)) <= Slack(Before(Fresh, m)')
      /\ Slack(Before(Fresh, m)) \in Int /\ Slack(Before(Fresh, m)') \in Int
  BY <1>2, <1>3, SlackMono, SlackType
<1>5. Age(m) <= Slack(Before(Fresh, m))
  BY <1>1 DEF TimingInv, YoungInv, FreshYoung
<1>6. Age(m) \in Nat /\ Age(m)' \in Nat
  BY <1>1, TypeFacts, TypesNext
<1> QED
  BY <1>1, <1>2, <1>4, <1>5, <1>6

-----------------------------------------------------------------------------
(* Steps of process on the delivery a worker has. *)

JobMove(w) ==
  /\ UNCHANGED <<stream, last, owner, idle, chan, job, outbox>>
  /\ pc[w] \in Busy /\ pc'[w] \in Busy
  /\ InHand(w)' => InHand(w)
  /\ \A v \in WorkerID \ {w} : pc'[v] = pc[v] /\ hb'[v] = hb[v] /\ ran'[v] = ran[v]

\* Nothing gets in the way of the deliveries behind it.
LineMoves(w) ==
  \/ Front(w)' \subseteq Front(w) /\ Spent(w)' = Spent(w)
  \/ pc[w] = "run" /\ pc'[w] \notin {"get", "run"}

LEMMA JobMoveKeeps ==
  ASSUME TypeInv, TypeInv', TimingInv, NEW w \in WorkerID, JobMove(w), LineMoves(w),
         JobYoung(w)',
         \A t \in TaskID : tasks'[t].age <= tasks[t].age,
         \A t \in TaskID : tasks[t].status = "running" =>
           \/ tasks'[t].status = "running"
           \/ t = TaskOf(w) /\ InHand(w) /\ ~InHand(w)'
  PROVE  TimingInv'
<1> USE DEF TimingInv
<1>0. /\ job[w] \in 1..Len(stream) /\ job[w] # 0 /\ last \in Int /\ Fresh' = Fresh
      /\ \A m \in 1..Len(stream) : stream[m] \in TaskID
  BY TypeFacts DEF JobMove, Fresh
<1>1. HeldInv'
  BY DEF HeldInv, JobMove, UpSubscribed, HeldDelivered, OneHolder, PendingHeld, Busy
<1>2. \A m \in 1..Len(stream) : InFlight(m)' => InFlight(m)
  BY DEF JobMove, InFlight, InHand
<1>3. ASSUME NEW m \in 1..Len(stream), InFlight(m)', stream[m] = TaskOf(w), InHand(w)
      PROVE  InHand(w)'
  <2>1. InFlight(job[w])
    BY <1>3 DEF InFlight
  <2>2. m = job[w]
    BY <1>0, <1>2, <1>3, <2>1 DEF FlightInv, FlightUnique, TaskOf
  <2>3. ~(job[w] > last) /\ \A v \in WorkerID : job[w] \notin chan[v]
    BY <1>0 DEF HeldInv, HeldDelivered, OneHolder
  <2>4. PICK v \in WorkerID : job[v] = job[w] /\ InHand(v)'
    BY <1>3, <2>2, <2>3 DEF InFlight, JobMove
  <2>5. v = w
    BY <1>0, <2>4 DEF HeldInv, OneHolder
  <2> QED
    BY <2>4, <2>5
<1>4. FlightRunning' /\ FlightUnique'
  BY <1>0, <1>2, <1>3 DEF FlightInv, FlightRunning, FlightUnique, JobMove
<1>5. OutboxNew'
  <2>1. ASSUME NEW s \in SchedulerID, NEW i \in 1..Len(outbox[s])
        PROVE  /\ tasks'[outbox[s][i]].status = "running" /\ tasks'[outbox[s][i]].age = 0
               /\ \A m \in 1..Len(stream) : stream[m] = outbox[s][i] => ~InFlight(m)'
    <3>1. /\ tasks[outbox[s][i]].status = "running" /\ tasks[outbox[s][i]].age = 0
          /\ \A m \in 1..Len(stream) : stream[m] = outbox[s][i] => ~InFlight(m)
      BY <2>1 DEF FlightInv, OutboxNew
    <3>2. outbox[s][i] \in TaskID
      BY <2>1 DEF TypeInv, TypeOK, SchedulerTypeOK
    <3>3. tasks'[outbox[s][i]].age \in Nat
      BY <3>2 DEF TypeInv, TypeOK, RepoTypeOK, Row
    <3>4. InHand(w) => InFlight(job[w])
      BY DEF InFlight
    <3>5. InHand(w) => TaskOf(w) # outbox[s][i]
      BY <1>0, <3>1, <3>4 DEF TaskOf
    <3> QED
      BY <1>2, <3>1, <3>2, <3>3, <3>5
  <2> QED
    BY <2>1 DEF FlightInv, OutboxNew, JobMove
<1>6. \A m \in 1..Len(stream) : Age(m)' <= Age(m) /\ Age(m)' \in Int /\ Age(m) \in Int
  BY <1>0, TypeFacts, TypesNext DEF Age, JobMove
<1>8. FreshYoung'
  BY <1>0, <1>6, FreshKeeps DEF JobMove
<1>9. ASSUME NEW v \in WorkerID, v # w PROVE QueueYoung(v)' /\ JobYoung(v)'
  <2>1. UNCHANGED <<stream, pc[v], chan[v], job[v], hb[v], ran[v]>>
    BY <1>9 DEF JobMove
  <2>2. \A m \in MsgId : idle'[m] <= idle[m]
    BY TypeFacts DEF JobMove
  <2> QED
    BY <1>0, <1>6, <2>1, <2>2, OtherKeeps
<1>10. QueueYoung(w)'
  <2>1. ASSUME NEW m \in chan[w] \cup Fresh
        PROVE  /\ Slack(Line(w, m)) + Spent(w) <= Slack(Line(w, m))' + Spent(w)'
               /\ Slack(Line(w, m)) + Spent(w) \in Int
               /\ Slack(Line(w, m))' + Spent(w)' \in Int
    <3> DEFINE B == Before(chan[w] \cup Fresh, m)
    <3>1. B' = B
      BY <1>0 DEF Before, JobMove
    <3>2. /\ Line(w, m) = B \cup Front(w) /\ Line(w, m)' = B \cup Front(w)'
          /\ Slack(Line(w, m))' = Slack(Line(w, m)')
      BY <3>1 DEF Line, Slack
    <3>3. /\ B \in SUBSET TaskID /\ Line(w, m) \in SUBSET TaskID /\ Slack(Line(w, m)) \in Int
          /\ Spent(w) \in 0..MaxRun
      BY LineType
    <3>4. m \in Nat
      BY TypeFacts DEF Fresh
    <3>5. Line(w, m)' \in SUBSET TaskID /\ Spent(w)' \in 0..MaxRun /\ Slack(Line(w, m)') \in Int
      BY TypesNext, <3>4, SlackType DEF LinesTyped
    <3>6. CASE Front(w)' \subseteq Front(w) /\ Spent(w)' = Spent(w)
      <4>1. Line(w, m)' \subseteq Line(w, m)
        BY <3>2, <3>6
      <4>2. Slack(Line(w, m)) <= Slack(Line(w, m)')
        BY <3>3, <4>1, SlackMono
      <4> QED
        BY <3>2, <3>3, <3>5, <3>6, <4>2
    <3>7. CASE pc[w] = "run" /\ pc'[w] \notin {"get", "run"}
      <4>1. Front(w) = {TaskOf(w)} /\ Front(w)' = {} /\ Spent(w)' = 0 /\ InHand(w)
        BY <3>7 DEF Front, Spent, InHand
      <4>2. TaskOf(w) \in TaskID \ B
        BY <4>1, FrontNotBehind
      <4>3. Slack(Line(w, m)) + MaxRun = Slack(B)
        BY <3>2, <3>3, <4>1, <4>2, SlackDrop
      <4>4. Line(w, m)' = B
        BY <3>2, <4>1
      <4> QED
        BY <3>2, <3>3, <3>5, <4>1, <4>3, <4>4, WorkerAssumption
    <3> QED
      BY <3>6, <3>7 DEF LineMoves
  <2>2. chan'[w] = chan[w] /\ idle' = idle /\ pc[w] # "down"
    BY DEF JobMove, Busy
  <2>3. \A m \in chan[w] \cup Fresh : m \in 1..Len(stream)
    BY TypeFacts DEF Fresh
  <2>4. \A m \in chan[w] : idle[m] \in Int
    BY TypeFacts
  <2> QED
    BY <1>0, <1>6, <2>1, <2>2, <2>3, <2>4 DEF YoungInv, QueueYoung
<1> QED
  BY <1>1, <1>4, <1>5, <1>8, <1>9, <1>10 DEF FlightInv, YoungInv

LEMMA InHandFacts ==
  ASSUME TypeInv, TimingInv, NEW w \in WorkerID, InHand(w)
  PROVE  /\ job[w] \in 1..Len(stream) /\ TaskOf(w) \in TaskID /\ InFlight(job[w])
         /\ tasks[TaskOf(w)].status = "running" /\ tasks[TaskOf(w)] \in Row
         /\ Age(job[w]) = tasks[TaskOf(w)].age
         /\ Slack({}) >= 0 /\ Slack({}) \in Int
<1>1. job[w] \in 1..Len(stream) /\ TaskOf(w) \in TaskID
  BY TypeFacts DEF InHand, Busy, TaskOf
<1>2. InFlight(job[w])
  BY DEF InFlight
<1>3. tasks[TaskOf(w)].status = "running"
  BY <1>1, <1>2 DEF TimingInv, FlightInv, FlightRunning, TaskOf
<1>4. tasks[TaskOf(w)] \in Row
  BY <1>1 DEF TypeInv, TypeOK, RepoTypeOK
<1>5. Slack({}) >= 0 /\ Slack({}) \in Int
  BY <1>1, SlackPositive, SlackType
<1> QED
  BY <1>1, <1>2, <1>3, <1>4, <1>5 DEF Age, TaskOf

\* No two workers have the same task in hand.
LEMMA HandsDiffer ==
  ASSUME TypeInv, TimingInv, NEW v \in WorkerID, NEW w \in WorkerID, InHand(v), InHand(w),
         TaskOf(v) = TaskOf(w)
  PROVE  v = w
<1>1. /\ job[v] \in 1..Len(stream) /\ InFlight(job[v]) /\ job[v] # 0
      /\ job[w] \in 1..Len(stream) /\ InFlight(job[w])
  BY InHandFacts
<1>2. job[v] = job[w]
  BY <1>1 DEF TimingInv, FlightInv, FlightUnique, TaskOf
<1> QED
  BY <1>1, <1>2 DEF TimingInv, HeldInv, OneHolder

\* What UpdateTask leaves of ages and statuses.
LEMMA CommitRows ==
  ASSUME TypeInv, TimingInv, NEW w \in WorkerID, Commit(w)
  PROVE  /\ InHand(w)
         /\ \A t \in TaskID : tasks'[t].age <= tasks[t].age
         /\ \A t \in TaskID \ {TaskOf(w)} : tasks'[t] = tasks[t]
<1>1. InHand(w)
  BY DEF Commit, InHand
<1>2. PICK t \in TaskID : t = TaskOf(w) /\ tasks[t] \in Row
  BY <1>1, InHandFacts
<1>3. PICK next : \E row \in Row : tasks' = [tasks EXCEPT ![t] = [row EXCEPT !.status = next, !.age = 0]]
  <2>1. snap[w] \in Nat /\ Delay(BackoffBase, BackoffMax, snap[w]) \in Nat
    BY DelayType DEF TypeInv, TypeOK, WorkerTypeOK
  <2>2. /\ [tasks[t] EXCEPT !.worker_id = w] \in Row
        /\ [tasks[t] EXCEPT !.attempt_count = snap[w],
                            !.wait = Delay(BackoffBase, BackoffMax, snap[w]),
                            !.worker_id = NoWorker] \in Row
        /\ [tasks[t] EXCEPT !.worker_id = NoWorker] \in Row
    BY <1>2, <2>1 DEF Row
  <2>3. ASSUME NEW next, NEW row \in Row, UpdateTask(t, next, row)
        PROVE  \E n : \E r \in Row : tasks' = [tasks EXCEPT ![t] = [r EXCEPT !.status = n, !.age = 0]]
    BY <2>3 DEF UpdateTask
  <2>4. \E next : \E row \in Row : UpdateTask(t, next, row)
    BY <1>2, <2>2 DEF Commit, SetCompleted, SetRetry, SetFailed
  <2> QED
    BY <2>3, <2>4
<1>r. PICK row \in Row : tasks' = [tasks EXCEPT ![t] = [row EXCEPT !.status = next, !.age = 0]]
  BY <1>3
<1>4. [row EXCEPT !.status = next, !.age = 0].age = 0
  BY DEF Row
<1>5. \A u \in TaskID : tasks[u].age \in Nat
  BY DEF TypeInv, TypeOK, RepoTypeOK, Row
<1>6. tasks \in [TaskID -> Row]
  BY DEF TypeInv, TypeOK, RepoTypeOK
<1> QED
  BY <1>1, <1>2, <1>r, <1>4, <1>5, <1>6

LEMMA ProcessKeeps ==
  ASSUME TypeInv, TypeInv', TimingInv, UNCHANGED outbox, NEW w \in WorkerID,
         \/ GetTask(w) \/ Heartbeat(w) \/ HandlerOk(w) \/ HandlerError(w)
         \/ Mark(w) \/ PublishDLQ(w)
  PROVE  TimingInv'
<1>0. /\ pc \in [WorkerID -> Busy \cup {"down", "claim", "idle"}]
      /\ hb \in [WorkerID -> 0..HBInterval] /\ ran \in [WorkerID -> 0..MaxRun]
      /\ tasks \in [TaskID -> Row] /\ \A t \in TaskID : tasks[t].age \in Nat
      /\ HBInterval \in Nat /\ MaxRun \in Nat
  BY WorkerAssumption DEF TypeInv, TypeOK, WorkerTypeOK, RepoTypeOK, Row, Busy
<1>j. JobYoung(w)
  BY DEF TimingInv, YoungInv
<1>i. pc[w] \in Busy => job[w] # 0 /\ idle[job[w]] \in Nat /\ hb[w] \in 0..HBInterval
  BY TypeFacts
<1>s. Slack({})' = Slack({}) /\ Slack({}) \in Int
  BY SlackType DEF Slack
<1>1. CASE GetTask(w)
  <2>1. InHand(w) /\ pc[w] = "get"
    BY <1>1 DEF GetTask, InHand
  <2>2. tasks[TaskOf(w)].status = "running" /\ Age(job[w]) \in Nat
    BY <2>1, InHandFacts, TypeFacts
  <2>3. /\ pc' = [pc EXCEPT ![w] = pc'[w]] /\ pc'[w] \in {"fail", "run"}
        /\ hb' = [hb EXCEPT ![w] = hb'[w]] /\ ran' = [ran EXCEPT ![w] = ran'[w]]
        /\ pc'[w] = "run" => hb'[w] = 0 /\ ran'[w] = 0
        /\ UNCHANGED <<tasks, stream, last, owner, idle, chan, job>>
    BY <1>0, <1>1, <2>2 DEF GetTask, Goto, brokerVars
  <2>4. JobMove(w) /\ LineMoves(w)
    BY <1>0, <2>1, <2>3 DEF JobMove, LineMoves, InHand, Busy, Front, Spent, TaskOf
  <2>5. JobYoung(w)'
    BY <1>j, <1>s, <1>0, <1>i, <2>1, <2>2, <2>3 DEF JobYoung, Age, Busy
  <2> QED
    BY <1>0, <2>3, <2>4, <2>5, JobMoveKeeps
<1>2. CASE Heartbeat(w)
  <2>1. InHand(w) /\ pc[w] = "run"
    BY <1>2 DEF Heartbeat, InHand
  <2>2. PICK t \in TaskID : /\ t = TaskOf(w) /\ tasks[t].status = "running"
                            /\ Slack({}) >= 0 /\ Slack({}) \in Int
    BY <2>1, InHandFacts
  <2>3. /\ tasks' = [tasks EXCEPT ![t] = [tasks[t] EXCEPT !.age = 0, !.worker_id = w]]
        /\ hb' = [hb EXCEPT ![w] = 0]
        /\ UNCHANGED <<pc, ran, stream, last, owner, idle, chan, job>>
    BY <1>2, <2>2 DEF Heartbeat, Beat, brokerVars
  <2>4. [tasks[t] EXCEPT !.age = 0, !.worker_id = w].age = 0
        /\ [tasks[t] EXCEPT !.age = 0, !.worker_id = w].status = "running"
    BY <1>0, <2>2 DEF Row
  <2>5. /\ \A u \in TaskID : tasks'[u].age <= tasks[u].age
        /\ \A u \in TaskID : tasks[u].status = "running" => tasks'[u].status = "running"
        /\ tasks'[t].age = 0
    BY <1>0, <2>3, <2>4
  <2>6. JobMove(w) /\ LineMoves(w)
    BY <1>0, <2>1, <2>3 DEF JobMove, LineMoves, InHand, Busy, Front, Spent, TaskOf
  <2>7. JobYoung(w)'
    BY <1>j, <1>s, <1>0, <1>i, <2>1, <2>2, <2>3, <2>5 DEF JobYoung, Age, Busy, TaskOf
  <2> QED
    BY <2>5, <2>6, <2>7, JobMoveKeeps
<1>3. CASE HandlerOk(w) \/ HandlerError(w)
  <2>1. InHand(w) /\ pc[w] = "run"
    BY <1>3 DEF HandlerOk, HandlerError, InHand
  <2>2. Slack({}) >= 0 /\ Slack({}) \in Int /\ Age(job[w]) \in Nat
    BY <2>1, InHandFacts, TypeFacts
  <2>3. /\ pc' = [pc EXCEPT ![w] = pc'[w]] /\ pc'[w] \in {"complete", "retry", "fail"}
        /\ hb' = [hb EXCEPT ![w] = 0] /\ ran' = [ran EXCEPT ![w] = 0]
        /\ UNCHANGED <<tasks, stream, last, owner, idle, chan, job>>
    BY <1>0, <1>3 DEF HandlerOk, HandlerError, Goto, brokerVars
  <2>4. JobMove(w) /\ LineMoves(w)
    BY <1>0, <2>1, <2>3 DEF JobMove, LineMoves, InHand, Busy
  <2>5. JobYoung(w)'
    BY <1>j, <1>s, <1>0, <1>i, <2>1, <2>2, <2>3 DEF JobYoung, Age, Busy
  <2> QED
    BY <1>0, <2>3, <2>4, <2>5, JobMoveKeeps
<1>4. CASE Mark(w)
  <2>1. Commit(w)
    BY <1>4 DEF Mark
  <2>2. /\ InHand(w)
        /\ \A t \in TaskID : tasks'[t].age <= tasks[t].age
        /\ \A t \in TaskID \ {TaskOf(w)} : tasks'[t] = tasks[t]
    BY <2>1, CommitRows
  <2>3. /\ pc' = [pc EXCEPT ![w] = pc'[w]] /\ pc'[w] \in {"dlq", "ack"}
        /\ pc[w] \in {"complete", "retry", "fail"}
        /\ UNCHANGED <<hb, ran, stream, last, owner, idle, chan, job>>
    BY <1>0, <1>4, <2>1 DEF Mark, Commit, Goto, brokerVars
  <2>4. JobMove(w) /\ LineMoves(w) /\ ~InHand(w)'
    BY <1>0, <2>2, <2>3 DEF JobMove, LineMoves, InHand, Busy, Front, Spent
  <2>5. JobYoung(w)'
    BY <1>j, <1>s, <2>3 DEF JobYoung
  <2> QED
    BY <2>2, <2>4, <2>5, JobMoveKeeps
<1>5. CASE PublishDLQ(w)
  <2>1. /\ pc' = [pc EXCEPT ![w] = "ack"] /\ pc[w] = "dlq"
        /\ UNCHANGED <<tasks, hb, ran, stream, last, owner, idle, chan, job>>
    BY <1>5 DEF PublishDLQ, Goto, XAddDLQ
  <2>2. JobMove(w) /\ LineMoves(w)
    BY <1>0, <2>1 DEF JobMove, LineMoves, InHand, Busy, Front, Spent
  <2>3. JobYoung(w)'
    BY <1>0, <1>j, <1>s, <2>1 DEF JobYoung
  <2> QED
    BY <1>0, <2>1, <2>2, <2>3, JobMoveKeeps
<1> QED
  BY <1>1, <1>2, <1>3, <1>4, <1>5

-----------------------------------------------------------------------------
(* Steps of workers that take, read, claim and acknowledge deliveries. *)

LEMMA FlightKeeps ==
  ASSUME TimingInv, UNCHANGED <<stream, outbox, tasks>>,
         \A m \in 1..Len(stream) : InFlight(m)' => InFlight(m)
  PROVE  FlightInv'
BY DEF TimingInv, FlightInv, FlightRunning, FlightUnique, OutboxNew

LEMMA ReceiveKeeps ==
  ASSUME TypeInv, TypeInv', TimingInv, UNCHANGED outbox, NEW w \in WorkerID, Receive(w)
  PROVE  TimingInv'
<1>1. PICK m0 \in chan[w] : /\ \A k \in chan[w] : m0 <= k
                            /\ chan' = [chan EXCEPT ![w] = @ \ {m0}]
                            /\ job' = [job EXCEPT ![w] = m0]
  BY DEF Receive
<1>2. /\ pc[w] = "idle" /\ pc' = [pc EXCEPT ![w] = "get"]
      /\ UNCHANGED <<tasks, stream, last, owner, idle, hb, ran>>
  BY DEF Receive, Goto, brokerVars
<1>3. /\ \A v \in WorkerID : v # w => UNCHANGED <<pc[v], chan[v], job[v], hb[v], ran[v]>>
      /\ pc'[w] = "get" /\ chan'[w] = chan[w] \ {m0} /\ job'[w] = m0
  BY <1>1, <1>2 DEF TypeInv, TypeOK, WorkerTypeOK
<1>4. /\ job[w] = 0 /\ m0 \in 1..Len(stream) /\ m0 <= last /\ last \in Int
      /\ Len(stream) \in Nat
  BY <1>2, TypeFacts DEF TimingInv, HeldInv, UpSubscribed, HeldDelivered, Busy
<1>5. Fresh' = Fresh
  BY <1>2 DEF Fresh
<1>6. HeldInv'
  <2> USE DEF TimingInv, HeldInv
  <2>1. UpSubscribed'
    BY <1>2, <1>3 DEF UpSubscribed, Busy
  <2>2. HeldDelivered'
    BY <1>2, <1>3, <1>4 DEF HeldDelivered
  <2>3. OneHolder'
    BY <1>1, <1>3, <1>4 DEF OneHolder
  <2>4. PendingHeld'
    <3>1. \A m \in MsgId : m # 0
      BY BrokerAssumption DEF MsgId
    <3> QED
      BY <1>2, <1>3, <1>4, <3>1 DEF PendingHeld
  <2> QED
    BY <2>1, <2>2, <2>3, <2>4
<1>7. \A m \in 1..Len(stream) : InFlight(m)' => InFlight(m)
  BY <1>1, <1>2, <1>3, <1>4 DEF InFlight, InHand
<1>8. FlightInv'
  BY <1>2, <1>7, FlightKeeps
<1>9. \A m \in 1..Len(stream) : Age(m)' = Age(m) /\ Age(m) \in Nat
  BY <1>2, TypeFacts DEF Age
<1>10. FreshYoung'
  BY <1>2, <1>5, <1>9, FreshKeeps
<1>11. ASSUME NEW v \in WorkerID, v # w PROVE QueueYoung(v)' /\ JobYoung(v)'
  <2>1. \A m \in MsgId : idle'[m] <= idle[m]
    BY <1>2, TypeFacts
  <2> QED
    BY <1>2, <1>3, <1>5, <1>9, <1>11, <2>1, OtherKeeps
<1>q. QueueYoung(w)
  BY DEF TimingInv, YoungInv
<1>12. QueueYoung(w)'
  <2> SUFFICES ASSUME NEW m \in (chan[w] \ {m0}) \cup Fresh
               PROVE  /\ Age(m)' <= Slack(Line(w, m))' + Spent(w)'
                      /\ m \in chan[w] => idle'[m] <= Slack(Line(w, m))' + Spent(w)'
    BY <1>3, <1>5 DEF QueueYoung
  <2>1. m0 < m /\ m \in 1..Len(stream)
    BY <1>1, <1>4, TypeFacts DEF Fresh
  <2>2. Line(w, m)' \subseteq Line(w, m) /\ Slack(Line(w, m))' = Slack(Line(w, m)')
    BY <1>2, <1>3, <1>5, <2>1 DEF Line, Before, Front, TaskOf, Slack
  <2>3. LineTyped(w, m)
    BY LineType
  <2>4. Slack(Line(w, m)) <= Slack(Line(w, m)') /\ Slack(Line(w, m)') \in Int
        /\ Slack(Line(w, m)) \in Int
    BY <2>2, <2>3, SlackMono, SlackType
  <2>5. Spent(w)' = 0 /\ Spent(w) = 0
    BY <1>2, <1>3 DEF Spent
  <2>6. idle'[m] = idle[m] /\ (m \in chan[w] => idle[m] \in Nat)
    BY <1>2, TypeFacts
  <2> QED
    BY <1>q, <1>2, <1>9, <2>1, <2>2, <2>4, <2>5, <2>6 DEF QueueYoung
<1>13. JobYoung(w)'
  <2>1. LineTyped(w, m0) /\ MaxRun \in Nat
    BY LineType, WorkerAssumption
  <2>2. Slack(Line(w, m0)) <= Slack({}) /\ Slack({})' = Slack({}) /\ Spent(w) = 0
    BY <1>2, <2>1, SlackMono DEF Slack, Spent
  <2>3. /\ Age(m0) <= Slack(Line(w, m0)) /\ idle[m0] <= Slack(Line(w, m0))
        /\ idle[m0] \in Nat /\ Age(m0) \in Nat
    BY <1>q, <1>2, <1>4, <2>1, <2>2, TypeFacts DEF QueueYoung
  <2>4. Age(job[w])' = Age(m0)
    BY <1>2, <1>3 DEF Age
  <2> QED
    BY <1>2, <1>3, <2>1, <2>2, <2>3, <2>4 DEF JobYoung
<1> QED
  BY <1>6, <1>8, <1>10, <1>11, <1>12, <1>13 DEF TimingInv, YoungInv

LEMMA AckKeeps ==
  ASSUME TypeInv, TypeInv', TimingInv, UNCHANGED outbox, NEW w \in WorkerID, Ack(w)
  PROVE  TimingInv'
<1>1. /\ pc[w] = "ack" /\ pc' = [pc EXCEPT ![w] = "idle"] /\ job' = [job EXCEPT ![w] = 0]
      /\ owner' = [owner EXCEPT ![job[w]] = NoWorker] /\ idle' = [idle EXCEPT ![job[w]] = 0]
      /\ UNCHANGED <<tasks, stream, last, chan, hb, ran>>
  BY DEF Ack, Done, Goto, XAck
<1>2. /\ \A v \in WorkerID : v # w => UNCHANGED <<pc[v], chan[v], job[v], hb[v], ran[v]>>
      /\ pc'[w] = "idle" /\ chan'[w] = chan[w] /\ job'[w] = 0
      /\ job[w] \in MsgId /\ job[w] # 0
      /\ \A m \in MsgId : /\ owner'[m] = IF m = job[w] THEN NoWorker ELSE owner[m]
                          /\ idle'[m] = IF m = job[w] THEN 0 ELSE idle[m]
                          /\ idle'[m] <= idle[m]
  <2>1. job[w] \in 1..Len(stream) /\ 1..Len(stream) \subseteq MsgId
        /\ \A m \in MsgId : idle[m] \in Nat
    BY <1>1, TypeFacts DEF Busy
  <2> QED
    BY <1>1, <2>1 DEF TypeInv, TypeOK, WorkerTypeOK, BrokerTypeOK
<1>3. Fresh' = Fresh
  BY <1>1 DEF Fresh
<1>4. HeldInv'
  <2> USE DEF TimingInv, HeldInv
  <2>1. UpSubscribed' /\ HeldDelivered'
    BY <1>1, <1>2 DEF UpSubscribed, HeldDelivered, Busy
  <2>2. \A v \in WorkerID : 0 \notin chan[v]
    BY TypeFacts
  <2>3. OneHolder'
    BY <1>1, <1>2, <2>2 DEF OneHolder
  <2>4. PendingHeld'
    BY <1>1, <1>2 DEF PendingHeld
  <2> QED
    BY <2>1, <2>3, <2>4
<1>5. \A m \in 1..Len(stream) : InFlight(m)' => InFlight(m)
  BY <1>1, <1>2 DEF InFlight, InHand
<1>6. FlightInv'
  BY <1>1, <1>5, FlightKeeps
<1>7. \A m \in 1..Len(stream) : Age(m)' = Age(m) /\ Age(m) \in Nat
  BY <1>1, TypeFacts DEF Age
<1>8. FreshYoung'
  BY <1>1, <1>3, <1>7, FreshKeeps
<1>9. ASSUME NEW v \in WorkerID, v # w PROVE QueueYoung(v)' /\ JobYoung(v)'
  BY <1>1, <1>2, <1>3, <1>7, <1>9, OtherKeeps
<1>10. QueueYoung(w)'
  <2>1. \A m : Line(w, m)' = Line(w, m)
    BY <1>1, <1>2, <1>3 DEF Line, Before, Front
  <2>4. Spent(w)' = Spent(w)
    BY <1>1, <1>2 DEF Spent
  <2>5. \A m : Slack(Line(w, m))' = Slack(Line(w, m))
    BY <2>1 DEF Slack
  <2>2. \A m \in chan[w] : m # job[w] /\ m \in MsgId
    BY TypeFacts DEF TimingInv, HeldInv, OneHolder
  <2>3. \A m \in chan[w] \cup Fresh : m \in 1..Len(stream)
    BY TypeFacts DEF Fresh
  <2> QED
    BY <1>1, <1>2, <1>3, <1>7, <2>2, <2>3, <2>4, <2>5 DEF TimingInv, YoungInv, QueueYoung
<1>11. JobYoung(w)'
  BY <1>2 DEF JobYoung
<1> QED
  BY <1>4, <1>6, <1>8, <1>9, <1>10, <1>11 DEF TimingInv, YoungInv

\* A worker always finds its task running: the store refuses no outcome.
LEMMA NothingRefused ==
  ASSUME TypeInv, TimingInv, NEW w \in WorkerID
  PROVE  ~GetMissing(w) /\ ~MarkRejected(w)
<1>1. InHand(w) => tasks[TaskOf(w)].status = "running"
  BY InHandFacts
<1> QED
  BY <1>1 DEF GetMissing, MarkRejected, InHand, Exists, Status, CanTransition,
              allowedTransitions

\* No pending entry is idle long enough to be claimed.
LEMMA NothingClaimable ==
  ASSUME TypeInv, TimingInv, TimeoutsSuffice
  PROVE  Claimable = {}
<1> SUFFICES ASSUME NEW m \in MsgId, owner[m] # NoWorker PROVE ~(idle[m] >= MinIdle)
  BY DEF Claimable
<1>1. PICK w \in WorkerID : m \in chan[w] \/ job[w] = m
  BY DEF TimingInv, HeldInv, PendingHeld
<1>2. /\ Slack({}) + MaxRun < MinIdle /\ Slack({}) \in Int /\ MaxRun \in Nat
      /\ MinIdle \in Nat /\ idle[m] \in Nat /\ m # 0
  BY SlackEnough, SlackType, WorkerAssumption, BrokerAssumption, TypeFacts DEF MsgId
<1>3. CASE m \in chan[w]
  <2>1. pc[w] # "down"
    BY <1>3 DEF TimingInv, HeldInv, UpSubscribed
  <2>2. LineTyped(w, m)
    BY LineType
  <2>3. Slack(Line(w, m)) <= Slack({})
    BY <2>2, SlackMono
  <2> QED
    BY <1>2, <1>3, <2>1, <2>2, <2>3 DEF TimingInv, YoungInv, QueueYoung
<1>4. CASE job[w] = m
  BY <1>2, <1>4 DEF TimingInv, YoungInv, JobYoung
<1> QED
  BY <1>1, <1>3, <1>4

LEMMA ReadKeeps ==
  ASSUME TypeInv, TypeInv', TimingInv, UNCHANGED outbox, NEW w \in WorkerID, ReadNew(w)
  PROVE  TimingInv'
<1>0. /\ last \in Int /\ Len(stream) \in Nat /\ ReadCount \in Nat \ {0} /\ last <= Len(stream)
      /\ 1..Len(stream) \subseteq MsgId
  BY TypeFacts, BrokerAssumption DEF TypeInv, TypeOK, BrokerTypeOK, NoGroup
<1>1. /\ pc[w] \notin {"down", "claim"} /\ Deliver(w, Unread)
      /\ last' = IF last + ReadCount < Len(stream) THEN last + ReadCount ELSE Len(stream)
      /\ chan' = [chan EXCEPT ![w] = @ \cup Unread]
      /\ UNCHANGED <<tasks, stream, pc, job, hb, ran>>
  BY DEF ReadNew, Reading, XReadGroup
<1>2. /\ \A v \in WorkerID : v # w => chan'[v] = chan[v]
      /\ chan'[w] = chan[w] \cup Unread
      /\ \A m \in MsgId : /\ owner'[m] = IF m \in Unread THEN w ELSE owner[m]
                          /\ idle'[m] = IF m \in Unread THEN 0 ELSE idle[m]
                          /\ idle'[m] <= idle[m]
  <2>1. \A m \in MsgId : idle[m] \in Nat
    BY TypeFacts
  <2> QED
    BY <1>1, <2>1 DEF Deliver, TypeInv, TypeOK, WorkerTypeOK
<1>3. last # NoGroup
  BY <1>1 DEF TimingInv, HeldInv, UpSubscribed
<1>4. /\ last <= last' /\ last' \in Int
      /\ Unread = {m \in Fresh : m <= last'} /\ Fresh' = Fresh \ Unread
  BY <1>0, <1>1, <1>3 DEF Unread, Fresh
<1>5. \A m \in Unread : /\ m \in 1..Len(stream) /\ m > last /\ m <= last'
                        /\ \A v \in WorkerID : m \notin chan[v] /\ job[v] # m
  <2>1. \A m \in Unread : m \in 1..Len(stream) /\ m > last /\ m <= last' /\ m # 0
    BY <1>4 DEF Fresh
  <2>2. \A v \in WorkerID : (\A m \in chan[v] : m \in Int /\ m <= last)
                            /\ (job[v] # 0 => job[v] \in Int /\ job[v] <= last)
    BY TypeFacts DEF TimingInv, HeldInv, HeldDelivered
  <2> QED
    BY <1>0, <2>1, <2>2
<1>6. HeldInv'
  <2> USE DEF TimingInv, HeldInv
  <2>1. UpSubscribed'
    <3>1. last' # NoGroup
      BY <1>0, <1>1, <1>3 DEF NoGroup, TypeInv, TypeOK, BrokerTypeOK
    <3> QED
      BY <1>1, <1>2, <3>1 DEF UpSubscribed
  <2>2. HeldDelivered'
    <3>1. \A v \in WorkerID : (\A m \in chan[v] : m \in Int) /\ job[v] \in Int
      BY TypeFacts
    <3>2. \A v \in WorkerID : \A m \in chan'[v] : m \in chan[v] \/ m \in Unread
      BY <1>2
    <3> QED
      BY <1>0, <1>1, <1>4, <1>5, <3>1, <3>2 DEF HeldDelivered
  <2>3. OneHolder'
    BY <1>1, <1>2, <1>5 DEF OneHolder
  <2>4. PendingHeld'
    BY <1>1, <1>2 DEF PendingHeld
  <2> QED
    BY <2>1, <2>2, <2>3, <2>4
<1>7. \A m \in 1..Len(stream) : InFlight(m)' => InFlight(m)
  <2>1. \A m \in 1..Len(stream) : m > last' => m > last
    BY <1>0, <1>4
  <2> QED
    BY <1>1, <1>2, <1>5, <2>1 DEF InFlight, InHand
<1>8. FlightInv'
  BY <1>1, <1>7, FlightKeeps
<1>9. \A m \in 1..Len(stream) : Age(m)' = Age(m) /\ Age(m) \in Nat
  BY <1>1, TypeFacts DEF Age
<1>10. FreshYoung'
  BY <1>1, <1>4, <1>9, FreshKeeps
<1>11. ASSUME NEW v \in WorkerID, v # w PROVE QueueYoung(v)' /\ JobYoung(v)'
  <2>1. /\ UNCHANGED <<stream, pc[v], chan[v], job[v], hb[v], ran[v]>>
        /\ Fresh' \subseteq Fresh
        /\ \A m \in MsgId : idle'[m] <= idle[m]
    BY <1>1, <1>2, <1>4, <1>11
  <2>2. \A m \in 1..Len(stream) : InFlight(m) => Age(m)' <= Age(m)
    BY <1>9
  <2> QED
    BY <2>1, <2>2, OtherKeeps
<1>12. QueueYoung(w)'
  <2>1. chan'[w] \cup Fresh' = chan[w] \cup Fresh
    BY <1>2, <1>4
  <2>2. \A m : Line(w, m)' = Line(w, m)
    BY <1>1, <2>1 DEF Line, Before, Front, TaskOf
  <2>3. \A m : Slack(Line(w, m))' = Slack(Line(w, m))
    BY <2>2 DEF Slack
  <2>4. Spent(w)' = Spent(w)
    BY <1>1 DEF Spent
  <2>5. \A m \in chan[w] \cup Fresh : m \in 1..Len(stream)
    BY TypeFacts DEF Fresh
  <2>6. \A m \in chan[w] \cup Fresh : /\ Age(m) <= Slack(Line(w, m)) + Spent(w)
                                      /\ m \in chan[w] => idle[m] <= Slack(Line(w, m)) + Spent(w)
    BY <1>1 DEF TimingInv, YoungInv, QueueYoung
  <2>7. ASSUME NEW m \in Unread PROVE idle'[m] <= Slack(Line(w, m)) + Spent(w)
    <3>1. idle'[m] = 0 /\ m \in chan[w] \cup Fresh
      BY <1>0, <1>2, <1>4, <1>5
    <3>2. LineTyped(w, m)
      BY LineType
    <3>3. Age(m) \in Nat /\ Age(m) <= Slack(Line(w, m)) + Spent(w)
      BY <1>9, <2>5, <2>6, <3>1
    <3> QED
      BY <3>1, <3>2, <3>3, WorkerAssumption
  <2>8. \A m \in chan[w] : idle'[m] = idle[m]
    BY <1>0, <1>2, <1>5, <2>5
  <2> QED
    BY <1>2, <1>9, <2>1, <2>3, <2>4, <2>5, <2>6, <2>7, <2>8 DEF QueueYoung
<1>13. JobYoung(w)'
  <2>1. job[w] # 0 => job[w] \in MsgId /\ idle'[job[w]] = idle[job[w]]
    BY <1>0, <1>2, <1>5, TypeFacts
  <2>2. Slack({})' = Slack({}) /\ Age(job[w])' = Age(job[w])
    BY <1>1 DEF Slack, Age
  <2>3. pc[w] \in Busy => job[w] # 0
    BY TypeFacts
  <2> QED
    BY <1>1, <2>1, <2>2, <2>3 DEF TimingInv, YoungInv, JobYoung, Busy
<1> QED
  BY <1>6, <1>8, <1>10, <1>11, <1>12, <1>13 DEF TimingInv, YoungInv

LEMMA SubscribeKeeps ==
  ASSUME TypeInv, TypeInv', TimingInv, UNCHANGED outbox, NEW w \in WorkerID, Subscribe(w)
  PROVE  TimingInv'
<1>0. last \in Int /\ Len(stream) \in Nat /\ last <= Len(stream)
  BY TypeFacts DEF TypeInv, TypeOK, BrokerTypeOK, NoGroup
<1>1. /\ pc[w] = "down" /\ pc' = [pc EXCEPT ![w] = "claim"]
      /\ last' = IF last = NoGroup THEN Len(stream) ELSE last
      /\ UNCHANGED <<tasks, stream, owner, idle, chan, job, hb, ran>>
  BY DEF Subscribe, CreateGroup, Goto
<1>2. /\ \A v \in WorkerID : v # w => pc'[v] = pc[v]
      /\ pc'[w] = "claim" /\ chan[w] = {} /\ job[w] = 0
  <2>1. pc \in [WorkerID -> Busy \cup {"down", "claim", "idle"}]
    BY DEF TypeInv, TypeOK, WorkerTypeOK, Busy
  <2> QED
    BY <1>1, <2>1 DEF TimingInv, HeldInv, UpSubscribed, Busy
<1>3. last <= last' /\ last' \in Int /\ last' # NoGroup /\ Fresh' \subseteq Fresh
  BY <1>0, <1>1 DEF Fresh, NoGroup
<1>4. HeldInv'
  <2> USE DEF TimingInv, HeldInv
  <2>1. UpSubscribed'
    BY <1>1, <1>2, <1>3 DEF UpSubscribed, Busy
  <2>2. HeldDelivered'
    <3>1. \A v \in WorkerID : (\A m \in chan[v] : m \in Int) /\ job[v] \in Int
      BY TypeFacts
    <3> QED
      BY <1>0, <1>1, <1>3, <3>1 DEF HeldDelivered
  <2>3. OneHolder' /\ PendingHeld'
    BY <1>1 DEF OneHolder, PendingHeld
  <2> QED
    BY <2>1, <2>2, <2>3
<1>5. \A m \in 1..Len(stream) : InFlight(m)' => InFlight(m)
  <2>1. \A m \in 1..Len(stream) : m > last' => m > last
    BY <1>0, <1>3
  <2> QED
    BY <1>1, <1>2, <2>1 DEF InFlight, InHand
<1>6. FlightInv'
  BY <1>1, <1>5, FlightKeeps
<1>7. \A m \in 1..Len(stream) : Age(m)' = Age(m) /\ Age(m) \in Nat
  BY <1>1, TypeFacts DEF Age
<1>8. FreshYoung'
  BY <1>1, <1>3, <1>7, FreshKeeps
<1>9. ASSUME NEW v \in WorkerID, v # w PROVE QueueYoung(v)' /\ JobYoung(v)'
  <2>1. \A m \in MsgId : idle'[m] <= idle[m]
    BY <1>1, TypeFacts
  <2> QED
    BY <1>1, <1>2, <1>3, <1>7, <1>9, <2>1, OtherKeeps
<1>10. QueueYoung(w)'
  <2>1. \A m : Line(w, m)' = Before(Fresh, m)'
    BY <1>1, <1>2 DEF Line, Front, Before
  <2>2. \A m : Slack(Line(w, m))' = Slack(Before(Fresh, m))' /\ Spent(w)' = 0
    BY <1>2, <2>1 DEF Slack, Spent
  <2>3. ASSUME NEW m \in Fresh' PROVE Age(m)' <= Slack(Line(w, m))' + Spent(w)'
    <3>1. Age(m)' <= Slack(Before(Fresh, m))'
      BY <1>8 DEF FreshYoung
    <3>2. m \in Nat
      BY <1>1, TypeFacts DEF Fresh
    <3>3. Slack(Line(w, m))' \in Int
      BY <3>2, TypesNext DEF LinesTyped
    <3> QED
      BY <2>2, <3>1, <3>3
  <2> QED
    BY <1>1, <1>2, <2>3 DEF QueueYoung
<1>11. JobYoung(w)'
  BY <1>1, <1>2 DEF JobYoung
<1> QED
  BY <1>4, <1>6, <1>8, <1>9, <1>10, <1>11 DEF TimingInv, YoungInv

LEMMA ReclaimKeeps ==
  ASSUME TypeInv, TypeInv', TimingInv, TimeoutsSuffice, UNCHANGED outbox,
         NEW w \in WorkerID, ReclaimPending(w)
  PROVE  TimingInv'
<1>0. Claimed = {}
  BY NothingClaimable DEF Claimed
<1>1. /\ pc[w] = "claim" /\ pc' = [pc EXCEPT ![w] = "idle"]
      /\ UNCHANGED <<tasks, stream, last, job, hb, ran>>
  BY DEF ReclaimPending, XAutoClaim, Goto
<1>2. UNCHANGED <<owner, idle>>
  BY <1>0 DEF ReclaimPending, XAutoClaim, Deliver, TypeInv, TypeOK, BrokerTypeOK
<1>3. /\ \A v \in WorkerID : v # w => pc'[v] = pc[v]
      /\ pc'[w] = "idle" /\ chan[w] = {} /\ job[w] = 0
  <2>1. pc \in [WorkerID -> Busy \cup {"down", "claim", "idle"}]
    BY DEF TypeInv, TypeOK, WorkerTypeOK, Busy
  <2> QED
    BY <1>1, <2>1 DEF TimingInv, HeldInv, UpSubscribed, Busy
<1>4. UNCHANGED chan
  BY <1>0, <1>3 DEF ReclaimPending, TypeInv, TypeOK, WorkerTypeOK
<1>5. HeldInv'
  BY <1>1, <1>2, <1>3, <1>4 DEF TimingInv, HeldInv, UpSubscribed, HeldDelivered, OneHolder,
                                PendingHeld, Busy
<1>6. \A m \in 1..Len(stream) : InFlight(m)' => InFlight(m)
  BY <1>1, <1>3, <1>4 DEF InFlight, InHand
<1>7. FlightInv'
  BY <1>1, <1>6, FlightKeeps
<1>8. /\ \A m \in 1..Len(stream) : Age(m)' = Age(m) /\ Age(m) \in Nat
      /\ Fresh' = Fresh
  BY <1>1, TypeFacts DEF Age, Fresh
<1>9. FreshYoung'
  BY <1>1, <1>8, FreshKeeps
<1>10. ASSUME NEW v \in WorkerID, v # w PROVE QueueYoung(v)' /\ JobYoung(v)'
  <2>1. \A m \in MsgId : idle'[m] <= idle[m]
    BY <1>2, TypeFacts
  <2> QED
    BY <1>1, <1>3, <1>4, <1>8, <1>10, <2>1, OtherKeeps
<1>11. QueueYoung(w)'
  <2>1. \A m : Line(w, m)' = Line(w, m)
    BY <1>1, <1>3, <1>4, <1>8 DEF Line, Before, Front
  <2>2. \A m : Slack(Line(w, m))' = Slack(Line(w, m))
    BY <2>1 DEF Slack
  <2>3. Spent(w)' = Spent(w)
    BY <1>1, <1>3 DEF Spent
  <2>4. \A m \in Fresh : m \in 1..Len(stream)
    BY DEF Fresh
  <2> QED
    BY <1>1, <1>3, <1>4, <1>8, <2>2, <2>3, <2>4 DEF TimingInv, YoungInv, QueueYoung
<1>12. JobYoung(w)'
  BY <1>1, <1>3 DEF JobYoung
<1> QED
  BY <1>5, <1>7, <1>9, <1>10, <1>11, <1>12 DEF TimingInv, YoungInv

-----------------------------------------------------------------------------
(* Steps on rows of the store. *)

\* A step that leaves broker and workers alone, and the rows of what is in flight.
LEMMA RowsKeep ==
  ASSUME TypeInv, TypeInv', TimingInv, OutboxNew',
         UNCHANGED <<stream, last, owner, idle, pc, chan, job, hb, ran>>,
         \A m \in 1..Len(stream) : InFlight(m) => tasks'[stream[m]] = tasks[stream[m]]
  PROVE  TimingInv'
<1>1. HeldInv'
  BY DEF TimingInv, HeldInv, UpSubscribed, HeldDelivered, OneHolder, PendingHeld
<1>2. \A m : InFlight(m)' <=> InFlight(m)
  BY DEF InFlight, InHand
<1>3. FlightRunning' /\ FlightUnique'
  BY <1>2 DEF TimingInv, FlightInv, FlightRunning, FlightUnique
<1>4. Fresh' \subseteq Fresh
  BY DEF Fresh
<1>5. \A m \in 1..Len(stream) : InFlight(m) => Age(m)' <= Age(m)
  <2>1. \A m \in 1..Len(stream) : Age(m) \in Nat
    BY TypeFacts
  <2> QED
    BY <2>1 DEF Age
<1>6. FreshYoung'
  BY <1>4, <1>5, FreshKeeps
<1>7. ASSUME NEW v \in WorkerID PROVE QueueYoung(v)' /\ JobYoung(v)'
  <2>1. \A m \in MsgId : idle'[m] <= idle[m]
    BY TypeFacts
  <2> QED
    BY <1>4, <1>5, <2>1, OtherKeeps
<1> QED
  BY <1>1, <1>3, <1>6, <1>7 DEF TimingInv, FlightInv, YoungInv

\* The outboxes when the rows of their tasks stay.
LEMMA OutboxKeeps ==
  ASSUME TimingInv, UNCHANGED <<stream, last, pc, chan, job, outbox>>,
         \A s \in SchedulerID : \A i \in 1..Len(outbox[s]) :
           tasks'[outbox[s][i]] = tasks[outbox[s][i]]
  PROVE  OutboxNew'
<1>1. \A m : InFlight(m)' <=> InFlight(m)
  BY DEF InFlight, InHand
<1> QED
  BY <1>1 DEF TimingInv, FlightInv, OutboxNew

LEMMA EnqueueKeeps ==
  ASSUME TypeInv, TypeInv', TimingInv, Operated = {}, ClientStep
  PROVE  TimingInv'
<1>1. PICK t \in TaskID : tasks[t].status = "absent" /\ \E row : tasks' = [tasks EXCEPT ![t] = row]
  BY DEF ClientStep, Enqueue, Create, Creatable
<1>2. /\ UNCHANGED <<stream, last, owner, idle, pc, chan, job, hb, ran, outbox>>
      /\ tasks \in [TaskID -> Row]
  BY DEF ClientStep, brokerVars, workerVars, TypeInv, TypeOK, RepoTypeOK
<1>3. \A u \in TaskID : tasks[u].status = "running" => tasks'[u] = tasks[u]
  BY <1>1, <1>2
<1>4. \A m \in 1..Len(stream) : InFlight(m) => tasks'[stream[m]] = tasks[stream[m]]
  BY <1>3, TypeFacts DEF TimingInv, FlightInv, FlightRunning
<1>5. ASSUME NEW s \in SchedulerID, NEW i \in 1..Len(outbox[s])
      PROVE  tasks'[outbox[s][i]] = tasks[outbox[s][i]]
  <2>1. outbox[s][i] \in TaskID
    BY DEF TypeInv, TypeOK, SchedulerTypeOK
  <2>2. tasks[outbox[s][i]].status = "running"
    BY DEF TimingInv, FlightInv, OutboxNew
  <2> QED
    BY <1>3, <2>1, <2>2
<1>6. OutboxNew'
  BY <1>2, <1>5, OutboxKeeps
<1> QED
  BY <1>2, <1>4, <1>6, RowsKeep

\* The monitor finds nothing that is held, waits to be delivered or to be published.
LEMMA FlightNotStuck ==
  ASSUME TypeInv, TimingInv, TimeoutsSuffice
  PROVE  /\ \A m \in 1..Len(stream) : InFlight(m) => stream[m] \notin Stuck
         /\ \A s \in SchedulerID : \A i \in 1..Len(outbox[s]) : outbox[s][i] \notin Stuck
<1>0. /\ Slack({}) \in Int /\ HBInterval \in Nat /\ HBTimeout \in Nat
      /\ Slack({}) + HBInterval <= HBTimeout
  BY SlackType, SlackEnough, WorkerAssumption, RepoAssumption
<1>1. ASSUME NEW m \in 1..Len(stream), InFlight(m) PROVE stream[m] \notin Stuck
  <2>1. Age(m) \in Nat /\ Age(m) <= Slack({}) + HBInterval
    BY <1>1, TypeFacts, FlightYoung
  <2> QED
    BY <1>0, <2>1 DEF Stuck, Age
<1>2. ASSUME NEW s \in SchedulerID, NEW i \in 1..Len(outbox[s])
      PROVE  outbox[s][i] \notin Stuck
  BY <1>0 DEF TimingInv, FlightInv, OutboxNew, Stuck
<1> QED
  BY <1>1, <1>2

LEMMA MonitorKeeps ==
  ASSUME TypeInv, TypeInv', TimingInv, TimeoutsSuffice, MonitorStep
  PROVE  TimingInv'
<1>1. /\ UNCHANGED <<stream, last, owner, idle, pc, chan, job, hb, ran, outbox>>
      /\ \A t \in TaskID \ Stuck : tasks'[t] = tasks[t]
  BY DEF MonitorStep, MonitorCheck, ResetStuckRunning, workerVars
<1>2. \A m \in 1..Len(stream) : InFlight(m) => tasks'[stream[m]] = tasks[stream[m]]
  BY <1>1, FlightNotStuck, TypeFacts
<1>3. ASSUME NEW s \in SchedulerID, NEW i \in 1..Len(outbox[s])
      PROVE  tasks'[outbox[s][i]] = tasks[outbox[s][i]]
  <2>1. outbox[s][i] \in TaskID
    BY DEF TypeInv, TypeOK, SchedulerTypeOK
  <2> QED
    BY <1>1, <2>1, FlightNotStuck
<1>4. OutboxNew'
  BY <1>1, <1>3, OutboxKeeps
<1> QED
  BY <1>1, <1>2, <1>4, RowsKeep

LEMMA TickKeeps ==
  ASSUME TypeInv, TypeInv', TimingInv, NEW s \in SchedulerID, Tick(s), UNCHANGED workerVars
  PROVE  TimingInv'
<1>1. PICK q \in Batches(BatchSize) : MarkRunning(q) /\ outbox' = [outbox EXCEPT ![s] = q]
  BY DEF Tick
<1>2. /\ q \in Seq(Due) /\ \A i, j \in 1..Len(q) : q[i] = q[j] => i = j
  <2> DEFINE n == IF Cardinality(Due) < BatchSize THEN Cardinality(Due) ELSE BatchSize
  <2>1. n \in Nat
    BY DueFinite, SchedulerAssumption
  <2>2. q \in [1..n -> Due] /\ \A i, j \in 1..n : i < j => q[i] # q[j]
    BY DEF Batches
  <2>3. q \in Seq(Due) /\ Len(q) = n
    BY <2>1, <2>2
  <2>4. \A i, j \in 1..n : q[i] = q[j] => i = j
    <3>1. \A i, j \in 1..n : i < j \/ j < i \/ i = j
      BY <2>1
    <3> QED
      BY <2>2, <3>1
  <2> QED
    BY <2>3, <2>4
<1>3. /\ UNCHANGED <<stream, last, owner, idle, pc, chan, job, hb, ran>>
      /\ tasks \in [TaskID -> Row] /\ outbox[s] = <<>>
      /\ outbox \in [SchedulerID -> Seq(TaskID)]
  BY DEF Tick, workerVars, TypeInv, TypeOK, RepoTypeOK, SchedulerTypeOK
<1>4. \A t \in TaskID : tasks'[t] = IF \E i \in DOMAIN q : q[i] = t
                                    THEN [tasks[t] EXCEPT !.status = "running", !.age = 0]
                                    ELSE tasks[t]
  BY <1>1 DEF MarkRunning
<1>5. \A i \in 1..Len(q) : /\ q[i] \in TaskID /\ tasks[q[i]].status = "pending"
                           /\ i \in DOMAIN q
  BY <1>2 DEF Due
<1>6. \A t \in TaskID : tasks[t].status = "running" => tasks'[t] = tasks[t]
  <2>1. \A i \in DOMAIN q : tasks[q[i]].status = "pending"
    BY <1>2 DEF Due
  <2> QED
    BY <1>4, <2>1
<1>7. \A m \in 1..Len(stream) : InFlight(m) => tasks[stream[m]].status = "running"
  BY DEF TimingInv, FlightInv, FlightRunning
<1>8. \A m \in 1..Len(stream) : InFlight(m) => tasks'[stream[m]] = tasks[stream[m]]
  BY <1>6, <1>7, TypeFacts
<1>9. OutboxNew'
  <2>1. \A m : InFlight(m)' <=> InFlight(m)
    BY <1>3 DEF InFlight, InHand
  <2>2. \A i \in 1..Len(q) : tasks'[q[i]].status = "running" /\ tasks'[q[i]].age = 0
    <3>1. ASSUME NEW i \in 1..Len(q)
          PROVE  tasks'[q[i]].status = "running" /\ tasks'[q[i]].age = 0
      <4>1. tasks'[q[i]] = [tasks[q[i]] EXCEPT !.status = "running", !.age = 0]
        BY <1>4, <1>5
      <4>2. tasks[q[i]] \in Row
        BY <1>3, <1>5
      <4> QED
        BY <4>1, <4>2 DEF Row
    <3> QED
      BY <3>1
  <2>3. \A r \in SchedulerID : outbox'[r] = IF r = s THEN q ELSE outbox[r]
    BY <1>1, <1>3
  <2>4. ASSUME NEW r \in SchedulerID, r # s, NEW i \in 1..Len(outbox[r])
        PROVE  /\ tasks[outbox[r][i]].status = "running" /\ tasks[outbox[r][i]].age = 0
               /\ tasks'[outbox[r][i]] = tasks[outbox[r][i]]
               /\ \A m \in 1..Len(stream) : stream[m] = outbox[r][i] => ~InFlight(m)
    <3>1. outbox[r][i] \in TaskID
      BY <1>3
    <3> QED
      BY <1>6, <3>1 DEF TimingInv, FlightInv, OutboxNew
  <2>5. \A r \in SchedulerID : \A i \in 1..Len(outbox'[r]) :
          /\ tasks'[outbox'[r][i]].status = "running" /\ tasks'[outbox'[r][i]].age = 0
          /\ \A m \in 1..Len(stream) : stream[m] = outbox'[r][i] => ~InFlight(m)
    BY <1>5, <1>7, <2>2, <2>3, <2>4
  <2>6. \A r, u \in SchedulerID : \A i \in 1..Len(outbox'[r]) : \A j \in 1..Len(outbox'[u]) :
          outbox'[u][j] = outbox'[r][i] => u = r /\ j = i
    <3>1. \A r, u \in SchedulerID : \A i \in 1..Len(outbox[r]) : \A j \in 1..Len(outbox[u]) :
            outbox[u][j] = outbox[r][i] => u = r /\ j = i
      BY DEF TimingInv, FlightInv, OutboxNew
    <3>2. \A r \in SchedulerID \ {s} : \A i \in 1..Len(outbox[r]) : \A j \in 1..Len(q) :
            outbox[r][i] # q[j]
      BY <1>5, <2>4
    <3> QED
      BY <1>2, <2>3, <3>1, <3>2
  <2> QED
    BY <1>3, <2>1, <2>5, <2>6 DEF OutboxNew
<1> QED
  BY <1>3, <1>8, <1>9, RowsKeep

-----------------------------------------------------------------------------
(* Publishing. *)

LEMMA PublishKeeps ==
  ASSUME TypeInv, TypeInv', TimingInv, NEW s \in SchedulerID, PublishNext(s),
         UNCHANGED workerVars
  PROVE  TimingInv'
<1>1. /\ outbox \in [SchedulerID -> Seq(TaskID)] /\ outbox[s] # <<>>
      /\ stream \in Seq(TaskID) /\ last \in Int /\ last <= Len(stream)
  BY DEF PublishNext, TypeInv, TypeOK, SchedulerTypeOK, BrokerTypeOK, NoGroup
<1>2. PICK t \in TaskID : t = Head(outbox[s]) /\ t = outbox[s][1] /\ 1 \in 1..Len(outbox[s])
  BY <1>1
<1>n. PICK n \in Nat : n = Len(stream) + 1
  BY <1>1
<1>3. /\ stream' = Append(stream, t) /\ outbox' = [outbox EXCEPT ![s] = Tail(outbox[s])]
      /\ UNCHANGED <<tasks, last, owner, idle, pc, chan, job, hb, ran>>
  BY <1>2 DEF PublishNext, XAdd, workerVars
<1>4. /\ Len(stream') = n /\ stream'[n] = t /\ n \in Nat /\ n > last
      /\ \A m \in 1..Len(stream) : stream'[m] = stream[m] /\ m < n /\ m \in 1..n
      /\ \A m \in 1..n : m = n \/ m \in 1..Len(stream)
  BY <1>1, <1>2, <1>3, <1>n
<1>5. /\ tasks[t].status = "running" /\ tasks[t].age = 0
      /\ \A m \in 1..Len(stream) : stream[m] = t => ~InFlight(m)
  BY <1>2 DEF TimingInv, FlightInv, OutboxNew
<1>6. HeldInv'
  BY <1>3 DEF TimingInv, HeldInv, UpSubscribed, HeldDelivered, OneHolder, PendingHeld
<1>7. \A m : InFlight(m)' <=> InFlight(m)
  BY <1>3 DEF InFlight, InHand
<1>8. FlightRunning' /\ FlightUnique'
  <2>1. FlightRunning'
    BY <1>3, <1>4, <1>5, <1>7 DEF TimingInv, FlightInv, FlightRunning
  <2>2. FlightUnique'
    BY <1>3, <1>4, <1>5, <1>7 DEF TimingInv, FlightInv, FlightUnique
  <2> QED
    BY <2>1, <2>2
<1>9. OutboxNew'
  <2>1. ASSUME NEW r \in SchedulerID, NEW i \in 1..Len(outbox'[r])
        PROVE  LET j == IF r = s THEN i + 1 ELSE i
               IN  j \in 1..Len(outbox[r]) /\ outbox'[r][i] = outbox[r][j] /\ (r = s => j # 1)
    BY <1>1, <1>3
  <2>2. \A r, u \in SchedulerID : \A i \in 1..Len(outbox[r]) : \A j \in 1..Len(outbox[u]) :
          outbox[u][j] = outbox[r][i] => u = r /\ j = i
    BY DEF TimingInv, FlightInv, OutboxNew
  <2>3. ASSUME NEW r \in SchedulerID, NEW i \in 1..Len(outbox'[r])
        PROVE  /\ tasks'[outbox'[r][i]].status = "running" /\ tasks'[outbox'[r][i]].age = 0
               /\ outbox'[r][i] # t
               /\ \A m \in 1..Len(stream) : stream[m] = outbox'[r][i] => ~InFlight(m)
    <3>1. PICK j \in 1..Len(outbox[r]) : outbox'[r][i] = outbox[r][j] /\ (r = s => j # 1)
      BY <2>1
    <3> QED
      BY <1>2, <1>3, <2>2, <3>1 DEF TimingInv, FlightInv, OutboxNew
  <2>4. ASSUME NEW r \in SchedulerID, NEW i \in 1..Len(outbox'[r]),
               NEW u \in SchedulerID, NEW j \in 1..Len(outbox'[u]),
               outbox'[u][j] = outbox'[r][i]
        PROVE  u = r /\ j = i
    <3> DEFINE a == IF r = s THEN i + 1 ELSE i
               b == IF u = s THEN j + 1 ELSE j
    <3>1. a \in 1..Len(outbox[r]) /\ outbox'[r][i] = outbox[r][a]
      BY <2>1
    <3>2. b \in 1..Len(outbox[u]) /\ outbox'[u][j] = outbox[u][b]
      BY <2>1
    <3>3. u = r /\ a = b
      BY <2>2, <2>4, <3>1, <3>2
    <3> QED
      BY <3>3
  <2>5. \A r \in SchedulerID : \A i \in 1..Len(outbox'[r]) : \A m \in 1..Len(stream') :
          stream'[m] = outbox'[r][i] => ~InFlight(m)'
    BY <1>4, <1>7, <2>3
  <2> QED
    BY <2>3, <2>4, <2>5 DEF OutboxNew
<1>10. /\ Fresh' = Fresh \cup {n} /\ Fresh \subseteq 1..Len(stream)
       /\ \A m \in Fresh : InFlight(m)
  BY <1>1, <1>3, <1>4 DEF Fresh, InFlight
<1>11. /\ \A m \in 1..Len(stream) : Age(m)' = Age(m) /\ Age(m) \in Nat
       /\ Age(n)' = 0
  BY <1>3, <1>4, <1>5, TypeFacts DEF Age
<1>12. ASSUME NEW v \in WorkerID, NEW m \in 1..Len(stream)
       PROVE  /\ Before(Fresh, m)' = Before(Fresh, m)
              /\ Before(chan[v] \cup Fresh, m)' = Before(chan[v] \cup Fresh, m)
  <2>1. chan[v] \subseteq 1..Len(stream) /\ ~(n < m)
    BY <1>1, <1>4, TypeFacts
  <2>2. \A Q \in SUBSET (1..Len(stream)) : \A j \in Q : stream'[j] = stream[j]
    BY <1>4
  <2>3. Before(Fresh, m)' = {stream'[k] : k \in {j \in Fresh : j < m}}
    BY <1>10, <2>1 DEF Before
  <2>4. Before(chan[v] \cup Fresh, m)' = {stream'[k] : k \in {j \in chan[v] \cup Fresh : j < m}}
    BY <1>3, <1>10, <2>1 DEF Before
  <2>5. ASSUME NEW Q \in SUBSET (1..Len(stream))
        PROVE  {stream'[k] : k \in {j \in Q : j < m}} = {stream[k] : k \in {j \in Q : j < m}}
    BY <2>2
  <2> QED
    BY <1>10, <2>1, <2>3, <2>4, <2>5 DEF Before
<1>13. ASSUME NEW v \in WorkerID
       PROVE  /\ Before(Fresh, n)' \in SUBSET (TaskID \ {t})
              /\ pc[v] # "down" => Line(v, n)' \in SUBSET (TaskID \ {t})
  <2>1. \A k \in chan[v] \cup Fresh : /\ k \in 1..Len(stream) /\ stream'[k] = stream[k]
                                      /\ stream[k] \in TaskID \ {t}
    BY <1>4, <1>5, <1>10, TypeFacts DEF InFlight
  <2>2. Front(v)' \in SUBSET (TaskID \ {t})
    <3> SUFFICES ASSUME pc[v] \in {"get", "run"}
                 PROVE  stream'[job[v]] \in TaskID \ {t}
      BY <1>3 DEF Front, TaskOf
    <3>1. job[v] \in 1..Len(stream) /\ InFlight(job[v])
      BY TypeFacts DEF Busy, InFlight, InHand
    <3> QED
      BY <1>4, <1>5, <3>1, TypeFacts
  <2>3. Before(Fresh, n)' = {stream'[k] : k \in {j \in Fresh : j < n}}
    BY <1>4, <1>10 DEF Before
  <2>4. Before(chan[v] \cup Fresh, n)' = {stream'[k] : k \in {j \in chan[v] \cup Fresh : j < n}}
    <3>1. {j \in chan[v] \cup Fresh \cup {n} : j < n} = {j \in chan[v] \cup Fresh : j < n}
      BY <1>4
    <3>2. chan'[v] \cup Fresh' = chan[v] \cup Fresh \cup {n}
      BY <1>3, <1>10
    <3> QED
      BY <3>1, <3>2 DEF Before
  <2> QED
    BY <2>1, <2>2, <2>3, <2>4 DEF Line
<1>14. FreshYoung'
  <2>1. ASSUME NEW m \in Fresh PROVE Age(m)' <= Slack(Before(Fresh, m))'
    <3>1. m \in 1..Len(stream) /\ Age(m)' = Age(m) /\ Age(m) <= Slack(Before(Fresh, m))
      BY <1>10, <1>11 DEF TimingInv, YoungInv, FreshYoung
    <3>2. Before(Fresh, m)' = Before(Fresh, m)
      <4>1. Before(Fresh, m)' = {stream'[k] : k \in {j \in Fresh : j < m}}
        BY <1>1, <1>4, <1>10, <3>1 DEF Before
      <4> QED
        BY <1>4, <1>10, <4>1 DEF Before
    <3> QED
      BY <3>1, <3>2 DEF Slack
  <2>2. Age(n)' <= Slack(Before(Fresh, n))'
    <3>1. Before(Fresh, n)' \in SUBSET (TaskID \ {t})
      <4>1. Before(Fresh, n)' = {stream'[k] : k \in {j \in Fresh : j < n}}
        BY <1>4, <1>10 DEF Before
      <4>2. \A k \in Fresh : stream'[k] = stream[k] /\ stream[k] \in TaskID \ {t}
        BY <1>4, <1>5, <1>10, TypeFacts
      <4> QED
        BY <4>1, <4>2
    <3>2. Slack(Before(Fresh, n)') >= 0
      BY <1>2, <3>1, SlackPositive
    <3> QED
      BY <1>11, <3>2 DEF Slack
  <2> QED
    BY <1>10, <2>1, <2>2 DEF FreshYoung
<1>15. ASSUME NEW v \in WorkerID PROVE QueueYoung(v)'
  <2> SUFFICES ASSUME pc[v] # "down", NEW m \in chan[v] \cup Fresh \cup {n}
               PROVE  /\ Age(m)' <= Slack(Line(v, m))' + Spent(v)'
                      /\ m \in chan[v] => idle[m] <= Slack(Line(v, m))' + Spent(v)'
    <3>1. pc'[v] = pc[v] /\ chan'[v] = chan[v] /\ idle' = idle
          /\ chan'[v] \cup Fresh' = chan[v] \cup Fresh \cup {n}
      BY <1>3, <1>10
    <3> QED
      BY <3>1 DEF QueueYoung
  <2>1. Spent(v)' = Spent(v) /\ Spent(v) \in Nat
    <3>1. ran[v] \in Nat
      BY TypeFacts, WorkerAssumption
    <3> QED
      BY <1>3, <3>1 DEF Spent
  <2>2. CASE m = n
    <3>1. Slack(Line(v, n)') >= 0 /\ Slack(Line(v, n)') \in Int
      BY <1>2, <1>13, SlackPositive, SlackType
    <3>2. m \notin chan[v]
      BY <1>4, <2>2, TypeFacts
    <3> QED
      BY <1>11, <2>1, <2>2, <3>1, <3>2 DEF Slack
  <2>3. CASE m \in chan[v] \cup Fresh
    <3>1. m \in 1..Len(stream)
      BY <1>10, <2>3, TypeFacts
    <3>2. Front(v)' = Front(v)
      <4>1. pc[v] \in {"get", "run"} => job[v] \in 1..Len(stream)
        BY TypeFacts DEF Busy
      <4> QED
        BY <1>3, <1>4, <4>1 DEF Front, TaskOf
    <3>3. Line(v, m)' = Line(v, m)
      BY <1>12, <3>1, <3>2 DEF Line
    <3>4. Slack(Line(v, m))' = Slack(Line(v, m))
      BY <3>3 DEF Slack
    <3>5. /\ Age(m) <= Slack(Line(v, m)) + Spent(v)
          /\ m \in chan[v] => idle[m] <= Slack(Line(v, m)) + Spent(v)
      BY <2>3 DEF TimingInv, YoungInv, QueueYoung
    <3> QED
      BY <1>11, <2>1, <3>1, <3>4, <3>5
  <2> QED
    BY <2>2, <2>3
<1>16. ASSUME NEW v \in WorkerID PROVE JobYoung(v)'
  <2>1. JobYoung(v) /\ Slack({})' = Slack({})
    BY DEF TimingInv, YoungInv, Slack
  <2>2. pc[v] \in Busy => job[v] \in 1..Len(stream)
    BY TypeFacts
  <2>3. pc[v] \in Busy => Age(job[v])' = Age(job[v])
    BY <1>3, <1>4, <2>2 DEF Age
  <2> QED
    BY <1>3, <2>1, <2>3 DEF JobYoung, Busy
<1> QED
  BY <1>6, <1>8, <1>9, <1>14, <1>15, <1>16 DEF TimingInv, FlightInv, YoungInv

-----------------------------------------------------------------------------
(* The clock. *)

\* When the clock may tick, whoever has a delivery before it runs a handler.
LEMMA QuietFacts ==
  ASSUME TypeInv, TimingInv, Quiet, NEW w \in WorkerID
  PROVE  \/ pc[w] = "down" /\ job[w] = 0 /\ chan[w] = {}
         \/ pc[w] = "idle" /\ job[w] = 0 /\ chan[w] = {} /\ Fresh = {}
         \/ pc[w] = "run" /\ hb[w] < HBInterval /\ ran[w] < MaxRun
<1>1. /\ pc[w] \in {"down", "idle"} => job[w] = 0
      /\ pc[w] = "down" => chan[w] = {}
      /\ pc[w] # "down" => last # NoGroup
  BY DEF TimingInv, HeldInv, UpSubscribed, Busy
<1>2. ASSUME pc[w] # "down", Unread = {} PROVE Fresh = {}
  <2>1. /\ last \in Int /\ last >= 0 /\ Len(stream) \in Nat /\ ReadCount \in Nat \ {0}
        /\ last # NoGroup
    BY <1>1, <1>2, TypeFacts, BrokerAssumption DEF TypeInv, TypeOK, BrokerTypeOK, NoGroup
  <2>2. ASSUME NEW m \in Fresh PROVE last + 1 \in Unread
    BY <2>1 DEF Fresh, Unread
  <2> QED
    BY <1>2, <2>2
<1>3. chan[w] = {} => ~(Cardinality(chan[w]) > ChanCap)
  BY FS_EmptySet, WorkerAssumption
<1> QED
  BY <1>1, <1>2, <1>3 DEF Quiet

LEMMA ElapseKeeps ==
  ASSUME TypeInv, TypeInv', TimingInv, Prompt, Elapse
  PROVE  TimingInv'
<1>1. /\ Quiet
      /\ UNCHANGED <<stream, last, owner, outbox, pc, chan, job>>
  BY DEF Elapse
<1>2. /\ \A t \in TaskID : tasks'[t].status = tasks[t].status /\ tasks'[t].age <= tasks[t].age + 1
  <2>1. ASSUME NEW t \in TaskID
        PROVE  tasks'[t].status = tasks[t].status /\ tasks'[t].age <= tasks[t].age + 1
    <3>1. tasks[t] \in Row /\ tasks[t].age \in Nat
      BY DEF TypeInv, TypeOK, RepoTypeOK, Row
    <3>2. \E a, b : /\ tasks'[t] = [tasks[t] EXCEPT !.wait = a, !.age = b]
                    /\ b \in {tasks[t].age, tasks[t].age + 1}
      BY DEF Elapse, RowsAge
    <3> QED
      BY <3>1, <3>2 DEF Row
  <2> QED
    BY <2>1
<1>3. \A m \in MsgId : idle'[m] <= idle[m] + 1 /\ idle[m] \in Nat /\ idle'[m] \in Nat
  <2>1. \A m \in MsgId : idle[m] \in Nat
    BY TypeFacts
  <2> QED
    BY <2>1 DEF Elapse, EntriesAge
<1>4. \A w \in WorkerID : pc[w] = "run" /\ hb[w] < HBInterval /\ ran[w] < MaxRun =>
        hb'[w] = hb[w] + 1 /\ ran'[w] = ran[w] + 1
  BY DEF Elapse, HandlersRun
<1>5. \A m \in 1..Len(stream) : /\ Age(m)' <= Age(m) + 1 /\ Age(m) \in Nat /\ Age(m)' \in Nat
                                /\ m \in MsgId
  BY <1>1, <1>2, TypeFacts, TypesNext DEF Age
<1>6. HeldInv'
  BY <1>1 DEF TimingInv, HeldInv, UpSubscribed, HeldDelivered, OneHolder, PendingHeld
<1>7. \A m : InFlight(m)' <=> InFlight(m)
  BY <1>1 DEF InFlight, InHand
<1>8. FlightRunning' /\ FlightUnique'
  <2>1. \A m \in 1..Len(stream) : stream[m] \in TaskID
    BY TypeFacts
  <2> QED
    BY <1>1, <1>2, <1>7, <2>1 DEF TimingInv, FlightInv, FlightRunning, FlightUnique
<1>9. OutboxNew'
  <2>1. \A s \in SchedulerID : outbox'[s] = <<>>
    BY <1>1 DEF Quiet
  <2> QED
    BY <2>1 DEF OutboxNew
<1>10. Fresh' = Fresh /\ Fresh \subseteq 1..Len(stream)
  BY <1>1 DEF Fresh
<1>11. /\ \A m : Before(Fresh, m)' = Before(Fresh, m)
       /\ \A w \in WorkerID : \A m : Line(w, m)' = Line(w, m)
       /\ Slack({})' = Slack({})
  BY <1>1, <1>10 DEF Before, Line, Front, TaskOf, Slack
<1>12. FreshYoung'
  <2> SUFFICES ASSUME NEW m \in Fresh PROVE Age(m)' <= Slack(Before(Fresh, m))'
    BY <1>10 DEF FreshYoung
  <2>1. PICK u \in WorkerID : pc[u] # "down"
    BY <1>1 DEF Quiet
  <2>2. pc[u] = "run" /\ ran[u] < MaxRun
    BY <1>1, <2>1, QuietFacts
  <2>3. Age(m) <= Slack(Line(u, m)) + ran[u]
    BY <2>1, <2>2 DEF TimingInv, YoungInv, QueueYoung, Spent
  <2> DEFINE B == Before(chan[u] \cup Fresh, m)
  <2>4. LineTyped(u, m) /\ Line(u, m) = B \cup {TaskOf(u)}
    BY <2>2, LineType DEF Line, Front
  <2>5. TaskOf(u) \in TaskID \ B
    BY <2>2, FrontNotBehind DEF InHand
  <2>6. Slack(Line(u, m)) + MaxRun = Slack(B) /\ Slack(B) <= Slack(Before(Fresh, m)) /\ Slack(B) \in Int
    BY <2>4, <2>5, SlackDrop, SlackMono, SlackType
  <2>7. Slack(Before(Fresh, m))' = Slack(Before(Fresh, m))
    BY <1>11 DEF Slack
  <2>8. Age(m)' <= Age(m) + 1 /\ Age(m) \in Nat /\ Age(m)' \in Nat
    BY <1>5, <1>10
  <2>9. ran[u] \in Nat /\ MaxRun \in Nat
    BY TypeFacts, WorkerAssumption
  <2> QED
    BY <2>2, <2>3, <2>4, <2>6, <2>7, <2>8, <2>9
<1>13. ASSUME NEW w \in WorkerID PROVE QueueYoung(w)'
  <2> SUFFICES ASSUME pc[w] # "down", NEW m \in chan[w] \cup Fresh
               PROVE  /\ Age(m)' <= Slack(Line(w, m))' + Spent(w)'
                      /\ m \in chan[w] => idle'[m] <= Slack(Line(w, m))' + Spent(w)'
    BY <1>1, <1>10 DEF QueueYoung
  <2>1. pc[w] = "run" /\ hb[w] < HBInterval /\ ran[w] < MaxRun
    BY <1>1, QuietFacts
  <2>2. Spent(w) = ran[w] /\ Spent(w)' = ran[w] + 1 /\ ran[w] \in Nat
    BY <1>1, <1>4, <2>1, TypeFacts DEF Spent
  <2>3. Slack(Line(w, m))' = Slack(Line(w, m)) /\ Slack(Line(w, m)) \in Int
    BY <1>11, LineType DEF Slack
  <2>4. /\ Age(m) <= Slack(Line(w, m)) + Spent(w)
        /\ m \in chan[w] => idle[m] <= Slack(Line(w, m)) + Spent(w)
    BY DEF TimingInv, YoungInv, QueueYoung
  <2>5. m \in 1..Len(stream) /\ m \in MsgId
    BY <1>10, TypeFacts
  <2>6. Age(m)' <= Age(m) + 1 /\ Age(m) \in Nat /\ Age(m)' \in Nat
    BY <1>5, <2>5
  <2>7. idle'[m] <= idle[m] + 1 /\ idle[m] \in Nat /\ idle'[m] \in Nat
    BY <1>3, <2>5
  <2> QED
    BY <2>2, <2>3, <2>4, <2>6, <2>7
<1>14. ASSUME NEW w \in WorkerID PROVE JobYoung(w)'
  <2>1. CASE job[w] = 0 /\ pc[w] \in {"down", "idle"}
    BY <1>1, <2>1 DEF JobYoung
  <2>2. CASE pc[w] = "run" /\ hb[w] < HBInterval /\ ran[w] < MaxRun
    <3>1. job[w] \in 1..Len(stream) /\ hb[w] \in Nat /\ ran[w] \in Nat /\ job[w] \in MsgId
      BY <2>2, TypeFacts DEF Busy
    <3>2. Age(job[w]) <= Slack({}) + hb[w] /\ idle[job[w]] <= Slack({}) + ran[w]
      BY <2>2 DEF TimingInv, YoungInv, JobYoung
    <3>3. Age(job[w])' <= Age(job[w]) + 1 /\ Age(job[w]) \in Nat /\ Age(job[w])' \in Nat
      <4>1. PICK m \in 1..Len(stream) : m = job[w]
        BY <3>1
      <4>2. Age(job[w])' = Age(m)' /\ Age(job[w]) = Age(m)
        BY <1>1, <4>1 DEF Age
      <4> QED
        BY <1>5, <4>2
    <3>4. idle'[job[w]] <= idle[job[w]] + 1 /\ idle[job[w]] \in Nat /\ idle'[job[w]] \in Nat
      BY <1>3, <3>1
    <3>5. hb'[w] = hb[w] + 1 /\ ran'[w] = ran[w] + 1 /\ pc'[w] = "run" /\ job'[w] = job[w]
      BY <1>1, <1>4, <2>2
    <3>6. MaxRun \in Nat /\ Slack({}) \in Int
      BY WorkerAssumption, SlackType
    <3>7. Age(job[w])' <= Slack({}) + hb'[w]
      BY <3>1, <3>2, <3>3, <3>5, <3>6
    <3>8. idle'[job[w]] <= Slack({}) + ran'[w] /\ idle'[job[w]] <= Slack({}) + MaxRun
      <4>1. \A i, j, r, k \in Int :
              i <= k + r /\ j <= i + 1 /\ r < MaxRun => j <= k + (r + 1) /\ j <= k + MaxRun
        BY <3>6
      <4>2. PICK i \in Int, j \in Int, r \in Int, k \in Int :
              i = idle[job[w]] /\ j = idle'[job[w]] /\ r = ran[w] /\ k = Slack({})
        BY <3>1, <3>4, <3>6
      <4>3. i <= k + r /\ j <= i + 1 /\ r < MaxRun
        BY <2>2, <3>2, <3>4, <4>2
      <4>4. j <= k + (r + 1) /\ j <= k + MaxRun
        BY <4>1, <4>3
      <4> QED
        BY <3>5, <4>2, <4>4
    <3> QED
      BY <1>11, <3>5, <3>7, <3>8 DEF JobYoung
  <2> QED
    BY <1>1, <2>1, <2>2, QuietFacts
<1> QED
  BY <1>6, <1>8, <1>9, <1>12, <1>13, <1>14 DEF TimingInv, FlightInv, YoungInv

-----------------------------------------------------------------------------
(* The theorems. *)

LEMMA TimingInit == ASSUME Init PROVE TimingInv
<1>1. /\ Len(stream) = 0 /\ \A w \in WorkerID : pc[w] = "down" /\ chan[w] = {} /\ job[w] = 0
      /\ \A m \in MsgId : owner[m] = NoWorker
      /\ \A s \in SchedulerID : Len(outbox[s]) = 0
  BY DEF Init, BrokerInit, WorkerInit, SchedulerInit
<1>2. HeldInv
  BY <1>1 DEF HeldInv, UpSubscribed, HeldDelivered, OneHolder, PendingHeld
<1>3. FlightInv
  BY <1>1 DEF FlightInv, FlightRunning, FlightUnique, OutboxNew
<1>4. YoungInv
  BY <1>1 DEF YoungInv, FreshYoung, QueueYoung, JobYoung, Fresh
<1> QED
  BY <1>2, <1>3, <1>4 DEF TimingInv

LEMMA TimingNext ==
  ASSUME TypeInv, TypeInv', faults = 0 => TimingInv, [Next]_vars,
         Prompt, Operated = {}, TimeoutsSuffice, faults' = 0
  PROVE  TimingInv'
<1>0. faults = 0 /\ ~Fault /\ TimingInv
  BY FaultsGrow DEF Fault
<1>1. CASE ClientStep
  BY <1>0, <1>1, EnqueueKeeps
<1>2. ASSUME NEW s \in SchedulerID, SchedulerStep(s) PROVE TimingInv'
  <2>1. (Tick(s) \/ PublishNext(s)) /\ UNCHANGED workerVars
    BY <1>0, <1>2 DEF SchedulerStep, TickError, PublishError, SchedulerStop
  <2> QED
    BY <1>0, <2>1, TickKeeps, PublishKeeps
<1>3. CASE MonitorStep
  BY <1>0, <1>3, MonitorKeeps
<1>4. ASSUME NEW w \in WorkerID, WorkerStep(w), UNCHANGED outbox PROVE TimingInv'
  <2>1. ~GetMissing(w) /\ ~MarkRejected(w)
    BY <1>0, NothingRefused
  <2>2. \/ Subscribe(w) \/ ReclaimPending(w) \/ ReadNew(w) \/ Receive(w) \/ GetTask(w)
        \/ Heartbeat(w) \/ HandlerOk(w) \/ HandlerError(w) \/ Mark(w) \/ PublishDLQ(w) \/ Ack(w)
    BY <1>0, <1>4, <2>1
       DEF WorkerStep, ReclaimError, ReadError, HeartbeatError, MarkReplyLost,
           PublishDLQError, CallError, WorkerStop
  <2> QED
    BY <1>0, <1>4, <2>2, SubscribeKeeps, ReclaimKeeps, ReadKeeps, ReceiveKeeps, ProcessKeeps,
       AckKeeps
<1>5. CASE Elapse
  BY <1>0, <1>5, ElapseKeeps
<1>6. CASE UNCHANGED vars
  <2>1. \A m \in 1..Len(stream) : InFlight(m) => tasks'[stream[m]] = tasks[stream[m]]
    BY <1>6 DEF vars
  <2>2. OutboxNew'
    BY <1>0, <1>6, OutboxKeeps DEF vars
  <2> QED
    BY <1>0, <1>6, <2>1, <2>2, RowsKeep DEF vars
<1> QED
  BY <1>1, <1>2, <1>3, <1>4, <1>5, <1>6 DEF Next

LEMMA TimingAlways ==
  ASSUME Prompt, Operated = {}, TimeoutsSuffice
  PROVE  Spec => [](TypeInv /\ (faults = 0 => TimingInv))
<1> DEFINE Inv == TypeInv /\ (faults = 0 => TimingInv)
<1>1. Init => Inv
  BY TypeInvInit, TimingInit
<1>2. Inv /\ [Next]_vars => Inv'
  <2> SUFFICES ASSUME Inv, [Next]_vars PROVE Inv'
    OBVIOUS
  <2>1. TypeInv'
    BY TypeInvNext
  <2>2. faults' = 0 => TimingInv'
    BY <2>1, TimingNext
  <2> QED
    BY <2>1, <2>2
<1> QED
  BY <1>1, <1>2, PTL DEF Spec

(***************************************************************************)
(* "updated_at is stale - that means the worker died" (heartbeat.go:12-13):*)
(* while nothing fails, a task the monitor resets is in the hands of no    *)
(* live worker, if HEARTBEAT_TIMEOUT allows for the tasks a delivery may   *)
(* wait behind and for the period of the heartbeat (TimeoutsSuffice).      *)
(***************************************************************************)
THEOREM MonitorResetsDeadOnly ==
  ASSUME Prompt, Operated = {}, TimeoutsSuffice
  PROVE  Spec => [](faults = 0 => StuckMeansDead)
<1>1. TypeInv /\ (faults = 0 => TimingInv) => (faults = 0 => StuckMeansDead)
  <2> SUFFICES ASSUME TypeInv, TimingInv, NEW t \in Stuck, NEW w \in WorkerID, Holds(w, t)
               PROVE  FALSE
    BY DEF StuckMeansDead
  <2>1. PICK m \in 1..Len(stream) : stream[m] = t /\ InFlight(m)
    <3>1. CASE \E m \in chan[w] : stream[m] = t
      BY <3>1, TypeFacts DEF InFlight
    <3>2. CASE job[w] # 0 /\ TaskOf(w) = t /\ pc[w] \notin {"dlq", "ack"}
      <4>1. pc[w] \in Busy /\ job[w] \in 1..Len(stream)
        BY <3>2, TypeFacts DEF TimingInv, HeldInv, UpSubscribed
      <4> QED
        BY <3>2, <4>1 DEF InFlight, InHand, TaskOf, Busy
    <3> QED
      BY <3>1, <3>2 DEF Holds
  <2> QED
    BY <2>1, FlightNotStuck
<1> QED
  BY <1>1, TimingAlways, PTL

(***************************************************************************)
(* No two workers execute one task at the same time ("every task is        *)
(* processed exactly once", e2e_test.go:306), while nothing fails and the  *)
(* timeouts suffice: neither the monitor nor XAUTOCLAIM nor the order of   *)
(* delivery gives a task that is being executed to a second worker.        *)
(***************************************************************************)
THEOREM ExecutionsExclusive ==
  ASSUME Prompt, Operated = {}, TimeoutsSuffice
  PROVE  Spec => [](faults = 0 => ExclusiveExecution)
<1>1. TypeInv /\ (faults = 0 => TimingInv) => (faults = 0 => ExclusiveExecution)
  <2> SUFFICES ASSUME TypeInv, TimingInv, NEW v \in WorkerID, NEW w \in WorkerID,
                      v # w, pc[v] = "run", pc[w] = "run", TaskOf(v) = TaskOf(w)
               PROVE  FALSE
    BY DEF ExclusiveExecution
  <2> QED
    BY HandsDiffer DEF InHand
<1> QED
  BY <1>1, TimingAlways, PTL
=============================================================================
