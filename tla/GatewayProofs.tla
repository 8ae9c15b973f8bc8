---------------------------- MODULE GatewayProofs ----------------------------
(***************************************************************************)
(* Proofs about ApiGateway for all sets of tasks, keys, requests, streams  *)
(* and handlers, any number of failures and any values of the durations.   *)
(***************************************************************************)
EXTENDS ApiGateway, TLAPS

-----------------------------------------------------------------------------
(* The service: what a handler knows of the store.                         *)

Cmd == [type : TaskType, priority : 0..PriorityMax, retry_limit : Int, wait : Nat,
        key : Key \cup {NoKey}]

Call == [cmd : Cmd, deps : SUBSET TaskID]

ServiceTypeOK ==
  /\ RepoTypeOK
  /\ FaultsTypeOK
  /\ call \in [Request -> Call \cup {NoCall}]
  /\ request \in [Request -> Nat]
  /\ asked \in [TaskID -> Nat]

\* A request between its lookup and its insert has a key and the converted priority.
CallOK(c) ==
  call[c] # NoCall =>
    /\ call[c] \in Call
    /\ call[c].cmd.key # NoKey
    /\ call[c].cmd.priority = Priority(request[c])

\* A row that is not there has no key.
AbsentHasNoKey == \A t \in TaskID : tasks[t].status = "absent" => tasks[t].key = NoKey

\* The unique constraint on idempotency_key.
KeysUnique ==
  \A t, u \in TaskID : tasks[t].key # NoKey /\ tasks[t].key = tasks[u].key => t = u

\* What a client was told of a key is still in the store.
AnswersStored ==
  \A a \in answers :
    a.task # Conflict => a.task \in TaskID /\ a.key # NoKey /\ tasks[a.task].key = a.key

ServiceInv ==
  /\ ServiceTypeOK
  /\ \A c \in Request : CallOK(c)
  /\ AbsentHasNoKey
  /\ KeysUnique
  /\ AnswersStored
  /\ PriorityAsAsked

\* The keys, the priorities and the asked priorities of the rows stay, rows stay there.
RowsKept ==
  /\ tasks' \in [TaskID -> Row]
  /\ \A t \in TaskID :
       /\ tasks'[t].key = tasks[t].key
       /\ tasks'[t].priority = tasks[t].priority
       /\ Exists(t)' = Exists(t)
       /\ tasks'[t].status = "absent" <=> tasks[t].status = "absent"

LEMMA CmdType ==
  ASSUME NEW req \in EnqueueTaskRequest, Valid(req)
  PROVE  /\ ToCmd(req) \in Cmd
         /\ req.priority \in Nat
         /\ ToCmd(req).key = req.key
         /\ ToCmd(req).priority = Priority(req.priority)
<1>1. /\ req.type \in TaskType /\ req.retry_limit \in Int /\ req.wait \in Nat
      /\ req.key \in Key \cup {NoKey} /\ req.priority \in Nat
  BY TaskServiceAssumption DEF Valid
<1>2. Priority(req.priority) \in 0..PriorityMax
  BY DEF Valid
<1> QED
  BY <1>1, <1>2 DEF ToCmd, Cmd

\* The conversion to a byte loses nothing of a value that fits one.
LEMMA PriorityFits == \A p \in Nat : p < 256 => Priority(p) = p
BY DEF Priority

\* UpdateTask touches neither keys nor priorities.
LEMMA UpdateKeeps ==
  ASSUME RepoTypeOK, NEW t \in TaskID, NEW next, NEW row \in Row, UpdateTask(t, next, row),
         row.key = tasks[t].key, row.priority = tasks[t].priority
  PROVE  RepoTypeOK' /\ RowsKept
<1>1. tasks[t].status \in Status /\ next \in Status
  BY DEF UpdateTask, CanTransition, allowedTransitions, Status
<1>2. [row EXCEPT !.status = next, !.age = 0] \in Row
  BY <1>1 DEF Row
<1>3. tasks' = [tasks EXCEPT ![t] = [row EXCEPT !.status = next, !.age = 0]] /\ deps' = deps
  BY DEF UpdateTask
<1>4. RepoTypeOK'
  BY <1>2, <1>3 DEF RepoTypeOK
<1>5. ASSUME NEW u \in TaskID
      PROVE  /\ tasks'[u].key = tasks[u].key
             /\ tasks'[u].priority = tasks[u].priority
             /\ Exists(u)' = Exists(u)
             /\ tasks'[u].status = "absent" <=> tasks[u].status = "absent"
  <2>1. CASE u = t
    <3>1. /\ tasks'[u].key = row.key /\ tasks'[u].priority = row.priority
          /\ tasks'[u].status = next
      BY <1>3, <2>1 DEF RepoTypeOK, Row
    <3> QED
      BY <1>1, <2>1, <3>1 DEF Exists, Status
  <2>2. CASE u # t
    BY <1>3, <2>2 DEF RepoTypeOK, Exists
  <2> QED
    BY <2>1, <2>2
<1> QED
  BY <1>4, <1>5 DEF RowsKept, RepoTypeOK

\* Create gives an unused row the key and the priority of the command.
LEMMA CreateGives ==
  ASSUME RepoTypeOK, NEW t \in TaskID, NEW cmd \in Cmd, NEW D \in SUBSET TaskID,
         Create(t, cmd, D)
  PROVE  /\ RepoTypeOK'
         /\ tasks[t].status = "absent"
         /\ cmd.key = NoKey \/ \A u \in TaskID : tasks[u].key # cmd.key
         /\ tasks'[t].status = "pending"
         /\ tasks'[t].key = cmd.key
         /\ tasks'[t].priority = cmd.priority
         /\ \A u \in TaskID \ {t} : tasks'[u] = tasks[u]
<1> DEFINE row == [status |-> "pending", type |-> cmd.type, priority |-> cmd.priority,
                   retry_limit |-> cmd.retry_limit, attempt_count |-> 0, wait |-> cmd.wait,
                   age |-> 0, worker_id |-> NoWorker, key |-> cmd.key]
<1>1. row \in Row
  BY DEF Row, Cmd, Status
<1>2. tasks' = [tasks EXCEPT ![t] = row] /\ deps' = [deps EXCEPT ![t] = D]
  BY DEF Create
<1>3. row.status = "pending" /\ row.key = cmd.key /\ row.priority = cmd.priority
  OBVIOUS
<1>4. Creatable(t, cmd, D)
  BY DEF Create
<1> HIDE DEF row
<1>5. tasks'[t] = row /\ \A u \in TaskID \ {t} : tasks'[u] = tasks[u]
  BY <1>2 DEF RepoTypeOK
<1>6. RepoTypeOK'
  BY <1>1, <1>2 DEF RepoTypeOK
<1> QED
  BY <1>3, <1>4, <1>5, <1>6 DEF Creatable

-----------------------------------------------------------------------------
(* Every step of the gateway keeps ServiceInv. *)

\* A step that keeps the rows and touches nothing else of the service.
LEMMA KeepRows ==
  ASSUME ServiceInv, RepoTypeOK', RowsKept, FaultsTypeOK',
         UNCHANGED <<call, answers, request, asked>>
  PROVE  ServiceInv'
<1> USE DEF ServiceInv
<1>1. ServiceTypeOK'
  BY DEF ServiceTypeOK
<1>2. \A c \in Request : CallOK(c)'
  BY DEF CallOK
<1>3. AbsentHasNoKey' /\ KeysUnique' /\ AnswersStored'
  BY DEF RowsKept, AbsentHasNoKey, KeysUnique, AnswersStored
<1>4. PriorityAsAsked'
  BY DEF RowsKept, PriorityAsAsked, GetTask, taskToProto
<1> QED
  BY <1>1, <1>2, <1>3, <1>4

\* A new row whose key nobody has, for a client who asked for priority p.
LEMMA KeepAfterCreate ==
  ASSUME ServiceInv, NEW t \in TaskID, NEW cmd \in Cmd, NEW D \in SUBSET TaskID,
         Create(t, cmd, D), NEW p \in Nat, cmd.priority = Priority(p), AskedFor(p)
  PROVE  /\ RepoTypeOK' /\ AbsentHasNoKey' /\ KeysUnique' /\ PriorityAsAsked'
         /\ asked' \in [TaskID -> Nat]
         /\ \A u \in TaskID : tasks[u].key # NoKey => tasks'[u].key = tasks[u].key
         /\ tasks'[t].key = cmd.key
<1> USE DEF ServiceInv, ServiceTypeOK
<1>1. /\ RepoTypeOK'
      /\ tasks[t].status = "absent"
      /\ cmd.key = NoKey \/ \A u \in TaskID : tasks[u].key # cmd.key
      /\ tasks'[t].status = "pending"
      /\ tasks'[t].key = cmd.key
      /\ tasks'[t].priority = cmd.priority
      /\ \A u \in TaskID \ {t} : tasks'[u] = tasks[u]
  BY CreateGives
<1>2. tasks[t].key = NoKey
  BY <1>1 DEF AbsentHasNoKey
<1>3. AbsentHasNoKey'
  BY <1>1 DEF AbsentHasNoKey
<1>4. KeysUnique'
  <2> SUFFICES ASSUME NEW u \in TaskID, NEW v \in TaskID,
                      tasks'[u].key # NoKey, tasks'[u].key = tasks'[v].key
               PROVE  u = v
    BY DEF KeysUnique
  <2> QED
    BY <1>1, <1>2 DEF KeysUnique
<1>5. asked' = [u \in TaskID |-> IF tasks'[u].status # tasks[u].status THEN p ELSE asked[u]]
  BY DEF AskedFor
<1>6. PriorityAsAsked'
  <2> SUFFICES ASSUME NEW u \in TaskID, Exists(u)', asked'[u] < 256
               PROVE  tasks'[u].priority = asked'[u]
    BY DEF PriorityAsAsked, GetTask, taskToProto
  <2>1. CASE u = t
    BY <1>1, <1>5, <2>1, PriorityFits
  <2>2. CASE u # t
    BY <1>1, <1>5, <2>2 DEF PriorityAsAsked, GetTask, taskToProto, Exists
  <2> QED
    BY <2>1, <2>2
<1> QED
  BY <1>1, <1>2, <1>3, <1>4, <1>5, <1>6

LEMMA FaultKeepsType == ASSUME FaultsTypeOK, Fault PROVE FaultsTypeOK'
BY FaultsAssumption DEF FaultsTypeOK, Fault

LEMMA KeepEnqueue ==
  ASSUME ServiceInv, NEW req \in EnqueueTaskRequest, NEW D \in SUBSET TaskID,
         EnqueueTask(req, D)
  PROVE  ServiceInv'
<1>1. PICK t \in TaskID : Create(t, ToCmd(req), D)
  BY DEF EnqueueTask, Enqueue
<1>2. /\ Valid(req) /\ AskedFor(req.priority)
      /\ UNCHANGED <<faults, call, answers, request, watch>>
  BY DEF EnqueueTask
<1>3. /\ ToCmd(req) \in Cmd /\ req.priority \in Nat
      /\ ToCmd(req).priority = Priority(req.priority)
  BY <1>2, CmdType
<1>4. /\ RepoTypeOK' /\ AbsentHasNoKey' /\ KeysUnique' /\ PriorityAsAsked'
      /\ asked' \in [TaskID -> Nat]
      /\ \A u \in TaskID : tasks[u].key # NoKey => tasks'[u].key = tasks[u].key
  BY <1>1, <1>2, <1>3, KeepAfterCreate
<1>5. ServiceTypeOK' /\ \A c \in Request : CallOK(c)'
  BY <1>2, <1>4 DEF ServiceInv, ServiceTypeOK, FaultsTypeOK, CallOK
<1>6. AnswersStored'
  BY <1>2, <1>4 DEF ServiceInv, AnswersStored
<1> QED
  BY <1>4, <1>5, <1>6 DEF ServiceInv

LEMMA KeepLookup ==
  ASSUME ServiceInv, NEW req \in EnqueueTaskRequest, NEW D \in SUBSET TaskID,
         NEW c \in Request, EnqueueLookup(c, req, D)
  PROVE  ServiceInv'
<1> USE DEF ServiceInv
<1>1. Valid(req) /\ UNCHANGED <<asked, watch>>
  BY DEF EnqueueLookup
<1>2. ToCmd(req) \in Cmd /\ req.priority \in Nat
      /\ ToCmd(req).priority = Priority(req.priority)
  BY <1>1, CmdType
<1>3. UNCHANGED <<tasks, deps, faults>>
  BY DEF EnqueueLookup, LookupHit, LookupMiss, repoVars
<1>4. RepoTypeOK' /\ FaultsTypeOK' /\ AbsentHasNoKey' /\ KeysUnique'
  BY <1>3 DEF ServiceTypeOK, RepoTypeOK, FaultsTypeOK, AbsentHasNoKey, KeysUnique
<1>5. PriorityAsAsked'
  BY <1>1, <1>3 DEF PriorityAsAsked, GetTask, taskToProto, Exists
<1>6. CASE LookupHit(ToCmd(req)) /\ UNCHANGED request
  <2>1. PICK t \in TaskID : /\ tasks[t].key = ToCmd(req).key
                            /\ answers' = answers \cup {[key |-> ToCmd(req).key, task |-> t]}
    BY <1>6 DEF LookupHit, Answer
  <2>2. ToCmd(req).key # NoKey /\ UNCHANGED call
    BY <1>6 DEF LookupHit
  <2>3. AnswersStored'
    BY <1>3, <2>1, <2>2 DEF AnswersStored
  <2> QED
    BY <1>1, <1>4, <1>5, <1>6, <2>2, <2>3 DEF ServiceTypeOK, CallOK
<1>7. CASE /\ LookupMiss(c, ToCmd(req), D)
           /\ request' = [request EXCEPT ![c] = req.priority]
  <2>1. /\ call' = [call EXCEPT ![c] = [cmd |-> ToCmd(req), deps |-> D]]
        /\ ToCmd(req).key # NoKey /\ UNCHANGED answers
    BY <1>7 DEF LookupMiss
  <2>2. [cmd |-> ToCmd(req), deps |-> D] \in Call
    BY <1>2 DEF Call
  <2>3. ServiceTypeOK'
    BY <1>1, <1>2, <1>4, <1>7, <2>1, <2>2 DEF ServiceTypeOK
  <2>4. \A b \in Request : CallOK(b)'
    <3> SUFFICES ASSUME NEW b \in Request PROVE CallOK(b)'
      OBVIOUS
    <3>1. CASE b = c
      BY <1>2, <1>7, <2>1, <2>2, <3>1 DEF CallOK, ServiceTypeOK
    <3>2. CASE b # c
      BY <1>7, <2>1, <3>2 DEF CallOK, ServiceTypeOK
    <3> QED
      BY <3>1, <3>2
  <2>5. AnswersStored'
    BY <1>3, <2>1 DEF AnswersStored
  <2> QED
    BY <1>4, <1>5, <2>3, <2>4, <2>5
<1> QED
  BY <1>6, <1>7 DEF EnqueueLookup

LEMMA KeepCreate ==
  ASSUME ServiceInv, NEW c \in Request, EnqueueCreate(c)
  PROVE  ServiceInv'
<1> USE DEF ServiceInv
<1>1. /\ call[c] # NoCall
      /\ call' = [call EXCEPT ![c] = NoCall]
      /\ AskedFor(request[c])
      /\ request' = [request EXCEPT ![c] = 0]
      /\ UNCHANGED watch
  BY DEF EnqueueCreate, FinishCreate, AnswerLost
<1>2. FaultsTypeOK'
  BY FaultKeepsType DEF EnqueueCreate, FinishCreate, AnswerLost, ServiceTypeOK, FaultsTypeOK
<1> DEFINE cmd == call[c].cmd
<1>3. /\ cmd \in Cmd /\ call[c].deps \in SUBSET TaskID /\ cmd.key # NoKey
      /\ cmd.priority = Priority(request[c]) /\ request[c] \in Nat
  BY <1>1 DEF CallOK, Call, ServiceTypeOK
<1>4. call' \in [Request -> Call \cup {NoCall}] /\ request' \in [Request -> Nat]
  BY <1>1 DEF ServiceTypeOK
<1>5. \A b \in Request : CallOK(b)'
  BY <1>1 DEF CallOK, ServiceTypeOK
<1> HIDE DEF cmd
<1>6. ASSUME NEW t \in TaskID, Create(t, cmd, call[c].deps),
             answers' \subseteq answers \cup {[key |-> cmd.key, task |-> t]}
      PROVE  ServiceInv'
  <2>1. /\ RepoTypeOK' /\ AbsentHasNoKey' /\ KeysUnique' /\ PriorityAsAsked'
        /\ asked' \in [TaskID -> Nat]
        /\ \A u \in TaskID : tasks[u].key # NoKey => tasks'[u].key = tasks[u].key
        /\ tasks'[t].key = cmd.key
    BY <1>1, <1>3, <1>6, KeepAfterCreate
  <2>2. AnswersStored'
    BY <1>3, <1>6, <2>1 DEF AnswersStored
  <2> QED
    BY <1>2, <1>4, <1>5, <2>1, <2>2 DEF ServiceTypeOK
<1>7. ASSUME UNCHANGED repoVars,
             answers' \subseteq answers \cup {[key |-> cmd.key, task |-> Conflict]}
      PROVE  ServiceInv'
  <2>1. asked' = asked
    BY <1>1, <1>7 DEF AskedFor, repoVars, ServiceTypeOK
  <2>2. RepoTypeOK' /\ AbsentHasNoKey' /\ KeysUnique'
    BY <1>7 DEF repoVars, ServiceTypeOK, RepoTypeOK, AbsentHasNoKey, KeysUnique
  <2>3. PriorityAsAsked'
    BY <1>7, <2>1 DEF repoVars, PriorityAsAsked, GetTask, taskToProto, Exists
  <2>4. AnswersStored'
    BY <1>7 DEF repoVars, AnswersStored
  <2> QED
    BY <1>2, <1>4, <1>5, <2>1, <2>2, <2>3, <2>4 DEF ServiceTypeOK
<1>8. CASE FinishCreate(c)
  BY <1>6, <1>7, <1>8 DEF FinishCreate, Answer, cmd
<1>9. CASE AnswerLost(c)
  BY <1>6, <1>7, <1>9 DEF AnswerLost, cmd
<1> QED
  BY <1>8, <1>9 DEF EnqueueCreate

LEMMA KeepNewRequest ==
  ASSUME ServiceInv, NewRequest
  PROVE  ServiceInv'
<1> USE DEF ServiceInv
<1>1. ASSUME NEW t \in TaskID, CancelTask(t) PROVE ServiceInv'
  <2>1. RepoTypeOK' /\ RowsKept
    BY <1>1, UpdateKeeps DEF CancelTask, Cancel, ServiceTypeOK, RepoTypeOK
  <2> QED
    BY <1>1, <2>1, KeepRows DEF CancelTask, ServiceTypeOK, FaultsTypeOK
<1>2. ASSUME NEW t \in TaskID, RepublishTask(t) PROVE ServiceInv'
  <2>1. LET row == [tasks[t] EXCEPT !.attempt_count = 0]
        IN  row \in Row /\ row.key = tasks[t].key /\ row.priority = tasks[t].priority
    BY DEF ServiceTypeOK, RepoTypeOK, Row
  <2>2. RepoTypeOK' /\ RowsKept
    BY <1>2, <2>1, UpdateKeeps DEF RepublishTask, Republish, ServiceTypeOK
  <2> QED
    BY <1>2, <2>2, KeepRows DEF RepublishTask, ServiceTypeOK, FaultsTypeOK
<1>3. ASSUME NEW u \in Stream, NEW t \in TaskID, StreamTaskUpdates(u, t) PROVE ServiceInv'
  <2>1. RepoTypeOK' /\ RowsKept /\ FaultsTypeOK'
    BY <1>3 DEF StreamTaskUpdates, enqueueVars, ServiceTypeOK, RepoTypeOK, RowsKept,
                FaultsTypeOK, Exists
  <2> QED
    BY <1>3, <2>1, KeepRows DEF StreamTaskUpdates, enqueueVars
<1> QED
  BY <1>1, <1>2, <1>3, KeepEnqueue, KeepLookup DEF NewRequest

\* A step that leaves the rows alone.
LEMMA KeepUnchanged ==
  ASSUME ServiceInv, FaultsTypeOK', UNCHANGED <<repoVars, call, answers, request, asked>>
  PROVE  ServiceInv'
<1>1. RepoTypeOK' /\ RowsKept
  BY DEF repoVars, ServiceInv, ServiceTypeOK, RepoTypeOK, RowsKept, Exists
<1> QED
  BY <1>1, KeepRows

LEMMA KeepProgress ==
  ASSUME ServiceInv, NEW t \in TaskID, NEW next, Progress(t, next)
  PROVE  ServiceInv'
<1>1. RepoTypeOK' /\ RowsKept
  BY UpdateKeeps DEF Progress, ServiceInv, ServiceTypeOK, RepoTypeOK
<1> QED
  BY <1>1, KeepRows DEF Progress, ServiceInv, ServiceTypeOK, FaultsTypeOK

LEMMA ProcessFaults ==
  ASSUME FaultsTypeOK, NEW d, ProcessStep(d) \/ Signal
  PROVE  FaultsTypeOK'
BY FaultKeepsType
   DEF ProcessStep, StartStep, StartFails, Launch, MemberStarts, TickerPanics, MemberFails,
       MemberReturns, Listen, Serve, GracefulStop, ServeReturns, Wait, Close, Exit, Signal,
       FaultsTypeOK

LEMMA ServiceInvInit == GatewayInit => ServiceInv
<1> SUFFICES ASSUME GatewayInit PROVE ServiceInv
  OBVIOUS
<1>1. tasks = [t \in TaskID |-> NoRow] /\ deps = [t \in TaskID |-> {}]
  BY DEF GatewayInit, ServiceInit, EnqueueInit, RepoInit
<1>2. faults = 0 /\ call = [c \in Request |-> NoCall] /\ answers = {}
  BY DEF GatewayInit, ServiceInit, EnqueueInit, FaultsInit
<1>3. request = [c \in Request |-> 0] /\ asked = [t \in TaskID |-> 0]
  BY DEF GatewayInit, ServiceInit
<1>4. NoRow \in Row /\ NoRow.status = "absent" /\ NoRow.key = NoKey
  BY DEF NoRow, Row, TaskType, PriorityMax
<1>5. ServiceTypeOK
  BY <1>1, <1>2, <1>3, <1>4, FaultsAssumption DEF ServiceTypeOK, RepoTypeOK, FaultsTypeOK
<1>6. \A c \in Request : CallOK(c)
  BY <1>2 DEF CallOK
<1>7. AbsentHasNoKey /\ KeysUnique /\ AnswersStored /\ PriorityAsAsked
  BY <1>1, <1>2, <1>4 DEF AbsentHasNoKey, KeysUnique, AnswersStored, PriorityAsAsked, Exists,
                          Status
<1> QED
  BY <1>5, <1>6, <1>7 DEF ServiceInv

LEMMA ServiceInvNext == ServiceInv /\ [GatewayNext]_gatewayVars => ServiceInv'
<1> SUFFICES ASSUME ServiceInv, [GatewayNext]_gatewayVars PROVE ServiceInv'
  OBVIOUS
<1>1. CASE (ProcessStep(Drained) \/ Signal) /\ UNCHANGED serviceState
  <2>1. FaultsTypeOK'
    BY <1>1, ProcessFaults DEF ServiceInv, ServiceTypeOK
  <2> QED
    BY <1>1, <2>1, KeepUnchanged DEF serviceState
<1>2. CASE NewRequest
  BY <1>2, KeepNewRequest
<1>3. ASSUME NEW u \in Stream, StreamTick(u) \/ StreamBroken(u) PROVE ServiceInv'
  <2>1. UNCHANGED <<repoVars, faults, call, answers, request, asked>>
    BY <1>3 DEF StreamTick, StreamBroken, enqueueVars, repoVars
  <2> QED
    BY <2>1, KeepUnchanged DEF ServiceInv, ServiceTypeOK, FaultsTypeOK
<1>4. CASE HandlerStep
  BY <1>3, <1>4, KeepCreate DEF HandlerStep
<1>5. CASE \E t \in TaskID, next \in Status : Progress(t, next)
  BY <1>5, KeepProgress
<1>6. CASE UNCHANGED gatewayVars
  <2>1. UNCHANGED <<repoVars, faults, call, answers, request, asked>>
    BY <1>6 DEF gatewayVars, serviceVars, enqueueVars, repoVars
  <2> QED
    BY <2>1, KeepUnchanged DEF ServiceInv, ServiceTypeOK, FaultsTypeOK
<1> QED
  BY <1>1, <1>2, <1>3, <1>4, <1>5, <1>6 DEF GatewayNext

(***************************************************************************)
(* For any number of handlers, keys and lost answers, the tasks clients    *)
(* are told of for one idempotency key are one task: lookup and insert are *)
(* two transactions (enqueue.go:84, 117), and what keeps the promise is    *)
(* the unique constraint, which an answered key can never leave.           *)
(***************************************************************************)
THEOREM KeyNamesOneTask == GatewaySpec => []SameKeySameTask
<1>1. ServiceInv => SameKeySameTask
  BY DEF ServiceInv, KeysUnique, AnswersStored, SameKeySameTask
<1> QED
  BY <1>1, ServiceInvInit, ServiceInvNext, PTL DEF GatewaySpec

(***************************************************************************)
(* The priority of an accepted request that fits a byte reaches the store  *)
(* and the clients unchanged (server.go:75-81, mapper.go:18), for requests *)
(* with a key also through the gap between lookup and insert.              *)
(***************************************************************************)
THEOREM PriorityReported == GatewaySpec => []PriorityAsAsked
<1>1. ServiceInv => PriorityAsAsked
  BY DEF ServiceInv
<1> QED
  BY <1>1, ServiceInvInit, ServiceInvNext, PTL DEF GatewaySpec

-----------------------------------------------------------------------------
(* The process: start, shutdown and exit code, for all three binaries and   *)
(* all environments.                                                        *)

\* The calls of the start-up.
StartCall == Resource \cup {"migrate", "ping"}

MemberState == {"new", "listening", "up", "stopping", "nil", "error"}

ProcessTypeOK ==
  /\ binary \in Binary
  /\ phase \in {"start", "run", "close", "exited"}
  /\ todo \in Seq(StartCall)
  /\ open \in Seq(StartCall)
  /\ member \in [Members(binary) -> MemberState]
  /\ err \in {"none", "canceled", "other"}
  /\ signalled \in BOOLEAN
  /\ code \in {-1, 0, 1, 2}

Has(seq, r) == \E i \in 1..Len(seq) : seq[i] = r

\* The pool is open or yet to be opened until the members have ended, and the
\* members run with nothing left to open.
PoolKept ==
  /\ phase \in {"start", "run"} => Has(todo, "pool") \/ Has(open, "pool")
  /\ phase = "run" => todo = <<>>

\* Handlers run only in a gateway whose server has not returned.
ServerBusy ==
  ~Drained => binary = "apigateway" /\ phase = "run" /\ member["grpc"] \in {"up", "stopping"}

\* Every error has a cause, and every member that ends or stops has one too.
CauseKnown ==
  /\ err = "canceled" => signalled
  /\ err = "other" => faults > 0 \/ ServerStoppedEarly
  /\ \A m \in Members(binary) : member[m] \in {"stopping", "nil", "error"} => Cancelled
  /\ phase = "close" => Cancelled
  /\ phase # "exited" => code = -1

ProcessInv ==
  ProcessTypeOK /\ PoolKept /\ ServerBusy /\ CauseKnown /\ ExitCodeTellsCause

-----------------------------------------------------------------------------
(* Lemmas about the definitions of Process. *)

LEMMA MembersFacts ==
  ASSUME NEW b \in Binary
  PROVE  /\ "metrics" \in Members(b)
         /\ b = "apigateway" <=> "grpc" \in Members(b)
         /\ \A m \in Members(b) : Ticks(m) => b = "scheduler"
BY DEF Binary, Members, Ticks

LEMMA StartUpFacts ==
  ASSUME NEW b \in Binary
  PROVE  StartUp(b) \in Seq(StartCall) /\ Has(StartUp(b), "pool")
<1>1. CASE b = "apigateway"
  <2>1. StartUp(b) = <<"trace", "migrate", "pool", "ping">>
    BY <1>1 DEF StartUp
  <2>2. Len(StartUp(b)) = 4 /\ StartUp(b)[3] = "pool" /\ StartUp(b) \in Seq(StartCall)
    BY <2>1 DEF StartCall, Resource
  <2> QED
    BY <2>2 DEF Has
<1>2. CASE b # "apigateway"
  <2>1. StartUp(b) = <<"trace", "pool", "ping", "redis", "ping">>
    BY <1>2 DEF StartUp
  <2>2. Len(StartUp(b)) = 5 /\ StartUp(b)[2] = "pool" /\ StartUp(b) \in Seq(StartCall)
    BY <2>1 DEF StartCall, Resource
  <2> QED
    BY <2>2 DEF Has
<1> QED
  BY <1>1, <1>2

\* Opening a resource moves it from the list of what is left to the open ones.
LEMMA StartStepPool ==
  ASSUME ProcessTypeOK, PoolKept, StartStep
  PROVE  /\ todo' \in Seq(StartCall) /\ open' \in Seq(StartCall)
         /\ Has(todo', "pool") \/ Has(open', "pool")
<1>1. /\ todo # <<>> /\ todo' = Tail(todo) /\ phase = "start"
      /\ open' = IF Head(todo) \in Resource THEN Append(open, Head(todo)) ELSE open
  BY DEF StartStep
<1>2. todo \in Seq(StartCall) /\ open \in Seq(StartCall) /\ Len(todo) \in Nat \ {0}
  BY <1>1 DEF ProcessTypeOK
<1>3. Head(todo) = todo[1] /\ Head(todo) \in StartCall /\ Tail(todo) \in Seq(StartCall)
  BY <1>1, <1>2
<1>4. /\ Len(Tail(todo)) = Len(todo) - 1
      /\ \A i \in 1..Len(todo) - 1 : Tail(todo)[i] = todo[i + 1]
  BY <1>1, <1>2
<1>5. open' \in Seq(StartCall)
  BY <1>1, <1>2, <1>3
<1>6. CASE Has(open, "pool")
  <2>1. PICK i \in 1..Len(open) : open[i] = "pool"
    BY <1>6 DEF Has
  <2>2. i \in 1..Len(open') /\ open'[i] = "pool"
    BY <1>1, <1>2, <1>3, <2>1
  <2> QED
    BY <1>1, <1>3, <1>5, <2>2 DEF Has
<1>7. CASE Has(todo, "pool")
  <2>1. PICK i \in 1..Len(todo) : todo[i] = "pool"
    BY <1>7 DEF Has
  <2>2. CASE i = 1
    <3>1. open' = Append(open, "pool")
      BY <1>1, <1>3, <2>1, <2>2 DEF Resource
    <3>2. Len(open') \in 1..Len(open') /\ open'[Len(open')] = "pool"
      BY <1>2, <3>1
    <3> QED
      BY <1>1, <1>3, <1>5, <3>2 DEF Has
  <2>3. CASE i # 1
    <3>1. i - 1 \in 1..Len(todo') /\ todo'[i - 1] = "pool"
      BY <1>1, <1>2, <1>4, <2>1, <2>3
    <3> QED
      BY <1>1, <1>3, <1>5, <3>1 DEF Has
  <2> QED
    BY <2>2, <2>3
<1> QED
  BY <1>1, <1>6, <1>7 DEF PoolKept

\* The errgroup keeps the first error, and a cause stays a cause.
LEMMA FirstErrorFacts ==
  ASSUME ProcessTypeOK, NEW e \in {"canceled", "other"}, FirstError(e)
  PROVE  /\ err' \in {"canceled", "other"}
         /\ err # "none" => err' = err
         /\ err = "none" => err' = e
BY DEF ProcessTypeOK, FirstError

-----------------------------------------------------------------------------
(* Every step of the gateway keeps ProcessInv. *)

\* A member of the errgroup moves on: the first error, if there is one now, has a
\* cause, a member that stops or ends has one, and a busy server goes on.
LEMMA MemberMoves ==
  ASSUME ProcessInv, faults \in Nat, faults' \in Nat, faults' >= faults,
         UNCHANGED serviceState,
         NEW m, NEW from, NEW to \in MemberState, MemberStep(m, from, to), from # "error",
         err' \in {"none", "canceled", "other"},
         err # "none" => err' = err,
         err' = "canceled" => signalled,
         err' = "other" => \/ faults' > 0 \/ err = "other"
                           \/ signalled /\ m = "grpc" /\ to = "error",
         to \in {"stopping", "nil", "error"} => signalled \/ err' # "none",
         m = "grpc" /\ ~Drained => to \in {"up", "stopping"}
  PROVE  ProcessInv'
<1> USE DEF ProcessInv
<1>1. /\ phase = "run" /\ m \in Members(binary) /\ member' = [member EXCEPT ![m] = to]
      /\ UNCHANGED <<binary, env, phase, todo, open, signalled, code>>
  BY DEF MemberStep, ProcessTypeOK
<1>2. Drained' = Drained
  BY DEF serviceState, Drained
<1>3. ProcessTypeOK'
  BY <1>1 DEF ProcessTypeOK
<1>4. PoolKept'
  BY <1>1 DEF PoolKept
<1>5. ServerBusy'
  BY <1>1, <1>2 DEF ServerBusy, ProcessTypeOK
<1>6. CauseKnown'
  <2>1. Cancelled => Cancelled'
    BY <1>1 DEF Cancelled
  <2>2. \A n \in Members(binary) : member'[n] \in {"stopping", "nil", "error"} => Cancelled'
    BY <1>1, <2>1 DEF CauseKnown, Cancelled, ProcessTypeOK
  <2>3. ServerStoppedEarly => ServerStoppedEarly'
    BY <1>1 DEF ServerStoppedEarly, MemberStep, ProcessTypeOK
  <2>4. signalled /\ m = "grpc" /\ to = "error" => ServerStoppedEarly'
    BY <1>1, MembersFacts DEF ServerStoppedEarly, ProcessTypeOK
  <2>5. err' = "other" => faults' > 0 \/ ServerStoppedEarly'
    BY <2>3, <2>4 DEF CauseKnown
  <2> QED
    BY <1>1, <2>2, <2>5 DEF CauseKnown
<1>7. ExitCodeTellsCause'
  BY <1>1 DEF CauseKnown, ExitCodeTellsCause
<1> QED
  BY <1>3, <1>4, <1>5, <1>6, <1>7

LEMMA MemberKeeps ==
  ASSUME ProcessInv, FaultsTypeOK, UNCHANGED serviceState, NEW m \in DOMAIN member,
         MemberStarts(m) \/ MemberFails(m) \/ MemberReturns(m)
  PROVE  ProcessInv'
<1> USE DEF ProcessInv
<1>0. faults \in Nat /\ err \in {"none", "canceled", "other"}
  BY FaultsAssumption DEF FaultsTypeOK, ProcessTypeOK
<1>1. CASE MemberStarts(m)
  <2>1. /\ m # "grpc" /\ MemberStep(m, "new", "up") /\ UNCHANGED <<faults, err>>
    BY <1>1 DEF MemberStarts
  <2>2. "up" \in MemberState
    BY DEF MemberState
  <2> QED
    BY <1>0, <2>1, <2>2, MemberMoves DEF CauseKnown
<1>2. CASE MemberFails(m)
  <2>1. MemberStep(m, "new", "error") /\ "error" \in MemberState
    BY <1>2 DEF MemberFails, MemberState
  <2>2. m = "grpc" => Drained
    BY <2>1 DEF MemberStep, ServerBusy
  <2>3. CASE Fault /\ FirstError("other")
    <3>1. faults' \in Nat /\ faults' > 0 /\ faults' >= faults
      BY <1>0, <2>3 DEF Fault
    <3>2. /\ err' \in {"canceled", "other"}
          /\ err # "none" => err' = err
          /\ err = "none" => err' = "other"
      BY <2>3, FirstErrorFacts
    <3>3. err' = "canceled" => signalled
      BY <1>0, <3>2 DEF CauseKnown
    <3> QED
      BY <1>0, <2>1, <2>2, <3>1, <3>2, <3>3, MemberMoves
  <2>4. CASE Cancelled /\ FirstError("canceled") /\ UNCHANGED faults
    <3>1. /\ err' \in {"canceled", "other"}
          /\ err # "none" => err' = err
          /\ err = "none" => err' = "canceled"
      BY <2>4, FirstErrorFacts
    <3>2. /\ err' = "canceled" => signalled
          /\ err' = "other" => err = "other"
      BY <1>0, <2>4, <3>1 DEF CauseKnown, Cancelled
    <3> QED
      BY <1>0, <2>1, <2>2, <2>4, <3>1, <3>2, MemberMoves
  <2> QED
    BY <1>2, <2>3, <2>4 DEF MemberFails
<1>3. CASE MemberReturns(m)
  <2>1. /\ m # "grpc" /\ Cancelled /\ MemberStep(m, "up", "nil") /\ UNCHANGED <<faults, err>>
    BY <1>3 DEF MemberReturns
  <2>2. "nil" \in MemberState
    BY DEF MemberState
  <2> QED
    BY <1>0, <2>1, <2>2, MemberMoves DEF CauseKnown, Cancelled
<1> QED
  BY <1>1, <1>2, <1>3

LEMMA ServerKeeps ==
  ASSUME ProcessInv, FaultsTypeOK, UNCHANGED serviceState,
         Listen \/ Serve \/ GracefulStop \/ ServeReturns(Drained)
  PROVE  ProcessInv'
<1> USE DEF ProcessInv
<1>0. /\ faults \in Nat /\ err \in {"none", "canceled", "other"}
      /\ faults' = faults
  BY FaultsAssumption DEF FaultsTypeOK, ProcessTypeOK, Listen, Serve, GracefulStop,
                          ServeReturns
<1>a. {"listening", "up", "stopping", "nil", "error"} \subseteq MemberState
  BY DEF MemberState
<1>1. CASE Listen
  <2>1. MemberStep("grpc", "new", "listening") /\ UNCHANGED err
    BY <1>1 DEF Listen
  <2>2. Drained
    BY <2>1 DEF MemberStep, ServerBusy
  <2> QED
    BY <1>0, <1>a, <2>1, <2>2, MemberMoves DEF CauseKnown
<1>2. CASE Serve
  <2>1. MemberStep("grpc", "listening", "up") /\ UNCHANGED err
    BY <1>2 DEF Serve
  <2> QED
    BY <1>0, <1>a, <2>1, MemberMoves DEF CauseKnown
<1>3. CASE GracefulStop /\ MemberStep("grpc", "up", "stopping") /\ UNCHANGED err
  <2>1. Cancelled
    BY <1>3 DEF GracefulStop
  <2> QED
    BY <1>0, <1>a, <1>3, <2>1, MemberMoves DEF CauseKnown, Cancelled
<1>4. CASE GracefulStop /\ MemberStep("grpc", "listening", "error") /\ FirstError("other")
  <2>1. Cancelled
    BY <1>4 DEF GracefulStop
  <2>2. Drained
    BY <1>4 DEF MemberStep, ServerBusy
  <2>3. /\ err' \in {"canceled", "other"}
        /\ err # "none" => err' = err
        /\ err = "none" => err' = "other"
    BY <1>4, FirstErrorFacts
  <2>4. /\ err' = "canceled" => signalled
        /\ err' = "other" => err = "other" \/ signalled
    BY <1>0, <2>1, <2>3 DEF CauseKnown, Cancelled
  <2> QED
    BY <1>0, <1>a, <1>4, <2>2, <2>3, <2>4, MemberMoves
<1>5. CASE ServeReturns(Drained)
  <2>1. Drained /\ MemberStep("grpc", "stopping", "nil") /\ UNCHANGED err
    BY <1>5 DEF ServeReturns
  <2>2. Cancelled
    BY <2>1 DEF MemberStep, CauseKnown, ProcessTypeOK
  <2> QED
    BY <1>0, <1>a, <2>1, <2>2, MemberMoves DEF CauseKnown, Cancelled
<1> QED
  BY <1>1, <1>2, <1>3, <1>4, <1>5 DEF GracefulStop

LEMMA StartKeeps ==
  ASSUME ProcessInv, FaultsTypeOK, UNCHANGED serviceState, StartStep \/ StartFails \/ Launch
  PROVE  ProcessInv'
<1> USE DEF ProcessInv
<1>0. faults \in Nat /\ Drained' = Drained /\ phase = "start"
  BY FaultsAssumption DEF FaultsTypeOK, serviceState, Drained, StartStep, StartFails, Launch
<1>a. Drained
  BY <1>0 DEF ServerBusy
<1>b. err = "none" \/ Cancelled
  BY DEF Cancelled
<1>1. CASE StartStep
  <2>1. UNCHANGED <<faults, binary, env, phase, member, err, signalled, code>>
    BY <1>1 DEF StartStep
  <2>2. ProcessTypeOK' /\ PoolKept'
    BY <1>0, <1>1, <2>1, StartStepPool DEF ProcessTypeOK, PoolKept
  <2>3. CauseKnown' /\ ExitCodeTellsCause'
    BY <2>1 DEF ServerStoppedEarly, CauseKnown, Cancelled, ExitCodeTellsCause, Interval, envDuration
  <2> QED
    BY <1>0, <1>a, <2>2, <2>3 DEF ServerBusy
<1>2. CASE StartFails
  <2>1. /\ phase' = "close" /\ UNCHANGED <<binary, env, todo, open, member, signalled, code>>
        /\ \/ err' = "other" /\ faults' > 0
           \/ err' = "canceled" /\ signalled
    BY <1>0, <1>2 DEF StartFails, Fault
  <2>2. ProcessTypeOK' /\ PoolKept'
    BY <2>1 DEF ProcessTypeOK, PoolKept
  <2>3. CauseKnown'
    BY <1>0, <2>1 DEF ServerStoppedEarly, CauseKnown, Cancelled
  <2>4. ExitCodeTellsCause'
    BY <1>0, <2>1 DEF ServerStoppedEarly, CauseKnown, ExitCodeTellsCause
  <2> QED
    BY <1>0, <1>a, <2>2, <2>3, <2>4 DEF ServerBusy
<1>3. CASE Launch
  <2>1. /\ phase' = "run" /\ todo = <<>>
        /\ UNCHANGED <<faults, binary, env, todo, open, member, err, signalled, code>>
    BY <1>3 DEF Launch
  <2>2. ProcessTypeOK' /\ PoolKept'
    BY <1>0, <2>1 DEF ProcessTypeOK, PoolKept
  <2>3. CauseKnown' /\ ExitCodeTellsCause'
    BY <1>0, <2>1 DEF ServerStoppedEarly, CauseKnown, Cancelled, ExitCodeTellsCause
  <2> QED
    BY <1>0, <1>a, <2>2, <2>3 DEF ServerBusy
<1> QED
  BY <1>1, <1>2, <1>3

LEMMA EndKeeps ==
  ASSUME ProcessInv, FaultsTypeOK, UNCHANGED serviceState,
         Wait \/ Close \/ Exit \/ \E m \in DOMAIN member : TickerPanics(m)
  PROVE  ProcessInv'
<1> USE DEF ProcessInv
<1>0. /\ Drained' = Drained /\ faults \in Nat /\ binary \in Binary
      /\ UNCHANGED <<faults, binary, env, todo, member, err, signalled>>
  BY FaultsAssumption
     DEF FaultsTypeOK, serviceState, Drained, Wait, Close, Exit, TickerPanics, ProcessTypeOK
<1>1. CASE Wait
  <2>1. /\ phase = "run" /\ phase' = "close" /\ UNCHANGED <<open, code>>
        /\ \A m \in Members(binary) : member[m] \in {"nil", "error"}
    BY <1>1 DEF Wait, Ended, ProcessTypeOK
  <2>2. Cancelled
    BY <1>0, <2>1, MembersFacts DEF ServerStoppedEarly, CauseKnown
  <2>3. Drained
    BY <1>0, <2>1, MembersFacts DEF ServerBusy
  <2>4. ProcessTypeOK' /\ PoolKept'
    BY <1>0, <2>1 DEF ProcessTypeOK, PoolKept
  <2>5. CauseKnown' /\ ExitCodeTellsCause'
    BY <1>0, <2>1, <2>2 DEF ServerStoppedEarly, CauseKnown, Cancelled, ExitCodeTellsCause
  <2> QED
    BY <1>0, <2>3, <2>4, <2>5 DEF ServerBusy
<1>2. CASE Close
  <2>1. /\ phase = "close" /\ phase' = phase /\ code' = code
        /\ open # <<>> /\ open' = SubSeq(open, 1, Len(open) - 1)
    BY <1>2 DEF Close
  <2>2. open' \in Seq(StartCall)
    BY <2>1 DEF ProcessTypeOK
  <2>3. ProcessTypeOK' /\ PoolKept'
    BY <1>0, <2>1, <2>2 DEF ProcessTypeOK, PoolKept
  <2>4. CauseKnown' /\ ExitCodeTellsCause'
    BY <1>0, <2>1 DEF ServerStoppedEarly, CauseKnown, Cancelled, ExitCodeTellsCause
  <2> QED
    BY <1>0, <2>1, <2>3, <2>4 DEF ServerBusy
<1>3. CASE Exit
  <2>1. /\ phase = "close" /\ phase' = "exited" /\ UNCHANGED open
        /\ code' = IF err = "other" THEN 1 ELSE 0
    BY <1>3 DEF Exit, ExitCode
  <2>2. ProcessTypeOK' /\ PoolKept'
    BY <1>0, <2>1 DEF ProcessTypeOK, PoolKept
  <2>3. CauseKnown'
    BY <1>0, <2>1 DEF ServerStoppedEarly, CauseKnown, Cancelled
  <2>4. ExitCodeTellsCause'
    BY <1>0, <2>1 DEF ProcessTypeOK, ServerStoppedEarly, CauseKnown, Cancelled, ExitCodeTellsCause
  <2> QED
    BY <1>0, <2>1, <2>2, <2>3, <2>4 DEF ServerBusy
<1>4. ASSUME NEW m \in DOMAIN member, TickerPanics(m) PROVE ProcessInv'
  <2>1. /\ phase = "run" /\ phase' = "exited" /\ code' = 2 /\ UNCHANGED open
        /\ Ticks(m) /\ Interval(m) <= 0 /\ m \in Members(binary)
    BY <1>4 DEF TickerPanics, ProcessTypeOK
  <2>2. binary = "scheduler"
    BY <1>0, <2>1, MembersFacts
  <2>3. Drained
    BY <2>2 DEF ServerBusy
  <2>4. ProcessTypeOK' /\ PoolKept'
    BY <1>0, <2>1 DEF ProcessTypeOK, PoolKept
  <2>5. CauseKnown'
    BY <1>0, <2>1 DEF ServerStoppedEarly, CauseKnown, Cancelled
  <2>6. ExitCodeTellsCause'
    BY <1>0, <2>1, <2>2 DEF ServerStoppedEarly, ExitCodeTellsCause, Ticks, Interval
  <2> QED
    BY <1>0, <2>3, <2>4, <2>5, <2>6 DEF ServerBusy
<1> QED
  BY <1>1, <1>2, <1>3, <1>4

\* A step of the service leaves the process alone; it starts handlers only while
\* the server is up.
LEMMA ServiceKeeps ==
  ASSUME ProcessInv, faults \in Nat, faults' \in Nat, faults' >= faults,
         UNCHANGED processVars,
         Drained => Drained' \/ Up
  PROVE  ProcessInv'
<1> USE DEF ProcessInv
<1>1. UNCHANGED <<binary, env, phase, todo, open, member, err, signalled, code>>
  BY DEF processVars
<1>2. ProcessTypeOK' /\ PoolKept'
  BY <1>1 DEF ProcessTypeOK, PoolKept
<1>3. ServerBusy'
  BY <1>1 DEF ServerBusy, Up
<1>4. CauseKnown'
  BY <1>1 DEF ServerStoppedEarly, CauseKnown, Cancelled
<1>5. ExitCodeTellsCause'
  <2>1. \A m : Interval(m)' = Interval(m)
    BY <1>1 DEF Interval, envDuration
  <2> QED
    BY <1>1, <2>1 DEF ServerStoppedEarly, ExitCodeTellsCause
<1> QED
  BY <1>2, <1>3, <1>4, <1>5

LEMMA SignalKeeps ==
  ASSUME ProcessInv, FaultsTypeOK, UNCHANGED serviceState, Signal
  PROVE  ProcessInv'
<1> USE DEF ProcessInv
<1>0. Drained' = Drained
  BY DEF serviceState, Drained
<1>1. /\ signalled' = TRUE
      /\ UNCHANGED <<faults, binary, env, phase, todo, open, member, err, code>>
  BY DEF Signal
<1>2. ProcessTypeOK' /\ PoolKept' /\ ServerBusy'
  BY <1>0, <1>1 DEF ProcessTypeOK, PoolKept, ServerBusy
<1>3. CauseKnown' /\ ExitCodeTellsCause'
  BY <1>1 DEF ServerStoppedEarly, CauseKnown, Cancelled, ExitCodeTellsCause, Interval
<1> QED
  BY <1>2, <1>3

LEMMA ProcessInvInit == GatewayInit => ProcessInv
<1> SUFFICES ASSUME GatewayInit PROVE ProcessInv
  OBVIOUS
<1>1. /\ binary \in Binary /\ phase = "start" /\ todo = StartUp(binary) /\ open = <<>>
      /\ member = [m \in Members(binary) |-> "new"]
      /\ err = "none" /\ signalled = FALSE /\ code = -1
  BY DEF GatewayInit, ProcessInit
<1>2. Drained
  BY DEF GatewayInit, ServiceInit, EnqueueInit, Drained
<1>3. ProcessTypeOK /\ PoolKept
  <2>1. todo \in Seq(StartCall) /\ Has(todo, "pool")
    BY <1>1, StartUpFacts
  <2>2. open \in Seq(StartCall)
    BY <1>1
  <2>3. member \in [Members(binary) -> MemberState]
    BY <1>1 DEF MemberState
  <2> QED
    BY <1>1, <2>1, <2>2, <2>3 DEF ProcessTypeOK, PoolKept
<1>4. ServerBusy /\ CauseKnown /\ ExitCodeTellsCause
  BY <1>1, <1>2 DEF ServerBusy, ServerStoppedEarly, CauseKnown, ExitCodeTellsCause
<1> QED
  BY <1>3, <1>4 DEF ProcessInv

LEMMA ProcessInvNext ==
  ServiceInv /\ ProcessInv /\ [GatewayNext]_gatewayVars => ProcessInv'
<1> SUFFICES ASSUME ServiceInv, ProcessInv, [GatewayNext]_gatewayVars
             PROVE  ProcessInv'
  OBVIOUS
<1>0. FaultsTypeOK /\ faults \in Nat
  BY FaultsAssumption DEF ServiceInv, ServiceTypeOK, FaultsTypeOK
<1>1. CASE ProcessStep(Drained) /\ UNCHANGED serviceState
  BY <1>0, <1>1, StartKeeps, MemberKeeps, ServerKeeps, EndKeeps DEF ProcessStep
<1>2. CASE Signal /\ UNCHANGED serviceState
  BY <1>0, <1>2, SignalKeeps
<1>3. CASE Up /\ NewRequest /\ UNCHANGED processVars
  <2>1. UNCHANGED faults
    BY <1>3 DEF NewRequest, EnqueueTask, EnqueueLookup, LookupHit, LookupMiss, CancelTask,
                RepublishTask, StreamTaskUpdates, enqueueVars
  <2> QED
    BY <1>0, <1>3, <2>1, ServiceKeeps
<1>4. ASSUME NEW c \in Request, EnqueueCreate(c), UNCHANGED processVars PROVE ProcessInv'
  <2>1. ~Drained
    BY <1>4 DEF EnqueueCreate, FinishCreate, AnswerLost, Drained
  <2>2. faults' \in Nat /\ faults' >= faults
    BY <1>0, <1>4 DEF EnqueueCreate, FinishCreate, AnswerLost, Fault
  <2> QED
    BY <1>0, <1>4, <2>1, <2>2, ServiceKeeps
<1>5. ASSUME NEW u \in Stream, StreamTick(u) \/ StreamBroken(u), UNCHANGED processVars
      PROVE  ProcessInv'
  <2>1. ~Drained /\ UNCHANGED faults
    BY <1>5 DEF StreamTick, StreamBroken, Drained, enqueueVars
  <2> QED
    BY <1>0, <1>5, <2>1, ServiceKeeps
<1>6. ASSUME NEW t, NEW next, Progress(t, next), UNCHANGED processVars PROVE ProcessInv'
  <2>1. UNCHANGED faults /\ Drained' = Drained
    BY <1>6 DEF Progress, Drained
  <2> QED
    BY <1>0, <1>6, <2>1, ServiceKeeps
<1>7. CASE UNCHANGED gatewayVars
  <2>1. UNCHANGED processVars /\ UNCHANGED faults /\ Drained' = Drained
    BY <1>7 DEF gatewayVars, serviceVars, enqueueVars, Drained
  <2> QED
    BY <1>0, <2>1, ServiceKeeps
<1> QED
  BY <1>1, <1>2, <1>3, <1>4, <1>5, <1>6, <1>7 DEF GatewayNext, HandlerStep

LEMMA GatewayInvariant == GatewaySpec => [](ServiceInv /\ ProcessInv)
<1>1. ServiceInv /\ ProcessInv /\ [GatewayNext]_gatewayVars => (ServiceInv /\ ProcessInv)'
  BY ServiceInvNext, ProcessInvNext
<1> QED
  BY <1>1, ServiceInvInit, ProcessInvInit, PTL DEF GatewaySpec

(***************************************************************************)
(* However many handlers there are, whichever member fails first and       *)
(* whenever the signal comes, no handler is left without its pool: the     *)
(* server member ends only when they are done (server.go:64-69), Wait      *)
(* waits for it, and the deferred pool.Close comes after Wait              *)
(* (apigateway.go:53, 71-74).                                              *)
(***************************************************************************)
THEOREM PoolOutlivesHandlers == GatewaySpec => []HandlersHavePool
<1>1. ProcessInv => HandlersHavePool
  <2> SUFFICES ASSUME ProcessInv, ~Drained PROVE \E i \in DOMAIN open : open[i] = "pool"
    BY DEF HandlersHavePool
  <2>1. phase = "run"
    BY DEF ProcessInv, ServerBusy
  <2>2. Has(todo, "pool") \/ Has(open, "pool")
    BY <2>1 DEF ProcessInv, PoolKept
  <2>3. ~Has(todo, "pool")
    BY <2>1 DEF ProcessInv, PoolKept, Has
  <2> QED
    BY <2>2, <2>3 DEF Has, ProcessInv, ProcessTypeOK
<1> QED
  BY <1>1, GatewayInvariant, PTL

(***************************************************************************)
(* For every binary, environment and order of errors and signal, the exit  *)
(* code tells the cause: the errgroup keeps the first error only, so each  *)
(* error it may hold has to trace back to a failure or, after the signal,  *)
(* to a server that was stopped before Serve.                              *)
(***************************************************************************)
THEOREM ExitCodeCorrect == GatewaySpec => []ExitCodeTellsCause
<1>1. ProcessInv => ExitCodeTellsCause
  BY DEF ProcessInv
<1> QED
  BY <1>1, GatewayInvariant, PTL
=============================================================================
