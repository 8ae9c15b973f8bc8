----------------------------- MODULE TaskService ----------------------------
(***************************************************************************)
(* The handlers of the gRPC service (internal/adapter/grpcserver): the     *)
(* conversion of a request to a command and of a row to a message, and     *)
(* StreamTaskUpdates, which sends the state of a task every two seconds    *)
(* until the task is finished or the client goes away.                     *)
(*                                                                         *)
(* A request is refused (InvalidArgument, NotFound, FailedPrecondition or  *)
(* Internal, domainToGRPC) without any effect, so the actions have the     *)
(* conditions of requests that are not.  The schedulers and workers that   *)
(* move tasks on are external.                                             *)
(*                                                                         *)
(* asked is a history variable: the priority the client of a task's        *)
(* EnqueueTask put into its request.                                       *)
(***************************************************************************)
EXTENDS IdempotentEnqueue, TaskStatus

CONSTANTS EnqueueTaskRequest,  \* the requests clients send
          Stream,              \* calls of StreamTaskUpdates
          NoTask               \* the task of a stream that is not open

ASSUME TaskServiceAssumption ==
  /\ EnqueueTaskRequest \subseteq [type : TaskType \cup {""}, json : BOOLEAN, priority : Nat,
                                   retry_limit : Int, wait : Nat, key : Key \cup {NoKey}]
  /\ NoTask \notin TaskID

VARIABLES request,     \* the request each handler works on
          asked,
          watch        \* the task of each stream

serviceVars == <<enqueueVars, request, asked, watch>>

ServiceInit ==
  /\ EnqueueInit
  /\ request = [c \in Request |-> 0]
  /\ asked = [t \in TaskID |-> 0]
  /\ watch = [u \in Stream |-> NoTask]

-----------------------------------------------------------------------------
\* A wrong conversion that moves a value out of range to its end.
PriorityClamped(p) == IF p > PriorityMax THEN PriorityMax ELSE p

\* domain.Priority(req.Priority): a uint32 becomes a uint8.
Priority(p) == p % 256

ToCmd(req) ==
  [type |-> req.type, priority |-> Priority(req.priority), retry_limit |-> req.retry_limit,
   wait |-> req.wait, key |-> req.key]

\* EnqueueCmd.Validate: the type, the payload, the priority after its conversion.
Valid(req) ==
  /\ req.type # ""
  /\ req.json
  /\ Priority(req.priority) \in 0..PriorityMax

taskToProto(t) ==
  [priority |-> tasks[t].priority, status |-> statusToProto(tasks[t].status),
   attempt_count |-> tasks[t].attempt_count, retry_limit |-> tasks[t].retry_limit,
   worker_id |-> tasks[t].worker_id, idempotency_key |-> tasks[t].key,
   dependency_ids |-> deps[t]]

\* The answer of GetTask for a task that exists.
GetTask(t) == taskToProto(t)

\* Create inserts a row for a request with priority p, or fails.
AskedFor(p) ==
  asked' = [t \in TaskID |-> IF tasks'[t].status # tasks[t].status THEN p ELSE asked[t]]

-----------------------------------------------------------------------------
\* The bound on tasks: identifiers are left for all handlers in progress and one more.
IdsLeft ==
  Cardinality({t \in TaskID : tasks[t].status = "absent"}) >
  Cardinality({c \in Request : call[c] # NoCall})

\* EnqueueTask without a key.
EnqueueTask(req, D) ==
  /\ Valid(req)
  /\ IdsLeft
  /\ \E t \in TaskID : Enqueue(t, ToCmd(req), D)
  /\ AskedFor(req.priority)
  /\ UNCHANGED <<faults, call, answers, request, watch>>

\* EnqueueTask with a key: the lookup, and Create.
EnqueueLookup(c, req, D) ==
  /\ Valid(req)
  /\ \/ LookupHit(ToCmd(req)) /\ UNCHANGED request
     \/ IdsLeft /\ LookupMiss(c, ToCmd(req), D) /\ request' = [request EXCEPT ![c] = req.priority]
  /\ UNCHANGED <<asked, watch>>

EnqueueCreate(c) ==
  /\ FinishCreate(c) \/ AnswerLost(c)
  /\ AskedFor(request[c])
  /\ request' = [request EXCEPT ![c] = 0]
  /\ UNCHANGED watch

CancelTask(t) == Cancel(t) /\ UNCHANGED <<faults, call, answers, request, asked, watch>>

RepublishTask(t) == Republish(t) /\ UNCHANGED <<faults, call, answers, request, asked, watch>>

\* StreamTaskUpdates finds the task and sends its state, whatever it is.
StreamTaskUpdates(u, t) ==
  /\ watch[u] = NoTask
  /\ Exists(t)
  /\ watch' = [watch EXCEPT ![u] = t]
  /\ UNCHANGED <<enqueueVars, request, asked>>

\* A wrong end of the stream that forgets cancelled tasks.
StreamEndsUnlessCancelled(s) == s \in {"completed", "failed"}

StreamEnds(s) == s \in {"completed", "failed", "cancelled"}

\* A tick of the stream: the state is sent, a finished one is the last.
StreamTick(u) ==
  /\ watch[u] # NoTask
  /\ watch' = [watch EXCEPT ![u] = IF StreamEnds(tasks[@].status) THEN NoTask ELSE @]
  /\ UNCHANGED <<enqueueVars, request, asked>>

\* The client goes away (ctx.Done), or GetByID or Send fails.
StreamBroken(u) ==
  /\ watch[u] # NoTask
  /\ watch' = [watch EXCEPT ![u] = NoTask]
  /\ UNCHANGED <<enqueueVars, request, asked>>

\* A scheduler, a worker or the monitor moves a task on: any change TransitionTo allows.
Progress(t, next) ==
  /\ next \in Status \ {"cancelled"}
  /\ next = "running" => Ready(t)
  /\ UpdateTask(t, next, tasks[t])
  /\ UNCHANGED <<faults, call, answers, request, asked, watch>>

\* No handler is in progress.
Drained == (\A c \in Request : call[c] = NoCall) /\ (\A u \in Stream : watch[u] = NoTask)

\* Steps of the handlers in progress.
HandlerStep == (\E c \in Request : EnqueueCreate(c)) \/ (\E u \in Stream : StreamTick(u))

\* New requests.
NewRequest ==
  \/ \E req \in EnqueueTaskRequest, D \in SUBSET TaskID :
       EnqueueTask(req, D) \/ \E c \in Request : EnqueueLookup(c, req, D)
  \/ \E t \in TaskID : CancelTask(t) \/ RepublishTask(t)
  \/ \E u \in Stream, t \in TaskID : StreamTaskUpdates(u, t)

-----------------------------------------------------------------------------
(***************************************************************************)
(* A task is reported with the priority its client asked for, through the  *)
(* conversions of EnqueueTask, the store and taskToProto (server.go:75-81, *)
(* mapper.go:18), unless the request had one of 256 or more, of which only *)
(* the last eight bits arrive: an accepted priority is never another one.  *)
(***************************************************************************)
PriorityAsAsked ==
  \A t \in TaskID : Exists(t) /\ asked[t] < 256 => GetTask(t).priority = asked[t]

(***************************************************************************)
(* A stream on a task that is completed or cancelled ends                  *)
(* (server.go:161-172): no client waits for news that cannot come.         *)
(***************************************************************************)
StreamsOfFinishedEnd ==
  \A u \in Stream, t \in TaskID :
    (watch[u] = t /\ tasks[t].status \in {"completed", "cancelled"}) ~> (watch[u] # t)
=============================================================================
