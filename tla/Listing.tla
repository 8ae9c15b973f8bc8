------------------------------- MODULE Listing ------------------------------
(***************************************************************************)
(* ListTasks (grpcserver/server.go, usecase/tasks.go, Repo.List) against   *)
(* tasks that are created and change meanwhile.  A call counts the rows    *)
(* that match the filter and then selects one page of them: two            *)
(* statements, with no transaction around them.                            *)
(*                                                                         *)
(* order lists the tasks by created_at, newest first.  A task gets its     *)
(* created_at before its row is committed (enqueue.go:95, 117), so it may  *)
(* appear behind tasks that are already there.  Times are distinct: the    *)
(* order of rows of one microsecond is undefined and may change between    *)
(* two calls.                                                              *)
(*                                                                         *)
(* The client is external.  It asks for one page after the other until it  *)
(* gets an empty one.  wanted and shrunk are history variables: the tasks  *)
(* that matched when it started, and whether a task has left the result    *)
(* set since.                                                              *)
(***************************************************************************)
EXTENDS TaskRepo, TaskStatus, SequencesExt

CONSTANTS Filters,          \* status_filter and type_filter of the requests
          Starts,           \* page and page_size of the first request
          DefaultPageSize,  \* page size for page_size 0
          OffsetLimit,      \* the OFFSET parameter is below it (2^31)
          NewTasks          \* the commands that create tasks

AnyType == ""

ASSUME ListingAssumption ==
  /\ Filters \subseteq [status : Nat, type : TaskType \cup {AnyType}]
  /\ OffsetLimit \in Nat
  /\ DefaultPageSize \in Nat \ {0} /\ DefaultPageSize < OffsetLimit
  /\ Starts \subseteq [page : Int, size : Int]
  /\ \A start \in Starts : start.size < OffsetLimit   \* page_size is an int32 too
  /\ NewTasks \subseteq [type : TaskType, priority : 0..PriorityMax, retry_limit : Int,
                         wait : Nat, key : Key \cup {NoKey}]

VARIABLES order,
          at,               \* "idle", "count", "select", "done" or "error"
          request,          \* the request of the client
          total,            \* the count of the call in progress
          seen,             \* the tasks on the pages so far
          wanted, shrunk

walkVars == <<at, request, total, seen, wanted, shrunk>>
listingVars == <<tasks, deps, order, walkVars>>

NoRequest == [status |-> Unspecified, type |-> AnyType, page |-> 0, size |-> 0, first |-> 0]

ListingInit ==
  /\ RepoInit
  /\ order = <<>>
  /\ at = "idle"
  /\ request = NoRequest
  /\ total = 0
  /\ seen = {}
  /\ wanted = {}
  /\ shrunk = FALSE

-----------------------------------------------------------------------------
\* buildListWhere: both clauses, one of them or none.
Where(req, row) ==
  /\ protoToStatus(req.status) \in {AnyStatus, row.status}
  /\ req.type \in {AnyType, row.type}

Matching(req) == {t \in TaskID : Exists(t) /\ Where(req, tasks[t])}

PageSize(req) == IF req.size <= 0 THEN DefaultPageSize ELSE req.size

Page(req) == IF req.page <= 0 THEN 1 ELSE req.page

\* int32(offset): the low bits, with the highest one as sign.
Truncate(n) ==
  LET low == n % (2 * OffsetLimit)
  IN  IF low >= OffsetLimit THEN low - 2 * OffsetLimit ELSE low

\* A wrong offset that takes the first page for page 0.
OffsetFromZero(req) == Truncate(Page(req) * PageSize(req))

Offset(req) == Truncate((Page(req) - 1) * PageSize(req))

\* u is t or a newer task.
NotOlder(u, t) == \E i, j \in DOMAIN order : i <= j /\ order[i] = u /\ order[j] = t

\* The number of t in the result set ORDER BY created_at DESC.
Place(req, t) == Cardinality({u \in Matching(req) : NotOlder(u, t)})

\* LIMIT ... OFFSET ...
Rows(req) ==
  {t \in Matching(req) : Place(req, t) \in Offset(req) + 1..Offset(req) + PageSize(req)}

\* The client starts: a page number of 0 or 1 means the first page.
StartWalk(filter, start) ==
  /\ at = "idle"
  /\ request' = [status |-> filter.status, type |-> filter.type,
                 page |-> start.page, size |-> start.size, first |-> start.page]
  /\ at' = "count"
  /\ wanted' = {t \in TaskID : /\ Exists(t)
                               /\ \/ filter.status = Unspecified
                                  \/ statusToProto(tasks[t].status) = filter.status
                               /\ filter.type \in {AnyType, tasks[t].type}}
  /\ UNCHANGED <<repoVars, order, total, seen, shrunk>>

\* A wrong count of the rows on the page.
CountPage ==
  /\ at = "count"
  /\ total' = Cardinality(Rows(request))
  /\ at' = "select"
  /\ UNCHANGED <<repoVars, order, request, seen, wanted, shrunk>>

\* SELECT COUNT(*).
Count ==
  /\ at = "count"
  /\ total' = Cardinality(Matching(request))
  /\ at' = "select"
  /\ UNCHANGED <<repoVars, order, request, seen, wanted, shrunk>>

\* The page; PostgreSQL refuses a negative OFFSET.
Select ==
  /\ at = "select"
  /\ \/ /\ Offset(request) < 0
        /\ at' = "error"
        /\ UNCHANGED <<request, seen>>
     \/ /\ Offset(request) >= 0
        /\ seen' = seen \cup Rows(request)
        /\ at' = IF Rows(request) = {} THEN "done" ELSE "count"
        /\ request' = [request EXCEPT !.page = @ + 1]
  /\ UNCHANGED <<repoVars, order, total, wanted, shrunk>>

\* A task is created with any created_at.
Insert(t, cmd, i) ==
  /\ Create(t, cmd, {})
  /\ order' = InsertAt(order, i, t)
  /\ UNCHANGED walkVars

\* A process or another client moves a task on: any change TransitionTo allows.
Change(t, next) ==
  /\ UpdateTask(t, next, tasks[t])
  /\ shrunk' = (shrunk \/ (Where(request, tasks[t]) /\ ~Where(request, tasks'[t])))
  /\ UNCHANGED <<order, at, request, total, seen, wanted>>

ListingNext ==
  \/ \E f \in Filters, s \in Starts : StartWalk(f, s)
  \/ Count
  \/ Select
  \/ \E t \in TaskID, cmd \in NewTasks, i \in 1..Len(order) + 1 : Insert(t, cmd, i)
  \/ \E t \in TaskID, next \in Status : Change(t, next)

ListingSpec == ListingInit /\ [][ListingNext]_listingVars

-----------------------------------------------------------------------------
(***************************************************************************)
(* A client that walks through the pages from the first one sees every     *)
(* task that had the status and type it asked for when it began, though    *)
(* tasks are created before, behind and between them meanwhile             *)
(* (repo.go:345-387), as long as no task leaves the result set: a page     *)
(* that is computed from scratch only moves towards the older tasks.  The  *)
(* status is the one the server itself reports for the task, so the two    *)
(* conversions of mapper.go have to agree.                                 *)
(***************************************************************************)
PagingMissesNothing ==
  at = "done" /\ request.first <= 1 /\ ~shrunk => wanted \subseteq seen

(***************************************************************************)
(* At the end of a walk the total of the last answer covers all tasks on   *)
(* the pages, though it was counted before the page was selected           *)
(* (repo.go:356-366): a client that compares the two never has more tasks  *)
(* than there are.  The tasks of an earlier page have been counted since.  *)
(***************************************************************************)
TotalCoversPages == at = "done" /\ ~shrunk => Cardinality(seen) <= total
=============================================================================
