------------------------- MODULE IdempotentEnqueue --------------------------
(***************************************************************************)
(* EnqueueUseCase.Handle for commands with an idempotency key              *)
(* (internal/usecase/enqueue.go).  FindByIdempotencyKey and Create are two *)
(* transactions, so several requests with one key may be between them:     *)
(* call[c] is the command of a request whose lookup found nothing.         *)
(*                                                                         *)
(* answers is a history variable: for each key, the tasks its requests got *)
(* as answer, and Conflict for a violated unique constraint.               *)
(***************************************************************************)
EXTENDS Gateway, Faults

CONSTANTS Request,     \* requests in progress at a time
          NoCall,      \* no request
          Conflict     \* the answer when the key was taken meanwhile

VARIABLES call, answers

enqueueVars == <<tasks, deps, faults, call, answers>>

EnqueueInit ==
  /\ RepoInit
  /\ FaultsInit
  /\ call = [c \in Request |-> NoCall]
  /\ answers = {}

Answer(cmd, t) == answers' = answers \cup {[key |-> cmd.key, task |-> t]}

\* Another row has the key of cmd.
Taken(cmd) == \E t \in TaskID : Exists(t) /\ tasks[t].key = cmd.key

\* FindByIdempotencyKey finds a task: it is the answer.
LookupHit(cmd) ==
  /\ cmd.key # NoKey
  /\ \E t \in TaskID : Exists(t) /\ tasks[t].key = cmd.key /\ Answer(cmd, t)
  /\ UNCHANGED <<repoVars, faults, call>>

\* FindByIdempotencyKey returns ErrNotFound: go on to Create.
LookupMiss(c, cmd, D) ==
  /\ call[c] = NoCall
  /\ cmd.key # NoKey
  /\ ~Taken(cmd)
  /\ call' = [call EXCEPT ![c] = [cmd |-> cmd, deps |-> D]]
  /\ UNCHANGED <<repoVars, faults, answers>>

\* Create succeeds, or fails: on the key, or on a dependency that does not exist.
FinishCreate(c) ==
  /\ call[c] # NoCall
  /\ \/ \E t \in TaskID : /\ Create(t, call[c].cmd, call[c].deps)
                           /\ Answer(call[c].cmd, t)
     \/ /\ Taken(call[c].cmd)
        /\ Answer(call[c].cmd, Conflict)
        /\ UNCHANGED repoVars
     \/ /\ ~Taken(call[c].cmd)
        /\ \E d \in call[c].deps : ~Exists(d)
        /\ UNCHANGED <<repoVars, answers>>
  /\ call' = [call EXCEPT ![c] = NoCall]
  /\ UNCHANGED faults

\* The gateway dies or the connection breaks: Create commits or not, and the
\* client gets no answer.
AnswerLost(c) ==
  /\ Fault
  /\ call[c] # NoCall
  /\ \/ \E t \in TaskID : Create(t, call[c].cmd, call[c].deps)
     \/ UNCHANGED repoVars
  /\ call' = [call EXCEPT ![c] = NoCall]
  /\ UNCHANGED answers

EnqueueNext ==
  \/ \E cmd \in Cmds : LookupHit(cmd)
  \/ \E c \in Request, cmd \in Cmds, D \in SUBSET TaskID : LookupMiss(c, cmd, D)
  \/ \E c \in Request : FinishCreate(c) \/ AnswerLost(c)

EnqueueSpec == EnqueueInit /\ [][EnqueueNext]_enqueueVars

(***************************************************************************)
(* Every task a client is ever told of for one key is the same task,       *)
(* whatever requests with that key raced each other between lookup and     *)
(* insert (enqueue.go:84, 117) or were repeated after a lost answer.       *)
(***************************************************************************)
SameKeySameTask ==
  \A a, b \in answers :
    a.key = b.key /\ a.task # Conflict /\ b.task # Conflict => a.task = b.task

(***************************************************************************)
(* "A repeated request with the same key: the same task_id"                *)
(* (common.proto:40): no request fails because of its key.                 *)
(***************************************************************************)
RepeatIsAnswered == \A a \in answers : a.task # Conflict
=============================================================================
