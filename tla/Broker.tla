------------------------------- MODULE Broker -------------------------------
(***************************************************************************)
(* The broker (internal/adapter/broker/redis/broker.go): the Redis stream  *)
(* rsufz:tasks with the consumer group rsufz:workers, and the dead letter  *)
(* stream rsufz:dlq.  Redis itself is external; what is modelled is what   *)
(* the code relies on.                                                     *)
(*                                                                         *)
(* A message is its position in the stream, its content the task           *)
(* identifier there.  Entries are never trimmed.  The group's pending      *)
(* entries list is owner (NoWorker: not pending) and idle, the ticks since *)
(* the last delivery, which stops at the threshold it is compared with.    *)
(***************************************************************************)
EXTENDS Identifiers, Integers, Sequences, FiniteSets

CONSTANTS MaxMsgs,     \* bound: entries the stream may ever hold
          MinIdle,     \* MinIdle of XAUTOCLAIM (30s)
          ClaimCount,  \* Count of XAUTOCLAIM (100)
          ReadCount    \* Count of XREADGROUP (10)

ASSUME BrokerAssumption ==
  /\ MaxMsgs \in Nat /\ MinIdle \in Nat
  /\ ClaimCount \in Nat \ {0} /\ ReadCount \in Nat \ {0}

VARIABLES stream,      \* rsufz:tasks, oldest entry first
          last,        \* last-delivered-id of the group, NoGroup before it exists
          owner,       \* pending entries list: consumer of each message
          idle,        \* pending entries list: idle time of each message
          dlq,         \* tasks published to rsufz:dlq
          lost         \* history: running tasks whose dispatch got lost

brokerVars == <<stream, last, owner, idle, dlq, lost>>

MsgId == 1..MaxMsgs

NoGroup == -1

BrokerTypeOK ==
  /\ stream \in Seq(TaskID) /\ Len(stream) <= MaxMsgs
  /\ last \in NoGroup..Len(stream)
  /\ owner \in [MsgId -> WorkerID \cup {NoWorker}]
  /\ idle \in [MsgId -> 0..MinIdle]
  /\ dlq \subseteq TaskID
  /\ lost \subseteq TaskID

BrokerInit ==
  /\ stream = <<>>
  /\ last = NoGroup
  /\ owner = [m \in MsgId |-> NoWorker]
  /\ idle = [m \in MsgId |-> 0]
  /\ dlq = {}
  /\ lost = {}

\* Publish on rsufz:tasks (XADD).
XAdd(t) ==
  /\ Len(stream) < MaxMsgs
  /\ stream' = Append(stream, t)
  /\ UNCHANGED <<last, owner, idle, dlq, lost>>

(***************************************************************************)
(* XGROUP CREATE ... "$" MKSTREAM: the first subscriber creates the group  *)
(* at the end of the stream, so entries published before are never         *)
(* delivered; later subscribers get BUSYGROUP, which is ignored.           *)
(***************************************************************************)
CreateGroup ==
  /\ last' = IF last = NoGroup THEN Len(stream) ELSE last
  /\ lost' = IF last = NoGroup
             THEN lost \cup {stream[m] : m \in 1..Len(stream)} ELSE lost
  /\ UNCHANGED <<stream, owner, idle, dlq>>

\* A wrong claim that takes busy entries too.
ClaimableBusy == {m \in MsgId : owner[m] # NoWorker}

\* The first Count pending entries, oldest first, idle for MinIdle or longer.
Claimable == {m \in MsgId : owner[m] # NoWorker /\ idle[m] >= MinIdle}

Claimed == {m \in Claimable : Cardinality({k \in Claimable : k < m}) < ClaimCount}

\* A message set is (re)delivered to consumer w.
Deliver(w, M) ==
  /\ owner' = [m \in MsgId |-> IF m \in M THEN w ELSE owner[m]]
  /\ idle' = [m \in MsgId |-> IF m \in M THEN 0 ELSE idle[m]]

\* XAUTOCLAIM 0-0 of reclaimPending.
XAutoClaim(w) ==
  /\ Deliver(w, Claimed)
  /\ UNCHANGED <<stream, last, dlq, lost>>

\* What XREADGROUP ">" returns: the next entries never delivered to the group.
Unread == {m \in 1..Len(stream) : last # NoGroup /\ m > last /\ m <= last + ReadCount}

XReadGroup(w) ==
  /\ Unread # {}
  /\ Deliver(w, Unread)
  /\ last' = IF last + ReadCount < Len(stream) THEN last + ReadCount ELSE Len(stream)
  /\ UNCHANGED <<stream, dlq, lost>>

\* XACK: the entry leaves the pending entries list, whoever owns it.
XAck(m) ==
  /\ owner' = [owner EXCEPT ![m] = NoWorker]
  /\ idle' = [idle EXCEPT ![m] = 0]
  /\ UNCHANGED <<stream, last, dlq, lost>>

\* Publish on rsufz:dlq.
XAddDLQ(t) ==
  /\ dlq' = dlq \cup {t}
  /\ UNCHANGED <<stream, last, owner, idle, lost>>

\* The clock ticks: pending entries grow idle.
EntriesAge ==
  idle' = [m \in MsgId |->
             IF owner[m] # NoWorker /\ idle[m] < MinIdle THEN idle[m] + 1 ELSE idle[m]]
=============================================================================
