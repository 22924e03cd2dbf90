--------------------------- MODULE CdcMessageQueue ---------------------------
(***************************************************************************)
(* The message queue of libcedarc/base/CdcMessageQueue.c: a list of nodes   *)
(* taken from a fixed array, under a mutex, and a counting semaphore that   *)
(* is posted and waited on outside the mutex.  One queue may have several   *)
(* posters and several receivers; omx_vdec has one of 64 nodes.             *)
(***************************************************************************)
EXTENDS Naturals, Sequences, FiniteSets

CONSTANTS
  Threads,      \* the threads that call the queue
  Nodes,        \* the array: nMaxMessageNum nodes
  Messages,     \* what a message may be
  NoThread      \* the mutex is free

ASSUME QueueAssumption == IsFiniteSet(Threads) /\ NoThread \notin Threads /\ IsFiniteSet(Nodes)

nMaxMessageNum == Cardinality(Nodes)

VARIABLES
  list,      \* the nodes from pHead on
  valid,     \* the nodes marked valid
  msg,       \* msg[n]: the message copied into node n
  nCount,
  sem,       \* value of the semaphore
  mutex,     \* who keeps the mutex over several steps (only a flush does)
  at         \* at[t]: where thread t is

vars == <<list, valid, msg, nCount, sem, mutex, at>>

Points == {"idle", "posting", "getting", "waiting", "flushing"}

Init ==
  /\ list = <<>>
  /\ valid = {}
  /\ msg \in [Nodes -> Messages]
  /\ nCount = 0
  /\ sem = 0
  /\ mutex = NoThread
  /\ at = [t \in Threads |-> "idle"]

Goto(t, from, to) == at[t] = from /\ at' = [at EXCEPT ![t] = to]

\* Mutant: a posted message goes before those that wait.
PostAtHead(t, m) ==
  /\ Goto(t, "idle", "posting")
  /\ mutex = NoThread
  /\ nCount < nMaxMessageNum
  /\ \E node \in Nodes \ valid :
       /\ msg' = [msg EXCEPT ![node] = m]
       /\ valid' = valid \cup {node}
       /\ list' = <<node>> \o list
  /\ nCount' = nCount + 1
  /\ UNCHANGED <<sem, mutex>>

(* PostMessage: any node that is not valid, at the end of the list; -1 and  *)
(* nothing done when nMaxMessageNum messages wait.  The semaphore is posted *)
(* after the mutex is released.                                             *)
PostMessage(t, m) ==
  /\ Goto(t, "idle", "posting")
  /\ mutex = NoThread
  /\ nCount < nMaxMessageNum
  /\ \E node \in Nodes \ valid :
       /\ msg' = [msg EXCEPT ![node] = m]
       /\ valid' = valid \cup {node}
       /\ list' = Append(list, node)
  /\ nCount' = nCount + 1
  /\ UNCHANGED <<sem, mutex>>

PostSem(t) ==
  /\ Goto(t, "posting", "idle")
  /\ sem' = sem + 1
  /\ UNCHANGED <<list, valid, msg, nCount, mutex>>

(* TryGetMessage: the wait on the semaphore (a time-out changes nothing),   *)
(* then the head under the mutex, or -1 when a flush has emptied the list.  *)
TakeSem(t) ==
  /\ Goto(t, "idle", "getting")
  /\ sem > 0
  /\ sem' = sem - 1
  /\ UNCHANGED <<list, valid, msg, nCount, mutex>>

GetMessage(t) ==
  /\ Goto(t, "getting", "idle")
  /\ mutex = NoThread
  /\ nCount > 0
  /\ list' = Tail(list)
  /\ valid' = valid \ {Head(list)}
  /\ nCount' = nCount - 1
  /\ UNCHANGED <<msg, sem, mutex>>

NoMessage(t) ==
  /\ Goto(t, "getting", "idle")
  /\ mutex = NoThread
  /\ nCount = 0
  /\ UNCHANGED <<list, valid, msg, nCount, sem, mutex>>

\* Mutant: WaitMessage does not give back the count it took.
KeepCount(t) ==
  /\ Goto(t, "waiting", "idle")
  /\ UNCHANGED <<list, valid, msg, nCount, sem, mutex>>

(* WaitMessage takes the semaphore and gives it back. *)
WaitMessage(t) ==
  /\ Goto(t, "idle", "waiting")
  /\ sem > 0
  /\ sem' = sem - 1
  /\ UNCHANGED <<list, valid, msg, nCount, mutex>>

GiveBack(t) ==
  /\ Goto(t, "waiting", "idle")
  /\ sem' = sem + 1
  /\ UNCHANGED <<list, valid, msg, nCount, mutex>>

\* Mutant: the mutex is released before the semaphore is drained.
DrainUnlocked(t) ==
  /\ Goto(t, "idle", "flushing")
  /\ mutex = NoThread
  /\ list' = <<>>
  /\ valid' = {}
  /\ nCount' = 0
  /\ UNCHANGED <<msg, sem, mutex>>

(* Flush empties the list and, still under the mutex, drains the semaphore  *)
(* one by one, while other threads post it and take it.                     *)
Flush(t) ==
  /\ Goto(t, "idle", "flushing")
  /\ mutex = NoThread
  /\ mutex' = t
  /\ list' = <<>>
  /\ valid' = {}
  /\ nCount' = 0
  /\ UNCHANGED <<msg, sem>>

DrainSem(t) ==
  /\ at[t] = "flushing"
  /\ sem > 0
  /\ sem' = sem - 1
  /\ UNCHANGED <<list, valid, msg, nCount, mutex, at>>

FlushReturns(t) ==
  /\ Goto(t, "flushing", "idle")
  /\ sem = 0
  /\ mutex' = NoThread
  /\ UNCHANGED <<list, valid, msg, nCount, sem>>

Receive(t) == TakeSem(t) \/ GetMessage(t) \/ NoMessage(t)
Return(t) == PostSem(t) \/ GiveBack(t) \/ DrainSem(t) \/ FlushReturns(t)

Next == \E t \in Threads :
  \/ Receive(t) \/ Return(t)
  \/ WaitMessage(t) \/ Flush(t)
  \/ \E m \in Messages : PostMessage(t, m)

Spec == Init /\ [][Next]_vars

(* A call that has begun goes on, and some thread keeps receiving: the      *)
(* message thread of omx_vdec does nothing else.                            *)
FairSpec ==
  /\ Spec
  /\ \A t \in Threads : WF_vars(Return(t)) /\ SF_vars(GetMessage(t) \/ NoMessage(t))
  /\ SF_vars(\E t \in Threads : TakeSem(t))
-----------------------------------------------------------------------------
TypeOK ==
  /\ list \in Seq(Nodes)
  /\ valid \subseteq Nodes
  /\ msg \in [Nodes -> Messages]
  /\ nCount \in Nat
  /\ sem \in Nat
  /\ mutex \in Threads \cup {NoThread}
  /\ at \in [Threads -> Points]

(* The threads that hold a count of the semaphore, or owe it one. *)
InFlight == {t \in Threads : at[t] \in {"posting", "getting", "waiting"}}

(* Every message that waits is covered by a count of the semaphore, one     *)
(* that its poster still owes, or one that a receiver has taken and not yet *)
(* used: no message waits while every receiver sleeps, even though posts    *)
(* and waits go on outside the mutex while a flush drains the semaphore.    *)
NoMessageStranded == nCount <= sem + Cardinality(InFlight)

(* The list and the array agree: a node is on the list exactly once while   *)
(* it is valid, so that PostMessage, which looks for a node that is not     *)
(* valid after testing nCount only, always finds one and never reuses a     *)
(* node that waits.                                                         *)
NodesAgree ==
  /\ nCount = Len(list)
  /\ valid = {list[i] : i \in DOMAIN list}
  /\ \A i, j \in DOMAIN list : list[i] = list[j] => i = j

(* Every message accepted is received or flushed. *)
MessagesLeave == \A n \in Nodes : n \in valid ~> n \notin valid

Fifo == INSTANCE BoundedFifo WITH
  queue <- [i \in DOMAIN list |-> msg[list[i]]],
  Capacity <- nMaxMessageNum

(* Accepted messages come out in order and unchanged. *)
ImplementsFifo == Fifo!Spec
=============================================================================
