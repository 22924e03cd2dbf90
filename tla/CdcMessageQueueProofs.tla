------------------------ MODULE CdcMessageQueueProofs ------------------------
(***************************************************************************)
(* Proofs about the message queue, for any number of nodes and threads.     *)
(***************************************************************************)
EXTENDS CdcMessageQueue, FiniteSetTheorems, FunctionTheorems, SequenceTheorems, TLAPS

\* A flush holds the mutex while it drains, and then nothing waits.
FlushInv ==
  /\ \A t \in Threads : at[t] = "flushing" <=> mutex = t
  /\ mutex # NoThread => nCount = 0

IInv == TypeOK /\ NodesAgree /\ FlushInv /\ NoMessageStranded
-----------------------------------------------------------------------------
(* Lists of nodes. *)

LEMMA AppendAgrees ==
  ASSUME NEW l \in Seq(Nodes), NEW node \in Nodes,
         node \notin {l[i] : i \in DOMAIN l},
         \A i, j \in DOMAIN l : l[i] = l[j] => i = j
  PROVE  LET k == Append(l, node) IN
         /\ k \in Seq(Nodes) /\ Len(k) = Len(l) + 1
         /\ {k[i] : i \in DOMAIN k} = {l[i] : i \in DOMAIN l} \cup {node}
         /\ \A i, j \in DOMAIN k : k[i] = k[j] => i = j
<1> DEFINE k == Append(l, node)
<1>1. /\ k \in Seq(Nodes) /\ Len(k) = Len(l) + 1 /\ Len(l) \in Nat
      /\ DOMAIN k = 1 .. Len(l) + 1 /\ DOMAIN l = 1 .. Len(l)
      /\ k[Len(l) + 1] = node
      /\ \A i \in 1 .. Len(l) : k[i] = l[i]
  OBVIOUS
<1>2. \A i \in 1 .. Len(l) + 1 : i \in 1 .. Len(l) \/ i = Len(l) + 1
  BY <1>1
<1>3. 1 .. Len(l) \subseteq 1 .. Len(l) + 1 /\ Len(l) + 1 \in 1 .. Len(l) + 1
  BY <1>1
<1>4. \A i \in 1 .. Len(l) : l[i] # node
  BY <1>1
<1>5. {k[i] : i \in DOMAIN k} = {l[i] : i \in DOMAIN l} \cup {node}
  BY <1>1, <1>2, <1>3
<1>6. \A i, j \in DOMAIN k : k[i] = k[j] => i = j
  BY <1>1, <1>2, <1>4
<1> QED
  BY <1>1, <1>5, <1>6

LEMMA TailAgrees ==
  ASSUME NEW l \in Seq(Nodes), l # <<>>,
         \A i, j \in DOMAIN l : l[i] = l[j] => i = j
  PROVE  LET k == Tail(l) IN
         /\ k \in Seq(Nodes) /\ Len(k) = Len(l) - 1
         /\ {k[i] : i \in DOMAIN k} = {l[i] : i \in DOMAIN l} \ {Head(l)}
         /\ \A i, j \in DOMAIN k : k[i] = k[j] => i = j
<1> DEFINE k == Tail(l)
<1>1. /\ k \in Seq(Nodes) /\ Len(k) = Len(l) - 1 /\ Len(l) \in Nat \ {0}
      /\ DOMAIN k = 1 .. Len(l) - 1 /\ DOMAIN l = 1 .. Len(l) /\ Head(l) = l[1]
      /\ \A i \in 1 .. Len(l) - 1 : k[i] = l[i + 1]
  OBVIOUS
<1>2. \A i \in 1 .. Len(l) - 1 : i + 1 \in 1 .. Len(l) /\ i + 1 # 1
  BY <1>1
<1>3. \A i \in 1 .. Len(l) : i = 1 \/ (i - 1 \in 1 .. Len(l) - 1 /\ (i - 1) + 1 = i)
  BY <1>1
<1>4. 1 \in 1 .. Len(l)
  BY <1>1
<1>5. \A x : x \in {k[i] : i \in DOMAIN k} => x \in {l[i] : i \in DOMAIN l} \ {Head(l)}
  BY <1>1, <1>2, <1>4
<1>6. \A x : x \in {l[i] : i \in DOMAIN l} \ {Head(l)} => x \in {k[i] : i \in DOMAIN k}
  <2> SUFFICES ASSUME NEW i \in 1 .. Len(l), l[i] # l[1]
               PROVE  l[i] \in {k[j] : j \in DOMAIN k}
    BY <1>1
  <2>1. i - 1 \in DOMAIN k /\ k[i - 1] = l[i]
    BY <1>1, <1>3
  <2> QED
    BY <2>1
<1>7. {k[i] : i \in DOMAIN k} = {l[i] : i \in DOMAIN l} \ {Head(l)}
  BY <1>5, <1>6
<1>8. \A i, j \in DOMAIN k : k[i] = k[j] => i = j
  <2> SUFFICES ASSUME NEW i \in 1 .. Len(l) - 1, NEW j \in 1 .. Len(l) - 1, k[i] = k[j]
               PROVE  i = j
    BY <1>1
  <2>1. i + 1 = j + 1
    BY <1>1, <1>2
  <2> QED
    BY <1>1, <2>1
<1> QED
  BY <1>1, <1>7, <1>8

\* As many nodes are valid as messages wait.
LEMMA ValidCount ==
  ASSUME TypeOK, NodesAgree
  PROVE  IsFiniteSet(valid) /\ Cardinality(valid) = nCount
<1>1. /\ Len(list) \in Nat /\ DOMAIN list = 1 .. Len(list)
      /\ list \in [1 .. Len(list) -> Nodes]
  BY DEF TypeOK
<1>2. list \in Bijection(1 .. Len(list), valid)
  <2>1. list \in [1 .. Len(list) -> valid]
    BY <1>1 DEF NodesAgree
  <2>2. list \in Injection(1 .. Len(list), valid)
    BY <2>1, <1>1 DEF NodesAgree, Injection, IsInjective
  <2>3. list \in Surjection(1 .. Len(list), valid)
    BY <2>1, <1>1 DEF NodesAgree, Surjection
  <2> QED
    BY <2>2, <2>3 DEF Bijection
<1>3. IsFiniteSet(1 .. Len(list)) /\ Cardinality(1 .. Len(list)) = Len(list)
  BY <1>1, FS_Interval
<1> QED
  BY <1>2, <1>3, FS_Bijection DEF NodesAgree, ExistsBijection
-----------------------------------------------------------------------------
(* The threads in flight, after a step of thread t. *)

LEMMA InFlightFinite ==
  IsFiniteSet(InFlight) /\ Cardinality(InFlight) \in Nat
BY QueueAssumption, FS_Subset, FS_CardinalityType DEF InFlight

LEMMA GotoMoves ==
  ASSUME TypeOK, NEW t \in Threads, NEW from \in Points, NEW to \in Points, Goto(t, from, to)
  PROVE  /\ at' \in [Threads -> Points]
         /\ at[t] = from /\ at'[t] = to
         /\ \A u \in Threads : u # t => at'[u] = at[u]
BY DEF TypeOK, Goto

LEMMA TakesOff ==
  ASSUME TypeOK, NEW t \in Threads, NEW from \in Points, NEW to \in Points, Goto(t, from, to),
         from \notin {"posting", "getting", "waiting"},
         to \in {"posting", "getting", "waiting"}
  PROVE  Cardinality(InFlight') = Cardinality(InFlight) + 1
<1>1. InFlight' = InFlight \cup {t} /\ t \notin InFlight
  BY GotoMoves DEF InFlight
<1> QED
  BY <1>1, InFlightFinite, FS_AddElement

LEMMA Lands ==
  ASSUME TypeOK, NEW t \in Threads, NEW from \in Points, NEW to \in Points, Goto(t, from, to),
         from \in {"posting", "getting", "waiting"},
         to \notin {"posting", "getting", "waiting"}
  PROVE  Cardinality(InFlight') = Cardinality(InFlight) - 1
<1>1. InFlight' = InFlight \ {t} /\ t \in InFlight
  BY GotoMoves DEF InFlight
<1> QED
  BY <1>1, InFlightFinite, FS_RemoveElement

LEMMA StaysDown ==
  ASSUME TypeOK, NEW t \in Threads, NEW from \in Points, NEW to \in Points, Goto(t, from, to),
         from \notin {"posting", "getting", "waiting"},
         to \notin {"posting", "getting", "waiting"}
  PROVE  InFlight' = InFlight
BY GotoMoves DEF InFlight
-----------------------------------------------------------------------------
LEMMA InitIInv == Init => IInv
<1> SUFFICES ASSUME Init PROVE IInv
  OBVIOUS
<1>1. TypeOK /\ NodesAgree /\ FlushInv
  BY QueueAssumption DEF Init, TypeOK, NodesAgree, FlushInv, Points
<1>2. NoMessageStranded
  BY InFlightFinite DEF Init, NoMessageStranded
<1> QED
  BY <1>1, <1>2 DEF IInv

LEMMA PostMessageIInv ==
  ASSUME IInv, NEW t \in Threads, NEW m \in Messages, PostMessage(t, m)
  PROVE  IInv'
<1> USE DEF Points
<1>1. PICK node \in Nodes \ valid :
        /\ msg' = [msg EXCEPT ![node] = m]
        /\ valid' = valid \cup {node}
        /\ list' = Append(list, node)
  BY DEF PostMessage
<1>2. /\ at' \in [Threads -> Points] /\ at'[t] = "posting" /\ at[t] = "idle"
      /\ \A u \in Threads : u # t => at'[u] = at[u]
  BY GotoMoves DEF PostMessage, IInv
<1>3. TypeOK'
  BY <1>1, <1>2 DEF IInv, TypeOK, PostMessage
<1>4. NodesAgree'
  <2>1. /\ list \in Seq(Nodes) /\ node \in Nodes /\ valid = {list[i] : i \in DOMAIN list}
        /\ node \notin {list[i] : i \in DOMAIN list}
        /\ \A i, j \in DOMAIN list : list[i] = list[j] => i = j
    BY DEF IInv, TypeOK, NodesAgree
  <2>2. /\ Len(list') = Len(list) + 1
        /\ {list'[i] : i \in DOMAIN list'} = {list[i] : i \in DOMAIN list} \cup {node}
        /\ \A i, j \in DOMAIN list' : list'[i] = list'[j] => i = j
    BY <1>1, <2>1, AppendAgrees
  <2> QED
    BY <1>1, <2>1, <2>2 DEF IInv, NodesAgree, PostMessage
<1>5. FlushInv'
  BY <1>2, QueueAssumption DEF IInv, FlushInv, PostMessage
<1>6. NoMessageStranded'
  BY TakesOff, InFlightFinite DEF IInv, TypeOK, NoMessageStranded, PostMessage
<1> QED
  BY <1>3, <1>4, <1>5, <1>6 DEF IInv

LEMMA GetMessageIInv ==
  ASSUME IInv, NEW t \in Threads, GetMessage(t)
  PROVE  IInv'
<1> USE DEF Points
<1>1. list # <<>> /\ Head(list) \in Nodes
  BY DEF IInv, TypeOK, NodesAgree, GetMessage
<1>2. /\ at' \in [Threads -> Points] /\ at'[t] = "idle" /\ at[t] = "getting"
      /\ \A u \in Threads : u # t => at'[u] = at[u]
  BY GotoMoves DEF GetMessage, IInv
<1>3. TypeOK'
  BY <1>1, <1>2, TailAgrees DEF IInv, TypeOK, NodesAgree, GetMessage
<1>4. NodesAgree'
  <2>1. /\ list \in Seq(Nodes) /\ valid = {list[i] : i \in DOMAIN list}
        /\ \A i, j \in DOMAIN list : list[i] = list[j] => i = j
    BY DEF IInv, TypeOK, NodesAgree
  <2>2. /\ Len(list') = Len(list) - 1
        /\ {list'[i] : i \in DOMAIN list'} = {list[i] : i \in DOMAIN list} \ {Head(list)}
        /\ \A i, j \in DOMAIN list' : list'[i] = list'[j] => i = j
    BY <1>1, <2>1, TailAgrees DEF GetMessage
  <2> QED
    BY <2>1, <2>2 DEF IInv, NodesAgree, GetMessage
<1>5. FlushInv'
  BY <1>2, QueueAssumption DEF IInv, FlushInv, GetMessage
<1>6. NoMessageStranded'
  BY Lands, InFlightFinite DEF IInv, TypeOK, NoMessageStranded, GetMessage
<1> QED
  BY <1>3, <1>4, <1>5, <1>6 DEF IInv

\* A step that only moves one thread and the semaphore leaves the list alone.
LEMMA ListStays ==
  ASSUME NodesAgree, UNCHANGED <<list, valid, msg, nCount>>
  PROVE  NodesAgree'
BY DEF NodesAgree

LEMMA PostSemIInv ==
  ASSUME IInv, NEW t \in Threads, PostSem(t)
  PROVE  IInv'
<1> USE DEF Points
<1>1. /\ at' \in [Threads -> Points] /\ at'[t] = "idle" /\ at[t] = "posting"
      /\ \A u \in Threads : u # t => at'[u] = at[u]
  BY GotoMoves DEF PostSem, IInv
<1>2. TypeOK' /\ NodesAgree'
  BY <1>1, ListStays, EmptySeq, QueueAssumption DEF IInv, TypeOK, NodesAgree, PostSem
<1>3. FlushInv'
  BY <1>1, QueueAssumption DEF IInv, TypeOK, FlushInv, PostSem
<1>4. NoMessageStranded'
  BY Lands, InFlightFinite DEF IInv, TypeOK, FlushInv, NoMessageStranded, PostSem
<1> QED
  BY <1>2, <1>3, <1>4 DEF IInv

LEMMA TakeSemIInv ==
  ASSUME IInv, NEW t \in Threads, TakeSem(t)
  PROVE  IInv'
<1> USE DEF Points
<1>1. /\ at' \in [Threads -> Points] /\ at'[t] = "getting" /\ at[t] = "idle"
      /\ \A u \in Threads : u # t => at'[u] = at[u]
  BY GotoMoves DEF TakeSem, IInv
<1>2. TypeOK' /\ NodesAgree'
  BY <1>1, ListStays, EmptySeq, QueueAssumption DEF IInv, TypeOK, NodesAgree, TakeSem
<1>3. FlushInv'
  BY <1>1, QueueAssumption DEF IInv, TypeOK, FlushInv, TakeSem
<1>4. NoMessageStranded'
  BY TakesOff, InFlightFinite DEF IInv, TypeOK, FlushInv, NoMessageStranded, TakeSem
<1> QED
  BY <1>2, <1>3, <1>4 DEF IInv

LEMMA NoMessageIInv ==
  ASSUME IInv, NEW t \in Threads, NoMessage(t)
  PROVE  IInv'
<1> USE DEF Points
<1>1. /\ at' \in [Threads -> Points] /\ at'[t] = "idle" /\ at[t] = "getting"
      /\ \A u \in Threads : u # t => at'[u] = at[u]
  BY GotoMoves DEF NoMessage, IInv
<1>2. TypeOK' /\ NodesAgree'
  BY <1>1, ListStays, EmptySeq, QueueAssumption DEF IInv, TypeOK, NodesAgree, NoMessage
<1>3. FlushInv'
  BY <1>1, QueueAssumption DEF IInv, TypeOK, FlushInv, NoMessage
<1>4. NoMessageStranded'
  <2>1. Cardinality(InFlight') \in Nat
    BY QueueAssumption, FS_Subset, FS_CardinalityType DEF InFlight
  <2>2. nCount' = 0 /\ sem' \in Nat
    BY DEF IInv, TypeOK, NoMessage
  <2> QED
    BY <2>1, <2>2 DEF NoMessageStranded
<1> QED
  BY <1>2, <1>3, <1>4 DEF IInv

LEMMA WaitMessageIInv ==
  ASSUME IInv, NEW t \in Threads, WaitMessage(t)
  PROVE  IInv'
<1> USE DEF Points
<1>1. /\ at' \in [Threads -> Points] /\ at'[t] = "waiting" /\ at[t] = "idle"
      /\ \A u \in Threads : u # t => at'[u] = at[u]
  BY GotoMoves DEF WaitMessage, IInv
<1>2. TypeOK' /\ NodesAgree'
  BY <1>1, ListStays, EmptySeq, QueueAssumption DEF IInv, TypeOK, NodesAgree, WaitMessage
<1>3. FlushInv'
  BY <1>1, QueueAssumption DEF IInv, TypeOK, FlushInv, WaitMessage
<1>4. NoMessageStranded'
  BY TakesOff, InFlightFinite DEF IInv, TypeOK, FlushInv, NoMessageStranded, WaitMessage
<1> QED
  BY <1>2, <1>3, <1>4 DEF IInv

LEMMA GiveBackIInv ==
  ASSUME IInv, NEW t \in Threads, GiveBack(t)
  PROVE  IInv'
<1> USE DEF Points
<1>1. /\ at' \in [Threads -> Points] /\ at'[t] = "idle" /\ at[t] = "waiting"
      /\ \A u \in Threads : u # t => at'[u] = at[u]
  BY GotoMoves DEF GiveBack, IInv
<1>2. TypeOK' /\ NodesAgree'
  BY <1>1, ListStays, EmptySeq, QueueAssumption DEF IInv, TypeOK, NodesAgree, GiveBack
<1>3. FlushInv'
  BY <1>1, QueueAssumption DEF IInv, TypeOK, FlushInv, GiveBack
<1>4. NoMessageStranded'
  BY Lands, InFlightFinite DEF IInv, TypeOK, FlushInv, NoMessageStranded, GiveBack
<1> QED
  BY <1>2, <1>3, <1>4 DEF IInv

LEMMA FlushIInv ==
  ASSUME IInv, NEW t \in Threads, Flush(t)
  PROVE  IInv'
<1> USE DEF Points
<1>1. /\ at' \in [Threads -> Points] /\ at'[t] = "flushing" /\ at[t] = "idle"
      /\ \A u \in Threads : u # t => at'[u] = at[u]
  BY GotoMoves DEF Flush, IInv
<1>2. TypeOK' /\ NodesAgree'
  BY <1>1, ListStays, EmptySeq, QueueAssumption DEF IInv, TypeOK, NodesAgree, Flush
<1>3. FlushInv'
  BY <1>1, QueueAssumption DEF IInv, TypeOK, FlushInv, Flush
<1>4. NoMessageStranded'
  BY StaysDown, InFlightFinite DEF IInv, TypeOK, FlushInv, NoMessageStranded, Flush
<1> QED
  BY <1>2, <1>3, <1>4 DEF IInv

LEMMA FlushReturnsIInv ==
  ASSUME IInv, NEW t \in Threads, FlushReturns(t)
  PROVE  IInv'
<1> USE DEF Points
<1>1. /\ at' \in [Threads -> Points] /\ at'[t] = "idle" /\ at[t] = "flushing"
      /\ \A u \in Threads : u # t => at'[u] = at[u]
  BY GotoMoves DEF FlushReturns, IInv
<1>2. TypeOK' /\ NodesAgree'
  BY <1>1, ListStays, EmptySeq, QueueAssumption DEF IInv, TypeOK, NodesAgree, FlushReturns
<1>3. FlushInv'
  BY <1>1, QueueAssumption DEF IInv, TypeOK, FlushInv, FlushReturns
<1>4. NoMessageStranded'
  BY StaysDown, InFlightFinite DEF IInv, TypeOK, FlushInv, NoMessageStranded, FlushReturns
<1> QED
  BY <1>2, <1>3, <1>4 DEF IInv

LEMMA DrainSemIInv ==
  ASSUME IInv, NEW t \in Threads, DrainSem(t)
  PROVE  IInv'
<1>1. InFlight' = InFlight
  BY DEF DrainSem, InFlight
<1>2. nCount = 0 /\ nCount' = 0
  BY QueueAssumption DEF IInv, TypeOK, FlushInv, DrainSem
<1>3. TypeOK' /\ NodesAgree' /\ FlushInv'
  BY ListStays DEF IInv, TypeOK, FlushInv, DrainSem
<1>4. NoMessageStranded'
  BY <1>1, <1>2, <1>3, InFlightFinite DEF TypeOK, NoMessageStranded
<1> QED
  BY <1>3, <1>4 DEF IInv

\* The invariant holds in every reachable state.
THEOREM IInvHolds == Spec => []IInv
<1>1. IInv /\ Next => IInv'
  BY PostMessageIInv, GetMessageIInv, DrainSemIInv, PostSemIInv, TakeSemIInv, NoMessageIInv, WaitMessageIInv, GiveBackIInv, FlushIInv, FlushReturnsIInv
  DEF Next, Receive, Return
<1>2. IInv /\ UNCHANGED vars => IInv'
  BY DEF IInv, TypeOK, NodesAgree, FlushInv, NoMessageStranded, InFlight, vars
<1> QED
  BY <1>1, <1>2, InitIInv, PTL DEF Spec

\* Every variable of the queue keeps its type: nCount and the semaphore never
\* go below zero.
THEOREM TypeCorrect == Spec => []TypeOK
BY IInvHolds, PTL DEF IInv

\* A message that waits is always covered by a count of the semaphore, posted,
\* owed by its poster or taken by a receiver.
THEOREM NeverStranded == Spec => []NoMessageStranded
BY IInvHolds, PTL DEF IInv

\* The list holds each valid node once, and nCount counts them.
THEOREM ListAndArrayAgree == Spec => []NodesAgree
BY IInvHolds, PTL DEF IInv

\* PostMessage tests nCount and then takes the first node that is not valid,
\* without testing that there is one: there always is.
NodeIsFound == nCount < nMaxMessageNum => Nodes \ valid # {}

THEOREM PostFindsNode == Spec => []NodeIsFound
<1>1. IInv => NodeIsFound
  <2> SUFFICES ASSUME IInv, nCount < nMaxMessageNum, Nodes \ valid = {} PROVE FALSE
    BY DEF NodeIsFound
  <2>1. valid = Nodes
    BY DEF IInv, TypeOK
  <2> QED
    BY <2>1, ValidCount, QueueAssumption, FS_CardinalityType DEF IInv, TypeOK, nMaxMessageNum
<1> QED
  BY <1>1, IInvHolds, PTL
-----------------------------------------------------------------------------
(* The queue implements the bounded FIFO. *)

Contents(l, ms) == [i \in DOMAIN l |-> ms[l[i]]]

LEMMA ContentsAppend ==
  ASSUME NEW l \in Seq(Nodes), NEW node \in Nodes, NEW ms \in [Nodes -> Messages],
         node \notin {l[i] : i \in DOMAIN l}, NEW m \in Messages
  PROVE  Contents(Append(l, node), [ms EXCEPT ![node] = m]) = Append(Contents(l, ms), m)
<1> DEFINE k  == Append(l, node)
           mt == [ms EXCEPT ![node] = m]
<1>1. /\ Len(l) \in Nat /\ k \in Seq(Nodes) /\ Len(k) = Len(l) + 1
      /\ DOMAIN k = 1 .. Len(l) + 1 /\ DOMAIN l = 1 .. Len(l)
      /\ k[Len(l) + 1] = node /\ \A i \in 1 .. Len(l) : k[i] = l[i] /\ l[i] \in Nodes
  OBVIOUS
<1>2. mt \in [Nodes -> Messages] /\ mt[node] = m /\ \A n \in Nodes : n # node => mt[n] = ms[n]
  OBVIOUS
<1>3. \A i \in 1 .. Len(l) : l[i] # node
  BY <1>1
<1>4. Contents(l, ms) \in Seq(Messages) /\ Len(Contents(l, ms)) = Len(l)
  <2>1. Contents(l, ms) = [i \in 1 .. Len(l) |-> ms[l[i]]]
    BY <1>1 DEF Contents
  <2>2. \A i \in 1 .. Len(l) : ms[l[i]] \in Messages
    BY <1>1
  <2> QED
    BY <2>1, <2>2, <1>1, IsASeq
<1>5. Contents(k, mt) \in Seq(Messages) /\ Len(Contents(k, mt)) = Len(l) + 1
  <2>1. Contents(k, mt) = [i \in 1 .. Len(l) + 1 |-> mt[k[i]]]
    BY <1>1 DEF Contents
  <2>2. \A i \in 1 .. Len(l) + 1 : mt[k[i]] \in Messages
    BY <1>1, <1>2
  <2>3. Len(l) + 1 \in Nat
    BY <1>1
  <2> QED
    BY <2>1, <2>2, <2>3, IsASeq
<1> DEFINE s == Append(Contents(l, ms), m)
<1>6. /\ s \in Seq(Messages) /\ Len(s) = Len(l) + 1 /\ s[Len(l) + 1] = m
      /\ \A i \in 1 .. Len(l) : s[i] = Contents(l, ms)[i]
  BY <1>1, <1>4, AppendProperties
<1>7. \A i \in 1 .. Len(l) : Contents(k, mt)[i] = s[i]
  <2> SUFFICES ASSUME NEW i \in 1 .. Len(l) PROVE Contents(k, mt)[i] = s[i]
    OBVIOUS
  <2>1. i \in DOMAIN k /\ i \in DOMAIN l
    BY <1>1
  <2>2. Contents(k, mt)[i] = mt[l[i]] /\ Contents(l, ms)[i] = ms[l[i]]
    BY <1>1, <2>1 DEF Contents
  <2>3. mt[l[i]] = ms[l[i]]
    BY <1>1, <1>2, <1>3
  <2> QED
    BY <1>6, <2>2, <2>3
<1>8. Contents(k, mt)[Len(l) + 1] = m
  <2>1. Len(l) + 1 \in DOMAIN k
    BY <1>1
  <2> QED
    BY <2>1, <1>1, <1>2 DEF Contents
<1>9. \A i \in 1 .. Len(l) + 1 : i \in 1 .. Len(l) \/ i = Len(l) + 1
  BY <1>1
<1>10. \A i \in 1 .. Len(l) + 1 : Contents(k, mt)[i] = s[i]
  BY <1>6, <1>7, <1>8, <1>9
<1> HIDE DEF k, mt, s
<1>11. Contents(k, mt) = s
  BY <1>5, <1>6, <1>10, SeqEqual
<1> QED
  BY <1>11 DEF k, mt, s

LEMMA ContentsTail ==
  ASSUME NEW l \in Seq(Nodes), l # <<>>, NEW ms \in [Nodes -> Messages]
  PROVE  Contents(l, ms) # <<>> /\ Contents(Tail(l), ms) = Tail(Contents(l, ms))
<1> DEFINE k == Tail(l)
           c == Contents(l, ms)
<1>1. /\ k \in Seq(Nodes) /\ Len(k) = Len(l) - 1 /\ Len(l) \in Nat \ {0}
      /\ DOMAIN k = 1 .. Len(l) - 1 /\ DOMAIN l = 1 .. Len(l)
      /\ \A i \in 1 .. Len(l) - 1 : k[i] = l[i + 1] /\ i + 1 \in 1 .. Len(l)
      /\ \A i \in 1 .. Len(l) : l[i] \in Nodes
  OBVIOUS
<1>2. c = [i \in 1 .. Len(l) |-> ms[l[i]]] /\ \A i \in 1 .. Len(l) : ms[l[i]] \in Messages
  BY <1>1 DEF Contents
<1>3. c \in Seq(Messages) /\ Len(c) = Len(l)
  BY <1>1, <1>2, IsASeq
<1>4. Contents(k, ms) = [i \in 1 .. Len(l) - 1 |-> ms[k[i]]]
  BY <1>1 DEF Contents
<1>5. \A i \in 1 .. Len(l) - 1 : ms[k[i]] \in Messages /\ ms[k[i]] = c[i + 1]
  BY <1>1, <1>2
<1>6. Contents(k, ms) \in Seq(Messages) /\ Len(Contents(k, ms)) = Len(l) - 1
  <2>1. Len(l) - 1 \in Nat
    BY <1>1
  <2> QED
    BY <2>1, <1>4, <1>5, IsASeq
<1> HIDE DEF c, k
<1>7. /\ c # <<>> /\ Tail(c) \in Seq(Messages) /\ Len(Tail(c)) = Len(l) - 1
      /\ \A i \in 1 .. Len(l) - 1 : Tail(c)[i] = c[i + 1]
  BY <1>1, <1>3
<1>8. Contents(k, ms) = Tail(c)
  BY <1>4, <1>5, <1>6, <1>7, SeqEqual
<1> QED
  BY <1>7, <1>8 DEF c, k

\* Every run of the queue is a run of the bounded FIFO, its messages read
\* through the list of nodes.
THEOREM Refinement == Spec => ImplementsFifo
<1> DEFINE queue == [i \in DOMAIN list |-> msg[list[i]]]
<1>1. Init => Fifo!Init
  BY DEF Init, Fifo!Init
<1>2. ASSUME IInv, NEW t \in Threads, NEW m \in Messages, PostMessage(t, m)
      PROVE  Fifo!Accept(m)
  <2>1. PICK node \in Nodes \ valid :
          msg' = [msg EXCEPT ![node] = m] /\ list' = Append(list, node)
    BY <1>2 DEF PostMessage
  <2>2. queue' = Append(queue, m)
    BY <1>2, <2>1, ContentsAppend DEF IInv, TypeOK, NodesAgree, Contents
  <2>3. Len(queue) = Len(list)
    BY <1>2 DEF IInv, TypeOK
  <2> QED
    BY <1>2, <2>2, <2>3 DEF Fifo!Accept, PostMessage, IInv, NodesAgree
<1>3. ASSUME IInv, NEW t \in Threads, GetMessage(t)
      PROVE  Fifo!Deliver
  <2>1. list # <<>>
    BY <1>3 DEF IInv, TypeOK, NodesAgree, GetMessage
  <2> QED
    BY <1>3, <2>1, ContentsTail DEF Fifo!Deliver, GetMessage, IInv, TypeOK, Contents
<1>4. ASSUME NEW t \in Threads, Flush(t)
      PROVE  Fifo!Clear
  BY <1>4 DEF Fifo!Clear, Flush
<1>5. UNCHANGED <<list, msg>> => UNCHANGED queue
  OBVIOUS
<1>6. IInv /\ Next => [Fifo!Next]_queue
  BY <1>2, <1>3, <1>4, <1>5
  DEF Next, Fifo!Next, Receive, Return, PostSem, TakeSem, NoMessage, WaitMessage, GiveBack,
      DrainSem, FlushReturns
<1>7. UNCHANGED vars => UNCHANGED queue
  BY <1>5 DEF vars
<1> QED
  BY <1>1, <1>6, <1>7, IInvHolds, PTL DEF Spec, ImplementsFifo, Fifo!Spec
=============================================================================
