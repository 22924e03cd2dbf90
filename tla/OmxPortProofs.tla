---------------------------- MODULE OmxPortProofs ----------------------------
(***************************************************************************)
(* Proofs about the port's ring, for any number of headers and either       *)
(* direction.  Part of the invariant holds whatever happens, the rest until *)
(* a header is put back in a ring that was flushed since it was taken.      *)
(***************************************************************************)
EXTENDS OmxPort, FiniteSetTheorems, FunctionTheorems,
        SequenceTheorems, TLAPS

InHand == IF hand = NoHeader THEN 0 ELSE 1

\* There is a place in the ring for every header that may come to it.
Tokens == Cardinality(held) + Len(posted) + nSizeOfList + InHand <= nAllocSize

History == (flushed => hand # NoHeader) /\ (strayed => isInput)

Counted == TypeOK /\ Tokens /\ History

\* A closed port is empty, and its headers are with the client, lost, or with
\* a worker that has not seen the flush: those handed out so far, or while
\* they are being freed as many as are left.
Life ==
  /\ open => nAllocSize = nBufNeedSize /\ bPopulated
  /\ ~open => /\ nSizeOfList = 0 /\ posted = <<>>
              /\ nReadPos = 0 /\ nWritePos = 0
              /\ hand # NoHeader => flushed
              /\ bPopulated =>
                   nAllocSize > 0 /\ Cardinality(held) + Cardinality(lost) + InHand = nAllocSize
              /\ ~bPopulated =>
                   held = 0 .. nAllocSize - 1 /\ lost = {} /\ hand = NoHeader

\* The write position is behind the last header.
WriteFollows == nWritePos = Slot(nSizeOfList)

\* What the ring holds was put there.
RingIsReal == NoHeader \notin Waiting

SlotKept == isInput /\ hand # NoHeader /\ ~flushed => pBufHdrList[Before(nReadPos)] = hand

InOrder == Owned /\ Life /\ WriteFollows /\ RingIsReal /\ SlotKept

IInv == Counted /\ (~strayed => InOrder)
-----------------------------------------------------------------------------
(* The part that always holds. *)

LEMMA CountFacts ==
  ASSUME Counted
  PROVE  /\ nBufNeedSize \in Nat \ {0} /\ nSizeOfList \in Nat /\ nAllocSize \in Nat
         /\ nAllocSize <= nBufNeedSize /\ Len(posted) \in Nat /\ InHand \in {0, 1}
         /\ IsFiniteSet(Headers) /\ Cardinality(Headers) = nBufNeedSize
         /\ IsFiniteSet(held) /\ Cardinality(held) \in Nat
         /\ IsFiniteSet(lost) /\ Cardinality(lost) \in Nat
<1>1. /\ nBufNeedSize \in Nat \ {0} /\ nSizeOfList \in Nat /\ nAllocSize \in Nat
      /\ nAllocSize <= nBufNeedSize
  BY PortAssumption DEF Counted, TypeOK
<1>2. IsFiniteSet(Headers) /\ Cardinality(Headers) = nBufNeedSize
  BY <1>1, FS_Interval DEF Headers
<1>3. held \in SUBSET Headers /\ lost \in SUBSET Headers /\ Len(posted) \in Nat
  BY DEF Counted, TypeOK
<1>4. IsFiniteSet(held) /\ IsFiniteSet(lost)
  BY <1>2, <1>3, FS_Subset
<1>5. InHand \in {0, 1}
  BY DEF InHand
<1> QED
  BY <1>1, <1>2, <1>3, <1>4, <1>5, FS_CardinalityType

\* A flush gives back no more headers than the ring holds.
LEMMA WaitingCount ==
  ASSUME Counted
  PROVE  /\ IsFiniteSet(held \cup (Waiting \cap Headers))
         /\ Cardinality(held \cup (Waiting \cap Headers)) <= Cardinality(held) + nSizeOfList
         /\ Cardinality(held \cup (Waiting \cap Headers)) \in Nat
<1> DEFINE I == 0 .. nSizeOfList - 1
           f == [i \in I |-> pBufHdrList[Slot(i)]]
           W == Waiting \cap Headers
<1>1. nSizeOfList \in Nat /\ IsFiniteSet(held) /\ Cardinality(held) \in Nat
  BY CountFacts
<1>2. IsFiniteSet(I) /\ Cardinality(I) = nSizeOfList
  <2>1. 0 \in Int /\ nSizeOfList - 1 \in Int
    BY <1>1
  <2>2. /\ IsFiniteSet(0 .. nSizeOfList - 1)
        /\ Cardinality(0 .. nSizeOfList - 1) =
             IF 0 > nSizeOfList - 1 THEN 0 ELSE (nSizeOfList - 1) - 0 + 1
    BY <2>1, FS_Interval
  <2> QED
    BY <1>1, <2>2
<1>3. f \in Surjection(I, Waiting)
  BY DEF Surjection, Waiting
<1>4. IsFiniteSet(Waiting) /\ Cardinality(Waiting) <= nSizeOfList
  BY <1>2, <1>3, FS_Surjection
<1>5. IsFiniteSet(W) /\ Cardinality(W) <= Cardinality(Waiting) /\ Cardinality(W) \in Nat
      /\ Cardinality(Waiting) \in Nat
  BY <1>4, FS_Subset, FS_CardinalityType
<1>6. IsFiniteSet(held \cup W)
      /\ Cardinality(held \cup W) = Cardinality(held) + Cardinality(W) - Cardinality(held \cap W)
  BY <1>1, <1>5, FS_Union
<1>7. Cardinality(held \cap W) \in Nat /\ Cardinality(held \cup W) \in Nat
  BY <1>1, <1>6, FS_Subset, FS_CardinalityType
<1> QED
  BY <1>1, <1>4, <1>5, <1>6, <1>7

LEMMA FlushCounted ==
  ASSUME Counted, doFlushPortBuffer, UNCHANGED <<isInput, nAllocSize>>,
         bPopulated' \in BOOLEAN, open' \in BOOLEAN, working' \in BOOLEAN
  PROVE  Counted'
<1>1. /\ held' = held \cup (Waiting \cap Headers) /\ nSizeOfList' = 0 /\ hand' = hand
      /\ nReadPos' = 0 /\ nWritePos' = 0 /\ posted' = posted
      /\ pBufHdrList' = pBufHdrList /\ strayed' = strayed /\ lost' = lost
  BY DEF doFlushPortBuffer
<1>2. flushed' \in BOOLEAN /\ (flushed' => hand' # NoHeader)
  BY <1>1 DEF doFlushPortBuffer
<1>3. 0 \in Headers /\ 0 \in 0 .. nBufNeedSize
  BY PortAssumption DEF Headers
<1>4. TypeOK'
  BY <1>1, <1>2, <1>3 DEF Counted, TypeOK
<1>5. History'
  BY <1>1, <1>2 DEF Counted, History
<1>6. Tokens'
  <2>1. Cardinality(held') <= Cardinality(held) + nSizeOfList /\ Cardinality(held') \in Nat
        /\ Len(posted') = Len(posted) /\ InHand' = InHand
    BY <1>1, WaitingCount DEF InHand
  <2> QED
    BY <1>1, <2>1, CountFacts DEF Counted, Tokens
<1> QED
  BY <1>4, <1>5, <1>6 DEF Counted

LEMMA LeavesCounted == Counted /\ Leaves => InHand = 1 /\ InHand' = 0 /\ hand \in Headers
BY DEF Counted, Leaves, InHand, TypeOK
-----------------------------------------------------------------------------
LEMMA OneMore ==
  ASSUME Counted, NEW h
  PROVE  /\ Cardinality(held \cup {h}) <= Cardinality(held) + 1
         /\ Cardinality(held \cup {h}) \in Nat
<1>1. IsFiniteSet(held) /\ Cardinality(held) \in Nat
  BY CountFacts
<1>2. /\ IsFiniteSet(held \cup {h})
      /\ Cardinality(held \cup {h}) = IF h \in held THEN Cardinality(held) ELSE Cardinality(held) + 1
  BY <1>1, FS_AddElement
<1> QED
  BY <1>1, <1>2

LEMMA CountedNext == Counted /\ [Next]_vars => Counted'
<1> SUFFICES ASSUME Counted, [Next]_vars PROVE Counted'
  OBVIOUS
<1>1. CASE UseBuffer
  <2>1. nAllocSize' = nAllocSize + 1 /\ nAllocSize < nBufNeedSize
        /\ held' = held \cup {nAllocSize} /\ nAllocSize \in Headers
    BY <1>1, CountFacts DEF UseBuffer, Headers
  <2>2. bPopulated' \in BOOLEAN
    BY <1>1 DEF UseBuffer
  <2>3. TypeOK'
    BY <1>1, <2>1, <2>2, CountFacts DEF Counted, TypeOK, UseBuffer, ring, history
  <2>4. Tokens'
    <3>1. Cardinality(held') <= Cardinality(held) + 1 /\ Cardinality(held') \in Nat
      BY <2>1, OneMore
    <3>2. InHand' = InHand /\ posted' = posted /\ nSizeOfList' = nSizeOfList
      BY <1>1 DEF UseBuffer, ring, InHand
    <3> QED
      BY <2>1, <3>1, <3>2, CountFacts DEF Counted, Tokens
  <2>5. History'
    BY <1>1 DEF Counted, History, UseBuffer, history
  <2> QED
    BY <2>3, <2>4, <2>5 DEF Counted
<1>2. ASSUME NEW h \in Headers, FreeBuffer(h) PROVE Counted'
  <2>1. /\ nAllocSize' = nAllocSize - 1 /\ h \in held /\ held' = held \ {h}
        /\ InHand' = InHand /\ posted' = posted /\ nSizeOfList' = nSizeOfList
    BY <1>2 DEF FreeBuffer, ring, InHand
  <2>2. Cardinality(held') = Cardinality(held) - 1 /\ Cardinality(held') \in Nat
    BY <2>1, CountFacts, FS_RemoveElement, FS_CardinalityType
  <2>3. nAllocSize' \in 0 .. nBufNeedSize
    BY <2>1, <2>2, CountFacts DEF Counted, Tokens
  <2>4. bPopulated' \in BOOLEAN
    BY <1>2 DEF FreeBuffer
  <2>5. TypeOK'
    BY <1>2, <2>1, <2>3, <2>4 DEF Counted, TypeOK, FreeBuffer, ring, history
  <2>6. Tokens'
    BY <2>1, <2>2, CountFacts DEF Counted, Tokens
  <2>7. History'
    BY <1>2 DEF Counted, History, FreeBuffer, history
  <2> QED
    BY <2>5, <2>6, <2>7 DEF Counted
<1>3. CASE Open \/ Halt \/ GoOn
  <2>1. /\ UNCHANGED <<pBufHdrList, nReadPos, nWritePos, nSizeOfList, isInput, nAllocSize>>
        /\ UNCHANGED <<bPopulated, posted, held, hand, flushed, strayed, lost>>
    BY <1>3 DEF Open, Halt, GoOn, ring, history
  <2>2. open' \in BOOLEAN /\ working' \in BOOLEAN
    BY <1>3 DEF Open, Halt, GoOn, Counted, TypeOK
  <2>3. TypeOK'
    BY <2>1, <2>2 DEF Counted, TypeOK
  <2>4. Tokens' /\ History'
    BY <2>1 DEF Counted, Tokens, History, InHand
  <2> QED
    BY <2>3, <2>4 DEF Counted
<1>4. ASSUME NEW h \in Headers, Give(h) PROVE Counted'
  <2>1. /\ h \in held /\ held' = held \ {h} /\ posted' = Append(posted, h)
        /\ posted \in Seq(Headers) /\ InHand' = InHand /\ nAllocSize' = nAllocSize
        /\ nSizeOfList' = nSizeOfList
    BY <1>4 DEF Give, life, ring, InHand, Counted, TypeOK
  <2>2. posted' \in Seq(Headers) /\ Len(posted') = Len(posted) + 1
    BY <2>1
  <2>3. Cardinality(held') = Cardinality(held) - 1 /\ Cardinality(held') \in Nat
    BY <2>1, CountFacts, FS_RemoveElement, FS_CardinalityType
  <2>4. TypeOK'
    BY <1>4, <2>1, <2>2 DEF Counted, TypeOK, Give, ring, life, history
  <2>5. Tokens'
    BY <2>1, <2>2, <2>3, CountFacts DEF Counted, Tokens
  <2>6. History'
    BY <1>4 DEF Counted, History, Give, life, history
  <2> QED
    BY <2>4, <2>5, <2>6 DEF Counted
<1>5. CASE Received
  <2>1. /\ posted \in Seq(Headers) /\ posted # <<>> /\ posted' = Tail(posted)
        /\ UNCHANGED <<life, held, hand, history>>
    BY <1>5 DEF Received, Counted, TypeOK
  <2>2. Head(posted) \in Headers /\ posted' \in Seq(Headers) /\ Len(posted') = Len(posted) - 1
        /\ Len(posted) > 0
    BY <2>1
  <2>3. nSizeOfList < nAllocSize
    BY <2>2, CountFacts DEF Counted, Tokens
  <2>4. /\ nSizeOfList' = nSizeOfList + 1 /\ nReadPos' = nReadPos
        /\ pBufHdrList' = [pBufHdrList EXCEPT ![nWritePos] = Head(posted)]
        /\ nWritePos' = After(nWritePos)
    BY <1>5, <2>3 DEF Received
  <2>5. nWritePos' \in Headers
    BY <2>4, CountFacts DEF After, Headers, Counted, TypeOK
  <2>6. nSizeOfList' \in 0 .. nBufNeedSize
    BY <2>3, <2>4, CountFacts
  <2>7. pBufHdrList' \in [Headers -> Headers \cup {NoHeader}]
    BY <2>2, <2>4 DEF Counted, TypeOK
  <2>8. TypeOK'
    BY <2>1, <2>2, <2>4, <2>5, <2>6, <2>7 DEF Counted, TypeOK, life, history
  <2>9. Tokens'
    <3>1. InHand' = InHand /\ held' = held /\ nAllocSize' = nAllocSize
      BY <2>1 DEF InHand, life
    <3> QED
      BY <2>2, <2>4, <3>1, CountFacts DEF Counted, Tokens
  <2>10. History'
    BY <2>1 DEF Counted, History, life, history
  <2> QED
    BY <2>8, <2>9, <2>10 DEF Counted
<1>6. CASE doRequestPortBuffer
  <2>1. /\ hand = NoHeader /\ hand' # NoHeader /\ hand' = pBufHdrList[nReadPos]
        /\ nSizeOfList > 0 /\ nSizeOfList' = nSizeOfList - 1 /\ nReadPos' = After(nReadPos)
        /\ UNCHANGED <<pBufHdrList, nWritePos, life, posted, held, history>>
    BY <1>6 DEF doRequestPortBuffer
  <2>2. hand' \in Headers \cup {NoHeader}
    BY <2>1 DEF Counted, TypeOK
  <2>3. nReadPos' \in Headers
    BY <2>1, CountFacts DEF After, Headers, Counted, TypeOK
  <2>4. nSizeOfList' \in 0 .. nBufNeedSize
    BY <2>1, CountFacts DEF Counted, TypeOK
  <2>5. TypeOK'
    BY <2>1, <2>2, <2>3, <2>4 DEF Counted, TypeOK, life, history
  <2>6. Tokens'
    <3>1. InHand = 0 /\ InHand' = 1 /\ nAllocSize' = nAllocSize /\ held' = held
          /\ posted' = posted
      BY <2>1 DEF InHand, life
    <3> QED
      BY <2>1, <3>1, CountFacts DEF Counted, Tokens
  <2>7. History'
    BY <2>1 DEF Counted, History, life, history
  <2> QED
    BY <2>5, <2>6, <2>7 DEF Counted
<1>7. CASE BufferDone
  <2>1. /\ Leaves /\ held' = held \cup {hand} /\ hand' = NoHeader /\ flushed' = FALSE
        /\ UNCHANGED <<ring, life, posted, strayed, lost>>
    BY <1>7 DEF BufferDone, Leaves
  <2>2. InHand = 1 /\ InHand' = 0 /\ hand \in Headers
    BY <2>1, LeavesCounted
  <2>3. TypeOK'
    BY <2>1, <2>2 DEF Counted, TypeOK, ring, life
  <2>4. Tokens'
    <3>1. Cardinality(held') <= Cardinality(held) + 1 /\ Cardinality(held') \in Nat
      BY <2>1, OneMore
    <3>2. nSizeOfList' = nSizeOfList /\ posted' = posted /\ nAllocSize' = nAllocSize
      BY <2>1 DEF ring, life
    <3> QED
      BY <2>2, <3>1, <3>2, CountFacts DEF Counted, Tokens
  <2>5. History'
    BY <2>1 DEF Counted, History, life
  <2> QED
    BY <2>3, <2>4, <2>5 DEF Counted
<1>8. CASE DropHeader
  <2>1. /\ Leaves /\ lost' = lost \cup {hand} /\ hand' = NoHeader /\ flushed' = FALSE
        /\ UNCHANGED <<ring, life, posted, held, strayed>>
    BY <1>8 DEF DropHeader, Leaves
  <2>2. InHand = 1 /\ InHand' = 0 /\ hand \in Headers
    BY <2>1, LeavesCounted
  <2>3. TypeOK'
    BY <2>1, <2>2 DEF Counted, TypeOK, ring, life
  <2>4. Tokens'
    <3>1. nSizeOfList' = nSizeOfList /\ posted' = posted /\ nAllocSize' = nAllocSize
          /\ held' = held
      BY <2>1 DEF ring, life
    <3> QED
      BY <2>2, <3>1, CountFacts DEF Counted, Tokens
  <2>5. History'
    BY <2>1 DEF Counted, History, life
  <2> QED
    BY <2>3, <2>4, <2>5 DEF Counted
<1>9. CASE returnPortBuffer
  <2>1. /\ Leaves /\ isInput /\ hand' = NoHeader /\ flushed' = FALSE
        /\ nSizeOfList' = nSizeOfList + 1 /\ nReadPos' = Before(nReadPos)
        /\ UNCHANGED <<pBufHdrList, nWritePos, life, posted, held, lost>>
    BY <1>9 DEF returnPortBuffer, Leaves
  <2>2. strayed' \in BOOLEAN
    BY <1>9 DEF returnPortBuffer
  <2>3. InHand = 1 /\ InHand' = 0
    BY <2>1, LeavesCounted
  <2>4. nSizeOfList + 1 <= nAllocSize
    BY <2>3, CountFacts DEF Counted, Tokens
  <2>5. nReadPos' \in Headers
    BY <2>1, <2>4, CountFacts DEF Before, Headers, Counted, TypeOK
  <2>6. nSizeOfList' \in 0 .. nBufNeedSize
    BY <2>1, <2>4, CountFacts
  <2>7. TypeOK'
    BY <2>1, <2>2, <2>5, <2>6 DEF Counted, TypeOK, life
  <2>8. Tokens'
    <3>1. posted' = posted /\ nAllocSize' = nAllocSize /\ held' = held
      BY <2>1 DEF life
    <3> QED
      BY <2>1, <2>3, <3>1, CountFacts DEF Counted, Tokens
  <2>9. History'
    BY <2>1 DEF History, life
  <2> QED
    BY <2>7, <2>8, <2>9 DEF Counted
<1>10. CASE Flush \/ Close \/ PauseToExecuting
  <2>1. doFlushPortBuffer /\ UNCHANGED <<isInput, nAllocSize>>
    BY <1>10 DEF Flush, Close, PauseToExecuting, life
  <2>2. bPopulated' \in BOOLEAN /\ open' \in BOOLEAN /\ working' \in BOOLEAN
    BY <1>10 DEF Flush, Close, PauseToExecuting, life, Counted, TypeOK
  <2> QED
    BY <2>1, <2>2, FlushCounted
<1>11. CASE UNCHANGED vars
  <2>1. /\ UNCHANGED <<pBufHdrList, nReadPos, nWritePos, nSizeOfList, isInput, nAllocSize>>
        /\ UNCHANGED <<bPopulated, open, working, posted, held, hand, flushed, strayed, lost>>
    BY <1>11 DEF vars, ring, life, history
  <2>2. TypeOK'
    BY <2>1 DEF Counted, TypeOK
  <2>3. Tokens' /\ History'
    BY <2>1 DEF Counted, Tokens, History, InHand
  <2> QED
    BY <2>2, <2>3 DEF Counted
<1> QED
  BY <1>1, <1>2, <1>3, <1>4, <1>5, <1>6, <1>7, <1>8, <1>9, <1>10, <1>11 DEF Next
-----------------------------------------------------------------------------
(* The order of the ring: slots, and the steps that leave the ring alone.   *)

LEMMA SlotType ==
  ASSUME TypeOK, NEW i \in 0 .. nBufNeedSize
  PROVE  Slot(i) \in Headers
BY PortAssumption DEF TypeOK, Slot, Headers

LEMMA SlotsDiffer ==
  ASSUME TypeOK, NEW i \in 0 .. nBufNeedSize - 1, NEW j \in 0 .. nBufNeedSize - 1, i # j
  PROVE  Slot(i) # Slot(j)
BY PortAssumption DEF TypeOK, Slot, Headers

LEMMA QueueIsWaiting ==
  ASSUME TypeOK
  PROVE  /\ DOMAIN Queue = 1 .. nSizeOfList
         /\ \A i \in 1 .. nSizeOfList : Queue[i] = pBufHdrList[Slot(i - 1)]
         /\ \A i \in 1 .. nSizeOfList : Queue[i] \in Waiting
         /\ \A h \in Waiting : \E i \in 1 .. nSizeOfList : h = Queue[i]
         /\ \A i \in 0 .. nSizeOfList - 1 : i + 1 \in 1 .. nSizeOfList
                                           /\ Queue[i + 1] = pBufHdrList[Slot(i)]
         /\ Waiting \subseteq Headers \cup {NoHeader}
<1>1. nSizeOfList \in Nat /\ nSizeOfList <= nBufNeedSize
  BY PortAssumption DEF TypeOK
<1>2. DOMAIN Queue = 1 .. nSizeOfList
      /\ \A i \in 1 .. nSizeOfList : Queue[i] = pBufHdrList[Slot(i - 1)]
  BY DEF Queue
<1>3. \A i \in 1 .. nSizeOfList : i - 1 \in 0 .. nSizeOfList - 1
  BY <1>1
<1>4. \A i \in 0 .. nSizeOfList - 1 : i + 1 \in 1 .. nSizeOfList /\ (i + 1) - 1 = i
  BY <1>1
<1>5. \A i \in 0 .. nSizeOfList - 1 : i \in 0 .. nBufNeedSize
  BY <1>1, PortAssumption
<1>6. Waiting \subseteq Headers \cup {NoHeader}
  BY <1>5, SlotType DEF Waiting, TypeOK
<1> QED
  BY <1>2, <1>3, <1>4, <1>6 DEF Waiting

LEMMA RingStays ==
  ASSUME UNCHANGED ring
  PROVE  /\ Queue' = Queue /\ Waiting' = Waiting
         /\ WriteFollows' = WriteFollows /\ RingIsReal' = RingIsReal
<1>1. Queue' = Queue /\ Waiting' = Waiting
  BY DEF ring, Queue, Waiting, Slot
<1> QED
  BY <1>1 DEF ring, WriteFollows, RingIsReal, Slot

\* Headers shared out among the client, the lost and the worker: all of them
\* exactly when they are as many as the port has.
LEMMA Shared ==
  ASSUME Counted, NEW S \in SUBSET Headers, NEW L \in SUBSET Headers,
         S \cap L = {}, hand \notin S \cup L
  PROVE  Headers \subseteq S \cup L \cup {hand}
           <=> Cardinality(S) + Cardinality(L) + InHand = nBufNeedSize
<1> DEFINE U == S \cup L
           V == IF hand = NoHeader THEN U ELSE U \cup {hand}
<1>1. IsFiniteSet(S) /\ IsFiniteSet(L) /\ Cardinality(S) \in Nat /\ Cardinality(L) \in Nat
  BY CountFacts, FS_Subset, FS_CardinalityType
<1>2. IsFiniteSet(U) /\ Cardinality(U) = Cardinality(S) + Cardinality(L)
  <2>1. IsFiniteSet(S \cup L)
        /\ Cardinality(S \cup L) = Cardinality(S) + Cardinality(L) - Cardinality(S \cap L)
    BY <1>1, FS_Union
  <2>2. Cardinality(S \cap L) = 0
    BY FS_EmptySet
  <2> QED
    BY <1>1, <2>1, <2>2
<1>3. Cardinality(V) = Cardinality(S) + Cardinality(L) + InHand
  <2>1. CASE hand = NoHeader
    BY <2>1, <1>1, <1>2 DEF InHand
  <2>2. CASE hand # NoHeader
    <3>1. Cardinality(U \cup {hand}) = Cardinality(U) + 1
      BY <1>2, FS_AddElement
    <3> QED
      BY <2>2, <3>1, <1>1, <1>2 DEF InHand
  <2> QED
    BY <2>1, <2>2
<1>4. V \in SUBSET Headers /\ NoHeader \notin Headers
  BY PortAssumption DEF Counted, TypeOK
<1>5. Headers \subseteq U \cup {hand} <=> V = Headers
  BY <1>4
<1>6. Cardinality(V) = Cardinality(Headers) => Headers = V
  BY <1>4, CountFacts, FS_Subset
<1>7. V = Headers => Cardinality(V) = nBufNeedSize
  BY CountFacts
<1>8. V = Headers <=> Cardinality(V) = nBufNeedSize
  BY <1>6, <1>7, CountFacts
<1> QED
  BY <1>3, <1>5, <1>8

LEMMA InitInv == Init => IInv
<1> SUFFICES ASSUME Init PROVE IInv
  OBVIOUS
<1>1. /\ 0 \in Headers /\ 0 \in 0 .. nBufNeedSize /\ 0 .. 0 - 1 = {}
      /\ nSizeOfList = 0 /\ posted = <<>> /\ held = {} /\ hand = NoHeader /\ lost = {}
      /\ nAllocSize = 0 /\ ~open /\ ~bPopulated /\ ~flushed /\ ~strayed
  BY PortAssumption DEF Init, Headers
<1>2. TypeOK
  BY <1>1, PortAssumption DEF Init, TypeOK
<1>3. Tokens /\ History
  <2>1. Cardinality(held) = 0 /\ Len(posted) = 0 /\ InHand = 0
    BY <1>1, FS_EmptySet DEF InHand
  <2> QED
    BY <1>1, <2>1 DEF Tokens, History
<1>4. Waiting = {} /\ DOMAIN Queue = {} /\ InMessages = {} /\ DOMAIN posted = {}
  BY <1>1 DEF Waiting, Queue, InMessages
<1>5. Owned /\ RingIsReal
  BY <1>1, <1>4 DEF Owned, RingIsReal
<1>6. Life /\ SlotKept
  BY <1>1 DEF Init, Life, SlotKept
<1>7. WriteFollows
  BY <1>1, PortAssumption DEF Init, WriteFollows, Slot
<1> QED
  BY <1>2, <1>3, <1>5, <1>6, <1>7 DEF IInv, Counted, InOrder

LEMMA UseBufferOrder == ASSUME Counted, InOrder, UseBuffer PROVE InOrder'
<1>1. /\ nAllocSize < nBufNeedSize /\ nAllocSize' = nAllocSize + 1 /\ ~open /\ ~open'
      /\ held = 0 .. nAllocSize - 1 /\ held' = held \cup {nAllocSize}
      /\ lost = {} /\ lost' = {} /\ hand = NoHeader /\ hand' = NoHeader
      /\ nSizeOfList = 0 /\ posted = <<>> /\ nReadPos = 0 /\ nWritePos = 0
      /\ UNCHANGED ring /\ posted' = posted
  BY DEF InOrder, Life, UseBuffer, history
<1>2. held' = 0 .. nAllocSize /\ Cardinality(held') = nAllocSize' /\ held' \subseteq Headers
  <2>1. held' = 0 .. nAllocSize
    BY <1>1, CountFacts
  <2>2. 0 \in Int /\ nAllocSize \in Int /\ ~(0 > nAllocSize) /\ nAllocSize - 0 + 1 = nAllocSize + 1
    BY CountFacts
  <2>3. Cardinality(0 .. nAllocSize) = nAllocSize + 1
    BY <2>2, FS_Interval
  <2>4. 0 .. nAllocSize \subseteq Headers
    BY <1>1, CountFacts DEF Headers
  <2> QED
    BY <1>1, <2>1, <2>3, <2>4
<1>3. Waiting' = {} /\ DOMAIN Queue' = {} /\ InMessages' = {} /\ DOMAIN posted' = {}
  BY <1>1 DEF Waiting, Queue, InMessages, ring
<1>4. Owned'
  BY <1>1, <1>2, <1>3, PortAssumption DEF Owned
<1>5. WriteFollows' /\ RingIsReal'
  BY <1>1, RingStays DEF InOrder
<1>6. SlotKept'
  BY <1>1 DEF SlotKept
<1>7. Life'
  <2>1. Cardinality(lost') = 0 /\ InHand' = 0
    BY <1>1, FS_EmptySet DEF InHand
  <2>2. nSizeOfList' = 0 /\ nReadPos' = 0 /\ nWritePos' = 0 /\ posted' = <<>>
    BY <1>1 DEF ring
  <2>3. nAllocSize' > 0 /\ Cardinality(held') + Cardinality(lost') + InHand' = nAllocSize'
    BY <1>1, <1>2, <2>1, CountFacts
  <2>4. held' = 0 .. nAllocSize' - 1
    BY <1>1, <1>2, CountFacts
  <2> QED
    BY <1>1, <2>2, <2>3, <2>4 DEF Life
<1> QED
  BY <1>4, <1>5, <1>6, <1>7 DEF InOrder

LEMMA FreeBufferOrder ==
  ASSUME Counted, InOrder, NEW h \in Headers, FreeBuffer(h) PROVE InOrder'
<1>1. /\ ~open /\ ~open' /\ bPopulated /\ bPopulated' = (nAllocSize' # 0)
      /\ h \in held /\ held' = held \ {h} /\ nAllocSize' = nAllocSize - 1
      /\ UNCHANGED <<ring, isInput, posted, hand, flushed, lost>>
  BY DEF FreeBuffer, history
<1>2. /\ nSizeOfList = 0 /\ posted = <<>> /\ nReadPos = 0 /\ nWritePos = 0
      /\ nAllocSize > 0 /\ Cardinality(held) + Cardinality(lost) + InHand = nAllocSize
      /\ hand # NoHeader => flushed
  BY <1>1 DEF InOrder, Life
<1>3. Waiting' = {} /\ DOMAIN Queue' = {} /\ InMessages' = {} /\ DOMAIN posted' = {}
  BY <1>1, <1>2 DEF Waiting, Queue, InMessages, ring
<1>4. Owned'
  BY <1>1, <1>3 DEF InOrder, Owned
<1>5. WriteFollows' /\ RingIsReal'
  BY <1>1, RingStays DEF InOrder
<1>6. SlotKept'
  BY <1>1, <1>2 DEF SlotKept
<1>7. Life'
  <2>1. /\ IsFiniteSet(held') /\ Cardinality(held') = Cardinality(held) - 1
        /\ Cardinality(held') \in Nat /\ InHand' = InHand /\ Cardinality(lost') = Cardinality(lost)
    BY <1>1, CountFacts, FS_RemoveElement, FS_CardinalityType DEF InHand
  <2>2. Cardinality(held') + Cardinality(lost') + InHand' = nAllocSize'
    BY <1>1, <1>2, <2>1, CountFacts
  <2>3. nAllocSize' # 0 => nAllocSize' > 0
    BY <1>1, <1>2, CountFacts
  <2>4. nAllocSize' = 0 => held' = 0 .. nAllocSize' - 1 /\ lost' = {} /\ hand' = NoHeader
    <3> SUFFICES ASSUME nAllocSize' = 0
                 PROVE  held' = 0 .. nAllocSize' - 1 /\ lost' = {} /\ hand' = NoHeader
      OBVIOUS
    <3>1. Cardinality(held') = 0 /\ Cardinality(lost') = 0 /\ InHand' = 0
      BY <2>1, <2>2, CountFacts
    <3>2. held' = {} /\ lost' = {}
      BY <1>1, <2>1, <3>1, CountFacts, FS_EmptySet
    <3>3. 0 .. nAllocSize' - 1 = {}
      OBVIOUS
    <3>4. hand' = NoHeader
      BY <3>1 DEF InHand
    <3> QED
      BY <3>2, <3>3, <3>4
  <2>5. nSizeOfList' = 0 /\ nReadPos' = 0 /\ nWritePos' = 0 /\ posted' = <<>>
        /\ (hand' # NoHeader => flushed')
    BY <1>1, <1>2 DEF ring
  <2> QED
    BY <1>1, <2>2, <2>3, <2>4, <2>5 DEF Life
<1> QED
  BY <1>4, <1>5, <1>6, <1>7 DEF InOrder

LEMMA OpenOrder == ASSUME Counted, InOrder, Open PROVE InOrder'
<1>1. /\ ~open /\ open' /\ bPopulated /\ nAllocSize = nBufNeedSize
      /\ UNCHANGED <<ring, isInput, nAllocSize, bPopulated, posted, held, hand, flushed, lost>>
  BY DEF Open, history
<1>2. Cardinality(held) + Cardinality(lost) + InHand = nBufNeedSize
  BY <1>1 DEF InOrder, Life
<1>3. Headers \subseteq held \cup lost \cup {hand}
  <2>1. held \in SUBSET Headers /\ lost \in SUBSET Headers
    BY DEF Counted, TypeOK
  <2>2. held \cap lost = {} /\ hand \notin held \cup lost
    BY DEF InOrder, Owned
  <2> QED
    BY <1>2, <2>1, <2>2, Shared
<1>4. InMessages' = InMessages
  BY <1>1 DEF InMessages
<1>5. Owned'
  BY <1>1, <1>3, <1>4, RingStays DEF InOrder, Owned
<1>6. WriteFollows' /\ RingIsReal'
  BY <1>1, RingStays DEF InOrder
<1>7. SlotKept' /\ Life'
  BY <1>1 DEF InOrder, SlotKept, Life, Before, ring
<1> QED
  BY <1>5, <1>6, <1>7 DEF InOrder

LEMMA GiveOrder == ASSUME Counted, InOrder, NEW h \in Headers, Give(h) PROVE InOrder'
<1>1. /\ posted \in Seq(Headers) /\ h \in held /\ posted' = Append(posted, h)
      /\ held' = held \ {h} /\ open
      /\ UNCHANGED <<ring, isInput, nAllocSize, bPopulated, open, hand, flushed, lost>>
  BY DEF Counted, TypeOK, Give, life, history
<1>2. /\ DOMAIN posted = 1 .. Len(posted) /\ DOMAIN posted' = 1 .. Len(posted) + 1
      /\ Len(posted) \in Nat /\ posted'[Len(posted) + 1] = h
      /\ \A i \in 1 .. Len(posted) : posted'[i] = posted[i]
  BY <1>1
<1>3. \A i \in 1 .. Len(posted) + 1 : i \in 1 .. Len(posted) \/ i = Len(posted) + 1
  BY <1>2
<1>4. InMessages' = InMessages \cup {h}
  <2>1. 1 .. Len(posted) \subseteq 1 .. Len(posted) + 1
        /\ Len(posted) + 1 \in 1 .. Len(posted) + 1
    BY <1>2
  <2> QED
    BY <1>2, <1>3, <2>1 DEF InMessages
<1>5. h \notin InMessages /\ h \notin Waiting /\ h # hand /\ h \notin lost
  BY <1>1 DEF InOrder, Owned
<1>6. \A i, j \in DOMAIN posted' : posted'[i] = posted'[j] => i = j
  <2>1. \A i \in 1 .. Len(posted) : posted[i] # h
    BY <1>2, <1>5 DEF InMessages
  <2>2. \A i, j \in 1 .. Len(posted) : posted[i] = posted[j] => i = j
    BY <1>2 DEF InOrder, Owned
  <2> QED
    BY <1>2, <1>3, <2>1, <2>2
<1>7. Owned'
  BY <1>1, <1>4, <1>5, <1>6, RingStays DEF InOrder, Owned
<1>8. WriteFollows' /\ RingIsReal'
  BY <1>1, RingStays DEF InOrder
<1>9. SlotKept' /\ Life'
  BY <1>1 DEF InOrder, SlotKept, Life, Before, ring
<1> QED
  BY <1>7, <1>8, <1>9 DEF InOrder

\* The worker gives its header to the client, or drops it.
LEMMA DoneOrder == ASSUME Counted, InOrder, BufferDone \/ DropHeader PROVE InOrder'
<1>1. /\ hand \in Headers /\ hand' = NoHeader /\ InHand = 1 /\ InHand' = 0
      /\ UNCHANGED <<ring, isInput, nAllocSize, bPopulated, open, posted>>
      /\ \/ held' = held \cup {hand} /\ lost' = lost
         \/ lost' = lost \cup {hand} /\ held' = held
  BY LeavesCounted DEF BufferDone, DropHeader, Leaves, life
<1>2. NoHeader \notin held' \cup lost' /\ NoHeader \notin InMessages /\ InMessages' = InMessages
  BY <1>1, PortAssumption DEF Counted, TypeOK, InMessages
<1>3. hand \notin held \cup lost
  BY DEF InOrder, Owned
<1>4. Owned'
  BY <1>1, <1>2, <1>3, RingStays DEF InOrder, Owned, RingIsReal
<1>5. WriteFollows' /\ RingIsReal'
  BY <1>1, RingStays DEF InOrder
<1>6. SlotKept'
  BY <1>1 DEF SlotKept
<1>7. Cardinality(held') + Cardinality(lost') = Cardinality(held) + Cardinality(lost) + 1
  <2>1. /\ Cardinality(held \cup {hand}) = Cardinality(held) + 1
        /\ Cardinality(lost \cup {hand}) = Cardinality(lost) + 1
    BY <1>3, CountFacts, FS_AddElement
  <2>2. CASE held' = held \cup {hand} /\ lost' = lost
    BY <2>1, <2>2, CountFacts
  <2>3. CASE lost' = lost \cup {hand} /\ held' = held
    BY <2>1, <2>3, CountFacts
  <2> QED
    BY <1>1, <2>2, <2>3
<1>8. Life'
  <2>1. ~open => bPopulated
    BY <1>1, PortAssumption DEF InOrder, Life
  <2>2. ~open => Cardinality(held') + Cardinality(lost') + InHand' = nAllocSize
    BY <1>1, <1>7, <2>1, CountFacts DEF InOrder, Life
  <2> QED
    BY <1>1, <2>1, <2>2 DEF InOrder, Life, ring
<1> QED
  BY <1>4, <1>5, <1>6, <1>8 DEF InOrder
-----------------------------------------------------------------------------
(* The steps that move the ring. *)

\* What a step of the message thread finds and does: the ring has room.
LEMMA ReceivedFacts ==
  ASSUME Counted, InOrder, Received
  PROVE  LET h == Head(posted) IN
         /\ h \in Headers /\ h \in InMessages /\ h \notin Waiting /\ h # hand
         /\ h \notin held /\ h \notin lost
         /\ nSizeOfList < nBufNeedSize /\ nAllocSize = nBufNeedSize /\ open
         /\ hand # NoHeader => nSizeOfList < nBufNeedSize - 1
         /\ nSizeOfList' = nSizeOfList + 1
         /\ pBufHdrList' = [pBufHdrList EXCEPT ![Slot(nSizeOfList)] = h]
         /\ nWritePos' = After(nWritePos) /\ nReadPos' = nReadPos
         /\ UNCHANGED <<isInput, nAllocSize, bPopulated, open, held, hand, flushed, lost>>
         /\ posted' = Tail(posted)
<1> DEFINE h == Head(posted)
<1>1. /\ posted \in Seq(Headers) /\ posted # <<>> /\ open /\ nAllocSize = nBufNeedSize
      /\ UNCHANGED <<isInput, nAllocSize, bPopulated, open, held, hand, flushed, lost>>
      /\ posted' = Tail(posted)
  BY DEF Counted, InOrder, TypeOK, Life, Received, life, history
<1>2. 1 \in DOMAIN posted /\ h = posted[1] /\ Len(posted) >= 1
  BY <1>1
<1>3. h \in Headers /\ h \in InMessages
  BY <1>1, <1>2 DEF InMessages
<1>4. h \notin Waiting /\ h # hand /\ h \notin held /\ h \notin lost
  BY <1>3 DEF InOrder, Owned
<1>5. nSizeOfList + 1 + InHand <= nBufNeedSize
  BY <1>1, <1>2, CountFacts DEF Counted, Tokens
<1>6. nSizeOfList < nBufNeedSize
  BY <1>5, CountFacts
<1>7. hand # NoHeader => nSizeOfList < nBufNeedSize - 1
  BY <1>5, CountFacts DEF InHand
<1>8. /\ nSizeOfList' = nSizeOfList + 1
      /\ pBufHdrList' = [pBufHdrList EXCEPT ![Slot(nSizeOfList)] = h]
      /\ nWritePos' = After(nWritePos) /\ nReadPos' = nReadPos
  BY <1>1, <1>6 DEF Received, InOrder, WriteFollows
<1> QED
  BY <1>1, <1>3, <1>4, <1>6, <1>7, <1>8

\* The ring after it: one header more, behind the others.
LEMMA ReceivedRing ==
  ASSUME Counted, InOrder, Received
  PROVE  LET h == Head(posted) IN
         /\ Queue' = Append(Queue, h)
         /\ Waiting' = Waiting \cup {h}
         /\ DOMAIN Queue' = 1 .. nSizeOfList + 1 /\ Queue'[nSizeOfList + 1] = h
         /\ \A i \in 1 .. nSizeOfList : Queue'[i] = Queue[i]
<1> DEFINE h == Head(posted)
           L == pBufHdrList
           n == nSizeOfList
<1>1. /\ n \in Nat /\ n < nBufNeedSize /\ n' = n + 1 /\ nBufNeedSize \in Nat \ {0}
      /\ L' = [L EXCEPT ![Slot(n)] = h] /\ L \in [Headers -> Headers \cup {NoHeader}]
      /\ nReadPos' = nReadPos /\ TypeOK
  BY ReceivedFacts, PortAssumption DEF Counted, TypeOK
<1>2. \A i : Slot(i)' = Slot(i)
  BY <1>1 DEF Slot
<1>3. \A i \in 0 .. n - 1 : Slot(i) \in Headers /\ Slot(i) # Slot(n)
  BY <1>1, SlotType, SlotsDiffer
<1>4. Slot(n) \in Headers
  BY <1>1, SlotType
<1>5. \A i \in 0 .. n - 1 : L'[Slot(i)] = L[Slot(i)]
  BY <1>1, <1>3
<1>6. L'[Slot(n)] = h
  BY <1>1, <1>4
<1>7. Queue' = [i \in 1 .. n + 1 |-> L'[Slot(i - 1)]]
  BY <1>1, <1>2 DEF Queue
<1>8. \A i \in 1 .. n : i - 1 \in 0 .. n - 1 /\ i \in 1 .. n + 1
  BY <1>1
<1>9. n + 1 \in 1 .. n + 1 /\ (n + 1) - 1 = n
  BY <1>1
<1>10. Queue'[n + 1] = h
  BY <1>6, <1>7, <1>9
<1>11. \A i \in 1 .. n : Queue'[i] = Queue[i]
  BY <1>5, <1>7, <1>8 DEF Queue
<1>12. Queue' = Append(Queue, h)
  <2> DEFINE S == Headers \cup {NoHeader}
  <2>1. Queue \in Seq(S) /\ Len(Queue) = n
    BY <1>1, <1>3, <1>8 DEF Queue
  <2>2. h \in S
    BY ReceivedFacts
  <2>3. \A i \in 1 .. n + 1 : i = n + 1 \/ i \in 1 .. n
    BY <1>1
  <2>4. Queue' \in Seq(S) /\ Len(Queue') = n + 1
    <3>1. \A i \in 1 .. n + 1 : Queue'[i] \in S
      BY <1>10, <1>11, <2>1, <2>2, <2>3
    <3> QED
      BY <3>1, <1>7, <1>1
  <2>5. /\ Append(Queue, h) \in Seq(S) /\ Len(Append(Queue, h)) = n + 1
        /\ \A i \in 1 .. n : Append(Queue, h)[i] = Queue[i]
        /\ Append(Queue, h)[n + 1] = h
    BY <2>1, <2>2, AppendProperties
  <2>6. \A i \in 1 .. n + 1 : Queue'[i] = Append(Queue, h)[i]
    BY <2>3, <2>5, <1>10, <1>11
  <2> QED
    BY <2>4, <2>5, <2>6, SeqEqual
<1>13. Waiting' = Waiting \cup {h}
  <2>1. Waiting' = {L'[Slot(i)] : i \in 0 .. n}
    BY <1>1, <1>2 DEF Waiting
  <2>2. \A i \in 0 .. n : i = n \/ i \in 0 .. n - 1
    BY <1>1
  <2>3. n \in 0 .. n /\ 0 .. n - 1 \subseteq 0 .. n
    BY <1>1
  <2> QED
    BY <2>1, <2>2, <2>3, <1>5, <1>6 DEF Waiting
<1> QED
  BY <1>7, <1>10, <1>11, <1>12, <1>13

LEMMA TailMessages ==
  ASSUME Counted, InOrder, Received
  PROVE  /\ posted' \in Seq(Headers)
         /\ InMessages' = InMessages \ {Head(posted)}
         /\ \A i, j \in DOMAIN posted' : posted'[i] = posted'[j] => i = j
<1>1. /\ posted \in Seq(Headers) /\ posted # <<>> /\ posted' = Tail(posted)
      /\ \A i, j \in DOMAIN posted : posted[i] = posted[j] => i = j
  BY DEF Counted, InOrder, TypeOK, Owned, Received
<1>2. /\ posted' \in Seq(Headers) /\ Len(posted) \in Nat \ {0} /\ Head(posted) = posted[1]
      /\ DOMAIN posted = 1 .. Len(posted) /\ DOMAIN posted' = 1 .. Len(posted) - 1
      /\ \A i \in 1 .. Len(posted) - 1 : posted'[i] = posted[i + 1]
  BY <1>1
<1>3. \A i \in 1 .. Len(posted) - 1 : i + 1 \in 1 .. Len(posted) /\ i + 1 # 1
  BY <1>2
<1>4. \A i \in 1 .. Len(posted) : i = 1 \/ (i - 1 \in 1 .. Len(posted) - 1 /\ (i - 1) + 1 = i)
  BY <1>2
<1>5. 1 \in 1 .. Len(posted)
  BY <1>2
<1>6. \A x : x \in InMessages' => x \in InMessages \ {Head(posted)}
  BY <1>1, <1>2, <1>3, <1>5 DEF InMessages
<1>7. \A x : x \in InMessages \ {Head(posted)} => x \in InMessages'
  <2> SUFFICES ASSUME NEW i \in 1 .. Len(posted), posted[i] # posted[1]
               PROVE  posted[i] \in InMessages'
    BY <1>2 DEF InMessages
  <2>1. i - 1 \in DOMAIN posted' /\ posted'[i - 1] = posted[i]
    BY <1>2, <1>4
  <2> QED
    BY <2>1 DEF InMessages
<1>8. \A i, j \in DOMAIN posted' : posted'[i] = posted'[j] => i = j
  <2> SUFFICES ASSUME NEW i \in 1 .. Len(posted) - 1, NEW j \in 1 .. Len(posted) - 1,
                      posted'[i] = posted'[j]
               PROVE  i = j
    BY <1>2
  <2>1. i + 1 = j + 1
    BY <1>1, <1>2, <1>3
  <2> QED
    BY <1>2, <2>1
<1> QED
  BY <1>2, <1>6, <1>7, <1>8

LEMMA ReceivedOrder == ASSUME Counted, InOrder, Received PROVE InOrder'
<1> DEFINE h == Head(posted)
           n == nSizeOfList
<1>1. /\ n \in Nat /\ n < nBufNeedSize /\ n' = n + 1 /\ nBufNeedSize \in Nat \ {0}
      /\ pBufHdrList' = [pBufHdrList EXCEPT ![Slot(n)] = h]
      /\ pBufHdrList \in [Headers -> Headers \cup {NoHeader}]
      /\ h \in Headers /\ nReadPos' = nReadPos /\ nReadPos \in Headers /\ TypeOK
      /\ nWritePos' = After(nWritePos) /\ nWritePos = Slot(n) /\ nAllocSize = nBufNeedSize
      /\ nAllocSize' = nAllocSize /\ open /\ open' = open /\ isInput' = isInput
      /\ bPopulated' = bPopulated /\ held' = held /\ hand' = hand /\ flushed' = flushed
      /\ lost' = lost
  BY ReceivedFacts, PortAssumption DEF Counted, InOrder, TypeOK, WriteFollows
<1>2. WriteFollows'
  BY <1>1 DEF WriteFollows, After, Slot, Headers
<1>3. Owned'
  <2>1. /\ h \notin Waiting /\ h # hand /\ h \notin held /\ h \notin lost /\ h \in InMessages
        /\ Waiting' = Waiting \cup {h} /\ InMessages' = InMessages \ {h}
    BY ReceivedFacts, ReceivedRing, TailMessages
  <2>2. \A i, j \in DOMAIN Queue' : Queue'[i] = Queue'[j] => i = j
    <3>1. /\ DOMAIN Queue' = 1 .. n + 1 /\ Queue'[n + 1] = h
          /\ \A i \in 1 .. n : Queue'[i] = Queue[i] /\ Queue[i] \in Waiting
          /\ \A i, j \in 1 .. n : Queue[i] = Queue[j] => i = j
      BY ReceivedRing, QueueIsWaiting, <1>1 DEF InOrder, Owned
    <3>2. \A i \in 1 .. n + 1 : i = n + 1 \/ i \in 1 .. n
      BY <1>1
    <3> QED
      BY <3>1, <3>2, <2>1
  <2>3. \A i, j \in DOMAIN posted' : posted'[i] = posted'[j] => i = j
    BY TailMessages
  <2> QED
    BY <2>1, <2>2, <2>3, <1>1 DEF InOrder, Owned
<1>4. RingIsReal'
  BY ReceivedRing, <1>1, PortAssumption DEF InOrder, RingIsReal
<1>5. SlotKept'
  <2> SUFFICES ASSUME isInput, hand # NoHeader, ~flushed
               PROVE  pBufHdrList'[Before(nReadPos)'] = hand
    BY <1>1 DEF SlotKept
  <2>1. n < nBufNeedSize - 1 /\ pBufHdrList[Before(nReadPos)] = hand
    BY ReceivedFacts DEF InOrder, SlotKept
  <2>2. Before(nReadPos)' = Before(nReadPos) /\ Before(nReadPos) \in Headers
        /\ Before(nReadPos) = Slot(nBufNeedSize - 1)
    BY <1>1 DEF Before, Headers, Slot
  <2>3. Slot(nBufNeedSize - 1) # Slot(n)
    BY <1>1, <2>1, SlotsDiffer
  <2> QED
    BY <1>1, <2>1, <2>2, <2>3
<1>6. Life'
  BY <1>1 DEF InOrder, Life
<1> QED
  BY <1>2, <1>3, <1>4, <1>5, <1>6 DEF InOrder

\* A worker takes the first header, and the others move up.
LEMMA RequestRing ==
  ASSUME Counted, InOrder, doRequestPortBuffer
  PROVE  /\ Queue # <<>> /\ hand' = Head(Queue) /\ Queue' = Tail(Queue) /\ hand' = Queue[1]
         /\ DOMAIN Queue' = 1 .. nSizeOfList - 1 /\ DOMAIN Queue = 1 .. nSizeOfList
         /\ \A i \in 1 .. nSizeOfList - 1 : Queue'[i] = Queue[i + 1]
         /\ Waiting = Waiting' \cup {hand'} /\ hand' \notin Waiting' /\ hand' \in Headers
<1> DEFINE L == pBufHdrList
           n == nSizeOfList
           S == Headers \cup {NoHeader}
<1>1. /\ n \in Nat \ {0} /\ n <= nBufNeedSize /\ n' = n - 1 /\ nBufNeedSize \in Nat \ {0}
      /\ L' = L /\ L \in [Headers -> S] /\ nReadPos \in Headers /\ TypeOK
      /\ nAllocSize = nBufNeedSize /\ nReadPos' = After(nReadPos) /\ hand' = L[nReadPos]
  BY PortAssumption DEF Counted, InOrder, TypeOK, Life, doRequestPortBuffer
<1>2. nReadPos = Slot(0)
  BY <1>1 DEF Slot, Headers
<1>3. \A i \in 0 .. n - 2 : Slot(i)' = Slot(i + 1)
  BY <1>1 DEF Slot, After, Headers
<1>4. /\ \A i \in 1 .. n : Queue[i] = L[Slot(i - 1)] /\ Queue[i] \in Waiting /\ Queue[i] \in S
      /\ DOMAIN Queue = 1 .. n
      /\ \A h \in Waiting : \E i \in 1 .. n : h = Queue[i]
  BY <1>1, QueueIsWaiting
<1>5. Queue' = [i \in 1 .. n - 1 |-> L[Slot(i - 1)']]
  BY <1>1 DEF Queue
<1>6. \A i \in 1 .. n - 1 : i - 1 \in 0 .. n - 2 /\ (i - 1) + 1 = i /\ i + 1 \in 1 .. n
                            /\ (i + 1) - 1 = i /\ i + 1 # 1
  BY <1>1
<1>7. DOMAIN Queue' = 1 .. n - 1 /\ \A i \in 1 .. n - 1 : Queue'[i] = Queue[i + 1]
  BY <1>3, <1>4, <1>5, <1>6
<1>8. 1 \in 1 .. n /\ 1 - 1 = 0
  BY <1>1
<1>9. hand' = Queue[1]
  BY <1>1, <1>2, <1>4, <1>8
<1>10. Queue \in Seq(S) /\ Len(Queue) = n
  BY <1>1, <1>4 DEF Queue
<1>11. Queue # <<>> /\ hand' = Head(Queue)
  BY <1>1, <1>9, <1>10
<1>12. Queue' = Tail(Queue)
  <2>1. Queue' \in Seq(S) /\ Len(Queue') = n - 1
    <3>1. \A i \in 1 .. n - 1 : Queue'[i] \in S
      BY <1>4, <1>6, <1>7
    <3> QED
      BY <3>1, <1>5, <1>1
  <2>2. /\ Tail(Queue) \in Seq(S) /\ Len(Tail(Queue)) = n - 1
        /\ \A i \in 1 .. n - 1 : Tail(Queue)[i] = Queue[i + 1]
    BY <1>10, <1>11
  <2> QED
    BY <2>1, <2>2, <1>7, SeqEqual
<1>13. Waiting' = {Queue'[i] : i \in 1 .. n - 1}
  <2>1. Waiting' = {L[Slot(i)'] : i \in 0 .. n - 2}
    BY <1>1 DEF Waiting
  <2>2. \A i \in 0 .. n - 2 : i + 1 \in 1 .. n - 1 /\ (i + 1) - 1 = i
    BY <1>1
  <2>3. \A i \in 0 .. n - 2 : L[Slot(i)'] = Queue'[i + 1]
    BY <1>5, <2>2
  <2>4. \A i \in 1 .. n - 1 : Queue'[i] = L[Slot(i - 1)']
    BY <1>5
  <2> QED
    BY <2>1, <2>2, <2>3, <2>4, <1>6
<1>14. Waiting' \cup {hand'} \subseteq Waiting
  BY <1>4, <1>6, <1>7, <1>8, <1>9, <1>13
<1>15. Waiting \subseteq Waiting' \cup {hand'}
  <2>1. \A i \in 1 .. n : i = 1 \/ (i - 1 \in 1 .. n - 1 /\ (i - 1) + 1 = i)
    BY <1>1
  <2> QED
    BY <1>4, <1>7, <1>9, <1>13, <2>1
<1>16. hand' \notin Waiting'
  <2>1. \A i \in 1 .. n - 1 : Queue[i + 1] # Queue[1]
    BY <1>4, <1>6, <1>8 DEF InOrder, Owned
  <2> QED
    BY <2>1, <1>7, <1>9, <1>13
<1>17. hand' \in Headers
  BY <1>4, <1>8, <1>9 DEF InOrder, RingIsReal
<1> QED
  BY <1>4, <1>7, <1>9, <1>11, <1>12, <1>14, <1>15, <1>16, <1>17

LEMMA RequestOrder == ASSUME Counted, InOrder, doRequestPortBuffer PROVE InOrder'
<1> DEFINE n == nSizeOfList
<1>1. /\ n \in Nat \ {0} /\ n <= nBufNeedSize /\ n' = n - 1 /\ nBufNeedSize \in Nat \ {0}
      /\ pBufHdrList' = pBufHdrList /\ nReadPos \in Headers
      /\ nAllocSize = nBufNeedSize /\ nReadPos' = After(nReadPos)
      /\ nWritePos' = nWritePos /\ nWritePos = Slot(n) /\ hand' = pBufHdrList[nReadPos]
      /\ hand = NoHeader /\ open /\ UNCHANGED <<life, posted, held, flushed, lost>>
      /\ hand' \in Headers
  BY RequestRing, PortAssumption
     DEF Counted, InOrder, TypeOK, Life, WriteFollows, doRequestPortBuffer, history
<1>2. WriteFollows'
  BY <1>1 DEF WriteFollows, After, Slot, Headers
<1>3. SlotKept'
  <2>1. Before(nReadPos)' = nReadPos
    BY <1>1 DEF Before, After, Headers, life
  <2> QED
    BY <1>1, <2>1 DEF SlotKept, life
<1>4. Owned' /\ RingIsReal'
  <2>1. /\ Waiting = Waiting' \cup {hand'} /\ hand' \notin Waiting'
        /\ InMessages' = InMessages
    BY <1>1, RequestRing DEF InMessages
  <2>2. \A i, j \in DOMAIN Queue' : Queue'[i] = Queue'[j] => i = j
    <3> SUFFICES ASSUME NEW i \in 1 .. n - 1, NEW j \in 1 .. n - 1, Queue'[i] = Queue'[j]
                 PROVE  i = j
      BY RequestRing
    <3>1. i + 1 \in DOMAIN Queue /\ j + 1 \in DOMAIN Queue /\ Queue[i + 1] = Queue[j + 1]
      BY RequestRing, <1>1
    <3>2. i + 1 = j + 1
      BY <3>1 DEF InOrder, Owned
    <3> QED
      BY <3>2
  <2>3. hand' \in Waiting
    BY <2>1
  <2>4. /\ posted' = posted /\ held' = held /\ lost' = lost /\ open' = open
        /\ \A i, j \in DOMAIN posted : posted[i] = posted[j] => i = j
        /\ Waiting \cap InMessages = {} /\ (Waiting \cup InMessages) \cap (held \cup lost) = {}
        /\ held \cap lost = {}
        /\ Headers \subseteq Waiting \cup InMessages \cup held \cup lost \cup {NoHeader}
        /\ NoHeader \notin Headers
    BY <1>1, PortAssumption DEF InOrder, Owned, life
  <2>5. /\ Waiting' \cap InMessages' = {}
        /\ (Waiting' \cup InMessages') \cap (held' \cup lost' \cup {hand'}) = {}
    BY <2>1, <2>3, <2>4
  <2>6. Headers \subseteq Waiting' \cup InMessages' \cup held' \cup lost' \cup {hand'}
    BY <2>1, <2>4
  <2>7. hand' \notin held' \cup lost' /\ NoHeader \notin Waiting'
    BY <2>1, <2>3, <2>4 DEF InOrder, RingIsReal
  <2> QED
    BY <2>2, <2>4, <2>5, <2>6, <2>7 DEF Owned, RingIsReal
<1>5. Life'
  BY <1>1 DEF InOrder, Life, life
<1> QED
  BY <1>2, <1>3, <1>4, <1>5 DEF InOrder

\* A put-back with no flush since: the port is open, the slot is the header's.
LEMMA ReturnFacts ==
  ASSUME Counted, InOrder, ~flushed, returnPortBuffer
  PROVE  /\ nSizeOfList \in Nat /\ nSizeOfList < nBufNeedSize /\ nSizeOfList' = nSizeOfList + 1
         /\ pBufHdrList' = pBufHdrList /\ nReadPos \in Headers /\ open /\ TypeOK
         /\ pBufHdrList \in [Headers -> Headers \cup {NoHeader}]
         /\ nAllocSize = nBufNeedSize /\ nReadPos' = Before(nReadPos)
         /\ nWritePos' = nWritePos /\ nWritePos = Slot(nSizeOfList)
         /\ hand \in Headers /\ hand' = NoHeader /\ pBufHdrList[Before(nReadPos)] = hand
         /\ UNCHANGED <<isInput, nAllocSize, bPopulated, open, posted, held, lost>>
<1>1. /\ Leaves /\ isInput /\ hand # NoHeader /\ hand' = NoHeader
      /\ nSizeOfList' = nSizeOfList + 1 /\ nReadPos' = Before(nReadPos)
      /\ pBufHdrList' = pBufHdrList /\ nWritePos' = nWritePos
      /\ UNCHANGED <<isInput, nAllocSize, bPopulated, open, posted, held, lost>>
  BY DEF returnPortBuffer, Leaves, life
<1>2. open /\ nAllocSize = nBufNeedSize
  BY <1>1 DEF InOrder, Life
<1>3. InHand = 1 /\ hand \in Headers
  BY <1>1, LeavesCounted
<1>4. nSizeOfList < nBufNeedSize
  BY <1>2, <1>3, CountFacts DEF Counted, Tokens
<1>5. pBufHdrList[Before(nReadPos)] = hand /\ nWritePos = Slot(nSizeOfList)
  BY <1>1 DEF InOrder, SlotKept, WriteFollows
<1> QED
  BY <1>1, <1>2, <1>3, <1>4, <1>5, CountFacts DEF Counted, TypeOK

\* A header put back is first again.
LEMMA ReturnRing ==
  ASSUME Counted, InOrder, ~flushed, returnPortBuffer
  PROVE  /\ Queue' = <<hand>> \o Queue
         /\ DOMAIN Queue' = 1 .. nSizeOfList + 1 /\ Queue'[1] = hand
         /\ \A i \in 1 .. nSizeOfList : Queue'[i + 1] = Queue[i]
         /\ Waiting' = Waiting \cup {hand} /\ hand \notin Waiting
<1> DEFINE L == pBufHdrList
           n == nSizeOfList
           S == Headers \cup {NoHeader}
<1>1. /\ n \in Nat /\ n < nBufNeedSize /\ n' = n + 1 /\ nBufNeedSize \in Nat \ {0}
      /\ L' = L /\ L \in [Headers -> S] /\ nReadPos \in Headers /\ TypeOK /\ hand \in S
      /\ nAllocSize = nBufNeedSize /\ nReadPos' = Before(nReadPos)
      /\ L[Before(nReadPos)] = hand
  BY PortAssumption, ReturnFacts
<1>2. Slot(0)' = Before(nReadPos)
  BY <1>1 DEF Slot, Headers, Before
<1>3. \A i \in 0 .. n - 1 : Slot(i + 1)' = Slot(i)
  BY <1>1 DEF Slot, Before, Headers
<1>4. /\ \A i \in 1 .. n : Queue[i] = L[Slot(i - 1)] /\ Queue[i] \in Waiting /\ Queue[i] \in S
      /\ DOMAIN Queue = 1 .. n
      /\ \A h \in Waiting : \E i \in 1 .. n : h = Queue[i]
  BY <1>1, QueueIsWaiting
<1>5. Queue' = [i \in 1 .. n + 1 |-> L[Slot(i - 1)']]
  BY <1>1 DEF Queue
<1>6. \A i \in 1 .. n : i + 1 \in 1 .. n + 1 /\ (i + 1) - 1 = (i - 1) + 1 /\ i - 1 \in 0 .. n - 1
  BY <1>1
<1>7. \A i \in 1 .. n : Queue'[i + 1] = Queue[i]
  <2> SUFFICES ASSUME NEW i \in 1 .. n PROVE Queue'[i + 1] = Queue[i]
    OBVIOUS
  <2>1. Queue'[i + 1] = L[Slot((i - 1) + 1)']
    BY <1>5, <1>6
  <2>2. Slot((i - 1) + 1)' = Slot(i - 1)
    BY <1>3, <1>6
  <2> QED
    BY <2>1, <2>2, <1>4
<1>8. 1 \in 1 .. n + 1 /\ 1 - 1 = 0 /\ DOMAIN Queue' = 1 .. n + 1
  BY <1>1, <1>5
<1>9. Queue'[1] = hand
  BY <1>1, <1>2, <1>5, <1>8
<1>10. \A i \in 1 .. n + 1 : i = 1 \/ (i - 1 \in 1 .. n /\ (i - 1) + 1 = i)
  BY <1>1
<1>11. Waiting' = Waiting \cup {hand}
  <2>1. Waiting' = {Queue'[i] : i \in 1 .. n + 1}
    <3>1. Waiting' = {L[Slot(i)'] : i \in 0 .. n}
      BY <1>1 DEF Waiting
    <3>2. \A i \in 0 .. n : i + 1 \in 1 .. n + 1 /\ (i + 1) - 1 = i
      BY <1>1
    <3>3. \A i \in 1 .. n + 1 : i - 1 \in 0 .. n
      BY <1>1
    <3>4. \A i \in 0 .. n : L[Slot(i)'] = Queue'[i + 1]
      BY <1>5, <3>2
    <3>5. \A i \in 1 .. n + 1 : Queue'[i] = L[Slot(i - 1)']
      BY <1>5
    <3> QED
      BY <3>1, <3>2, <3>3, <3>4, <3>5
  <2>2. Waiting' \subseteq Waiting \cup {hand}
    BY <2>1, <1>4, <1>7, <1>9, <1>10
  <2>3. Waiting \cup {hand} \subseteq Waiting'
    BY <2>1, <1>4, <1>6, <1>7, <1>8, <1>9
  <2> QED
    BY <2>2, <2>3
<1>12. Queue' = <<hand>> \o Queue
  <2>1. Queue \in Seq(S) /\ Len(Queue) = n /\ <<hand>> \in Seq(S) /\ Len(<<hand>>) = 1
        /\ <<hand>>[1] = hand
    BY <1>1, <1>4 DEF Queue
  <2>2. Queue' \in Seq(S) /\ Len(Queue') = n + 1
    <3>1. \A i \in 1 .. n + 1 : Queue'[i] \in S
      <4> SUFFICES ASSUME NEW i \in 1 .. n + 1 PROVE Queue'[i] \in S
        OBVIOUS
      <4>1. CASE i = 1
        BY <4>1, <1>1, <1>9
      <4>2. CASE i # 1
        <5>1. i - 1 \in 1 .. n /\ (i - 1) + 1 = i
          BY <4>2, <1>1
        <5>2. Queue'[i] = Queue[i - 1]
          BY <5>1, <1>7
        <5> QED
          BY <5>1, <5>2, <1>4
      <4> QED
        BY <4>1, <4>2
    <3> QED
      BY <3>1, <1>5, <1>1
  <2>3. /\ <<hand>> \o Queue \in Seq(S) /\ Len(<<hand>> \o Queue) = n + 1
        /\ \A i \in 1 .. n + 1 : (<<hand>> \o Queue)[i] =
             IF i <= 1 THEN <<hand>>[i] ELSE Queue[i - 1]
    BY <2>1, <1>1, ConcatProperties
  <2>4. \A i \in 1 .. n + 1 : Queue'[i] = (<<hand>> \o Queue)[i]
    <3> SUFFICES ASSUME NEW i \in 1 .. n + 1 PROVE Queue'[i] = (<<hand>> \o Queue)[i]
      OBVIOUS
    <3>1. CASE i = 1
      BY <3>1, <2>1, <2>3, <1>9
    <3>2. CASE i # 1
      <4>1. i - 1 \in 1 .. n /\ (i - 1) + 1 = i /\ ~(i <= 1)
        BY <3>2, <1>1
      <4>2. Queue'[i] = Queue[i - 1]
        BY <4>1, <1>7
      <4> QED
        BY <4>1, <4>2, <2>3
    <3> QED
      BY <3>1, <3>2
  <2> QED
    BY <2>2, <2>3, <2>4, SeqEqual
<1> QED
  BY <1>7, <1>8, <1>9, <1>11, <1>12 DEF InOrder, Owned

LEMMA ReturnOrder == ASSUME Counted, InOrder, ~flushed, returnPortBuffer PROVE InOrder'
<1> DEFINE n == nSizeOfList
<1>1. /\ n \in Nat /\ n < nBufNeedSize /\ n' = n + 1 /\ nBufNeedSize \in Nat \ {0}
      /\ pBufHdrList' = pBufHdrList /\ nReadPos \in Headers /\ open
      /\ nAllocSize = nBufNeedSize /\ nReadPos' = Before(nReadPos)
      /\ nWritePos' = nWritePos /\ nWritePos = Slot(n)
      /\ UNCHANGED <<isInput, nAllocSize, bPopulated, open, posted, held, lost>>
      /\ hand' = NoHeader /\ hand \in Headers
  BY ReturnFacts, PortAssumption
<1>2. WriteFollows'
  BY <1>1 DEF WriteFollows, Before, Slot, Headers
<1>3. Owned' /\ RingIsReal'
  <2>1. Waiting' = Waiting \cup {hand} /\ hand \notin Waiting /\ InMessages' = InMessages
    BY <1>1, ReturnRing DEF InMessages
  <2>2. \A i, j \in DOMAIN Queue' : Queue'[i] = Queue'[j] => i = j
    <3>1. /\ DOMAIN Queue' = 1 .. n + 1 /\ Queue'[1] = hand
          /\ \A i \in 1 .. n : Queue'[i + 1] = Queue[i] /\ Queue[i] \in Waiting
          /\ \A i, j \in 1 .. n : Queue[i] = Queue[j] => i = j
      BY ReturnRing, QueueIsWaiting DEF Counted, InOrder, Owned
    <3>2. \A i \in 1 .. n + 1 : i = 1 \/ (i - 1 \in 1 .. n /\ (i - 1) + 1 = i)
      BY <1>1
    <3>3. \A i \in 1 .. n + 1 : i # 1 => Queue'[i] = Queue[i - 1] /\ Queue[i - 1] # hand
      BY <3>1, <3>2, <2>1
    <3> SUFFICES ASSUME NEW i \in 1 .. n + 1, NEW j \in 1 .. n + 1, Queue'[i] = Queue'[j]
                 PROVE  i = j
      BY <3>1
    <3>4. i = 1 \/ j = 1 => i = j
      BY <3>1, <3>3
    <3>5. CASE i # 1 /\ j # 1
      <4>1. i - 1 = j - 1
        BY <3>1, <3>2, <3>3, <3>5
      <4> QED
        BY <4>1
    <3> QED
      BY <3>4, <3>5
  <2>3. NoHeader \notin held \cup lost /\ NoHeader \notin InMessages /\ NoHeader \notin Headers
    BY PortAssumption DEF Counted, TypeOK, InMessages
  <2> QED
    BY <1>1, <2>1, <2>2, <2>3 DEF InOrder, Owned, RingIsReal
<1>4. SlotKept'
  BY <1>1 DEF SlotKept
<1>5. Life'
  BY <1>1 DEF InOrder, Life
<1> QED
  BY <1>2, <1>3, <1>4, <1>5 DEF InOrder
-----------------------------------------------------------------------------
(* A flush, whether the worker has a header or not. *)

\* What a flush leaves: nothing.
LEMMA FlushRing ==
  ASSUME Counted, InOrder, doFlushPortBuffer
  PROVE  /\ Queue' = <<>> /\ Waiting' = {} /\ DOMAIN Queue' = {}
         /\ held' = held \cup Waiting /\ Waiting \subseteq Headers /\ held' \subseteq Headers
         /\ nSizeOfList' = 0 /\ nReadPos' = 0 /\ nWritePos' = 0
         /\ UNCHANGED <<posted, hand, lost>> /\ InMessages' = InMessages
         /\ (hand' # NoHeader => flushed') /\ WriteFollows' /\ RingIsReal' /\ SlotKept'
<1>1. /\ nSizeOfList' = 0 /\ nReadPos' = 0 /\ nWritePos' = 0
      /\ UNCHANGED <<posted, hand, lost>> /\ (hand' # NoHeader => flushed')
      /\ held' = held \cup (Waiting \cap Headers)
  BY DEF doFlushPortBuffer
<1>2. Waiting \subseteq Headers /\ held \subseteq Headers
  BY QueueIsWaiting DEF Counted, InOrder, RingIsReal, TypeOK
<1>3. Queue' = <<>> /\ DOMAIN Queue' = {} /\ Waiting' = {} /\ InMessages' = InMessages
  BY <1>1 DEF Queue, Waiting, InMessages
<1>4. WriteFollows'
  BY <1>1, PortAssumption DEF WriteFollows, Slot
<1>5. RingIsReal' /\ SlotKept'
  BY <1>1, <1>3 DEF RingIsReal, SlotKept
<1> QED
  BY <1>1, <1>2, <1>3, <1>4, <1>5

LEMMA FlushOwned ==
  ASSUME Counted, InOrder, doFlushPortBuffer, open' => open
  PROVE  Owned'
<1>1. /\ Waiting' = {} /\ DOMAIN Queue' = {} /\ held' = held \cup Waiting
      /\ UNCHANGED <<posted, hand, lost>> /\ InMessages' = InMessages
  BY FlushRing
<1>2. open' => Headers \subseteq Waiting' \cup InMessages' \cup held' \cup lost' \cup {hand'}
  BY <1>1 DEF InOrder, Owned
<1> QED
  BY <1>1, <1>2 DEF InOrder, Owned

LEMMA FlushOrder == ASSUME Counted, InOrder, Flush \/ PauseToExecuting PROVE InOrder'
<1>1. doFlushPortBuffer /\ UNCHANGED <<isInput, nAllocSize, bPopulated, open>>
  BY DEF Flush, PauseToExecuting, life
<1>2. Owned' /\ WriteFollows' /\ RingIsReal' /\ SlotKept'
  BY <1>1, FlushOwned, FlushRing
<1>3. ~open => held' = held
  <2> SUFFICES ASSUME ~open PROVE held' = held
    OBVIOUS
  <2>1. nSizeOfList = 0
    BY DEF InOrder, Life
  <2>2. Waiting = {}
    BY <2>1 DEF Waiting
  <2> QED
    BY <1>1, <2>2, FlushRing
<1>4. Life'
  BY <1>1, <1>3, FlushRing DEF InOrder, Life, InHand
<1> QED
  BY <1>2, <1>4 DEF InOrder

LEMMA CloseOrder == ASSUME Counted, InOrder, Close PROVE InOrder'
<1>1. /\ doFlushPortBuffer /\ open /\ ~open' /\ posted = <<>>
      /\ UNCHANGED <<isInput, nAllocSize, bPopulated>>
  BY DEF Close
<1>2. nAllocSize = nBufNeedSize /\ bPopulated
  BY <1>1 DEF InOrder, Life
<1>3. Owned' /\ WriteFollows' /\ RingIsReal' /\ SlotKept'
  BY <1>1, FlushOwned, FlushRing
<1>4. Headers \subseteq held' \cup lost \cup {hand}
  <2>1. InMessages = {}
    BY <1>1 DEF InMessages
  <2> QED
    BY <1>1, <2>1, FlushRing DEF InOrder, Owned
<1>5. Cardinality(held') + Cardinality(lost) + InHand = nBufNeedSize
  <2>1. held' \in SUBSET Headers /\ lost \in SUBSET Headers /\ lost' = lost /\ hand' = hand
    BY <1>1, FlushRing DEF Counted, TypeOK
  <2>2. held' \cap lost = {} /\ hand \notin held' \cup lost
    BY <1>3, <2>1 DEF Owned
  <2> QED
    BY <1>4, <2>1, <2>2, Shared
<1>6. InHand' = InHand /\ lost' = lost
  BY <1>1, FlushRing DEF InHand
<1>7. Life'
  BY <1>1, <1>2, <1>5, <1>6, FlushRing, CountFacts DEF Life
<1> QED
  BY <1>3, <1>7 DEF InOrder

\* A worker halts or goes on, or nothing happens.
LEMMA StillOrder == ASSUME Counted, InOrder, Halt \/ GoOn \/ UNCHANGED vars PROVE InOrder'
<1>1. /\ UNCHANGED ring
      /\ UNCHANGED <<isInput, nAllocSize, bPopulated, open, posted, held, hand, flushed, lost>>
  BY DEF Halt, GoOn, vars, life, history
<1>2. InMessages' = InMessages /\ InHand' = InHand /\ Before(nReadPos)' = Before(nReadPos)
  BY <1>1 DEF InMessages, InHand, Before, ring
<1>3. Owned'
  BY <1>1, <1>2, RingStays DEF InOrder, Owned
<1>4. WriteFollows' /\ RingIsReal'
  BY <1>1, RingStays DEF InOrder
<1>5. SlotKept' /\ Life'
  BY <1>1, <1>2 DEF InOrder, SlotKept, Life, ring
<1> QED
  BY <1>3, <1>4, <1>5 DEF InOrder

LEMMA OrderNext == Counted /\ InOrder /\ ~strayed /\ ~strayed' /\ [Next]_vars => InOrder'
<1> SUFFICES ASSUME Counted, InOrder, ~strayed, ~strayed', [Next]_vars PROVE InOrder'
  OBVIOUS
<1>1. CASE UseBuffer
  BY <1>1, UseBufferOrder
<1>2. ASSUME NEW h \in Headers, FreeBuffer(h) \/ Give(h) PROVE InOrder'
  BY <1>2, FreeBufferOrder, GiveOrder
<1>3. CASE Open
  BY <1>3, OpenOrder
<1>4. CASE Close
  BY <1>4, CloseOrder
<1>5. CASE Flush \/ PauseToExecuting
  BY <1>5, FlushOrder
<1>6. CASE Halt \/ GoOn \/ UNCHANGED vars
  BY <1>6, StillOrder
<1>7. CASE Received
  BY <1>7, ReceivedOrder
<1>8. CASE doRequestPortBuffer
  BY <1>8, RequestOrder
<1>9. CASE BufferDone \/ DropHeader
  BY <1>9, DoneOrder
<1>10. CASE returnPortBuffer
  <2>1. ~flushed
    BY <1>10 DEF returnPortBuffer
  <2> QED
    BY <1>10, <2>1, ReturnOrder
<1> QED
  BY <1>1, <1>2, <1>3, <1>4, <1>5, <1>6, <1>7, <1>8, <1>9, <1>10 DEF Next

\* A stray is never undone.
LEMMA StrayedStays == [Next]_vars /\ strayed => strayed'
BY DEF Next, UseBuffer, FreeBuffer, Open, Give, Received, doRequestPortBuffer, BufferDone,
   DropHeader, returnPortBuffer, Flush, Close, PauseToExecuting, doFlushPortBuffer, Halt, GoOn,
   history, vars
-----------------------------------------------------------------------------
(* The inductive invariant: the ring always has a place for every header    *)
(* that may come to it, even after a stray; and until there is one, the     *)
(* ring, the messages, the client, the worker and the lost share the        *)
(* headers out among them, and the write position follows the last header.  *)
THEOREM IInvHolds == Spec => []IInv
<1>1. Init => IInv
  BY InitInv
<1>2. IInv /\ [Next]_vars => IInv'
  <2> SUFFICES ASSUME IInv, [Next]_vars PROVE IInv'
    OBVIOUS
  <2>1. Counted'
    BY CountedNext DEF IInv
  <2>2. ~strayed' => InOrder'
    BY StrayedStays, OrderNext DEF IInv
  <2> QED
    BY <2>1, <2>2 DEF IInv
<1> QED
  BY <1>1, <1>2, PTL DEF Spec

(* The positions and counts of the ring stay in range, in particular        *)
(* nReadPos, which a put-back takes below zero and wraps, also after a      *)
(* flush and while the port is freed.                                       *)
THEOREM TypeCorrect == Spec => []TypeOK
<1>1. IInv => TypeOK
  BY DEF IInv, Counted
<1> QED
  BY <1>1, IInvHolds, PTL

(* No header is in two places and only the drain thread loses one, for any  *)
(* number of headers, unless one is put back after a flush.                 *)
THEOREM HeadersHaveOneOwner == Spec => []OneOwner
<1>1. IInv => OneOwner
  BY DEF IInv, InOrder, OneOwner
<1> QED
  BY <1>1, IInvHolds, PTL

(* The ring has room for a header put back, and unless it was flushed       *)
(* meanwhile the header is put back at its slot, which still holds it.      *)
THEOREM PutBackIsSafe == Spec => []PutBackFindsItsSlot
<1>1. IInv => PutBackFindsItsSlot
  <2> SUFFICES ASSUME IInv, isInput, hand # NoHeader
               PROVE  /\ nSizeOfList < nAllocSize
                      /\ ~flushed /\ ~strayed => pBufHdrList[Before(nReadPos)] = hand
    BY DEF PutBackFindsItsSlot
  <2>1. InHand = 1
    BY DEF InHand
  <2>2. nSizeOfList < nAllocSize
    BY <2>1, CountFacts DEF IInv, Counted, Tokens
  <2> QED
    BY <2>2 DEF IInv, InOrder, SlotKept
<1> QED
  BY <1>1, IInvHolds, PTL

(* The ring with its put-back works the headers off in the order the        *)
(* component received them, until one is put back after a flush.            *)
THEOREM Refinement == Spec => ImplementsQueue
<1> DEFINE PQ == IF strayed THEN <<>> ELSE Queue
           PW == IF strayed THEN NoHeader ELSE hand
           PF == flushed /\ ~strayed
<1>1. Init => Promise!Init
  BY DEF Init, Promise!Init, Queue
<1>2. IInv /\ [Next]_vars => [Promise!Next]_(Promise!vars)
  <2> SUFFICES ASSUME IInv, [Next]_vars PROVE Promise!Next \/ UNCHANGED Promise!vars
    OBVIOUS
  <2>1. CASE strayed
    <3>1. strayed' /\ isInput
      BY <2>1, StrayedStays DEF IInv, Counted, History
    <3>2. lost' = lost
      BY <3>1 DEF Next, UseBuffer, FreeBuffer, Open, Give, Received, doRequestPortBuffer,
         BufferDone, DropHeader, returnPortBuffer, Flush, Close, PauseToExecuting,
         doFlushPortBuffer, Halt, GoOn, history, vars
    <3> QED
      BY <2>1, <3>1, <3>2 DEF Promise!vars, IInv, Counted, TypeOK
  <2>2. CASE ~strayed
    <3>1. Counted /\ InOrder
      BY <2>2 DEF IInv
    <3>2. ASSUME UNCHANGED ring, UNCHANGED <<hand, flushed, strayed, lost>>
          PROVE  UNCHANGED Promise!vars
      BY <3>2, RingStays DEF Promise!vars
    <3>0. PQ = Queue /\ PW = hand /\ PF = flushed
      <4>1. flushed \in BOOLEAN
        BY <3>1 DEF Counted, TypeOK
      <4> QED
        BY <2>2, <4>1
    <3>10. ASSUME ~strayed' PROVE PQ' = Queue' /\ PW' = hand' /\ PF' = flushed'
      <4>1. flushed' \in BOOLEAN
        BY <3>1, CountedNext DEF Counted, TypeOK
      <4> QED
        BY <3>10, <4>1
    <3> HIDE DEF PQ, PW, PF
    <3>3. CASE Received
      <4> DEFINE h == Head(posted)
      <4>1. h \in Headers /\ h \notin Waiting /\ h # hand /\ hand' = hand /\ h \notin lost
            /\ Queue' = Append(Queue, h) /\ lost' = lost /\ flushed' = flushed
            /\ strayed' = strayed
        BY <3>1, <3>3, ReceivedFacts, ReceivedRing DEF Received, history
      <4>2. \A i \in DOMAIN Queue : Queue[i] # h
        BY <3>1, <4>1, QueueIsWaiting DEF Counted
      <4> HIDE DEF h
      <4>3. PQ' = Append(PQ, h) /\ PW' = PW /\ PF' = PF
        BY <2>2, <3>0, <3>10, <4>1, Zenon
      <4>4. h # PW /\ \A i \in DOMAIN PQ : PQ[i] # h
        BY <3>0, <4>1, <4>2, Zenon
      <4>5. Promise!Receive(h)
        BY <4>1, <4>3, <4>4, Zenon DEF Promise!Receive, Promise!Waits, PQ, PW, PF
      <4> QED
        BY <2>2, <4>1, <4>5, Zenon DEF Promise!Next
    <3>4. CASE doRequestPortBuffer
      <4>1. hand = NoHeader /\ Queue # <<>> /\ hand' = Head(Queue) /\ Queue' = Tail(Queue)
            /\ lost' = lost /\ flushed' = flushed /\ strayed' = strayed
        BY <3>1, <3>4, RequestRing DEF doRequestPortBuffer, history
      <4>2. PW = NoHeader /\ PQ # <<>> /\ PW' = Head(PQ) /\ PQ' = Tail(PQ) /\ PF' = PF
        BY <2>2, <3>0, <3>10, <4>1, Zenon
      <4>3. Promise!Begin
        BY <4>1, <4>2, Zenon DEF Promise!Begin, PQ, PW, PF
      <4> QED
        BY <2>2, <4>3, Zenon DEF Promise!Next
    <3>5. CASE BufferDone \/ DropHeader
      <4>1. /\ hand # NoHeader /\ hand' = NoHeader /\ flushed' = FALSE /\ Queue' = Queue
            /\ strayed' = strayed
        BY <3>5, RingStays DEF BufferDone, DropHeader, Leaves
      <4>2. lost' = lost \/ lost' = lost \cup {hand}
        BY <3>5 DEF BufferDone, DropHeader
      <4>3. PW # NoHeader /\ PW' = NoHeader /\ PF' = FALSE /\ PQ' = PQ
            /\ (lost' = lost \/ lost' = lost \cup {PW})
        BY <2>2, <3>0, <3>10, <4>1, <4>2, Zenon
      <4>4. Promise!Done \/ Promise!Lose
        BY <4>1, <4>3, Zenon DEF Promise!Done, Promise!Lose, Promise!End, PQ, PW, PF
      <4> QED
        BY <2>2, <4>4, Zenon DEF Promise!Next
    <3>6. CASE returnPortBuffer
      <4>1. hand # NoHeader /\ hand' = NoHeader /\ flushed' = FALSE /\ lost' = lost
            /\ strayed' = (strayed \/ flushed)
        BY <3>6 DEF returnPortBuffer, Leaves
      <4>2. PW # NoHeader
        BY <3>0, <4>1, Zenon
      <4>3. CASE flushed
        <5>1. strayed' = TRUE
          BY <4>1, <4>3
        <5>2. PQ' = <<>> /\ PW' = NoHeader /\ PF' = FALSE
          BY <5>1 DEF PQ, PW, PF
        <5>3. PF
          BY <3>0, <4>3
        <5>4. Promise!Stray
          BY <4>1, <4>2, <5>1, <5>2, <5>3, Zenon DEF Promise!Stray, Promise!End, PQ, PW, PF
        <5> QED
          BY <2>2, <5>4, Zenon DEF Promise!Next
      <4>4. CASE ~flushed
        <5>1. Queue' = <<hand>> \o Queue
          BY <3>1, <3>6, <4>4, ReturnRing
        <5>2. strayed \in BOOLEAN
          BY <3>1 DEF Counted, TypeOK
        <5>3. strayed' = strayed
          BY <2>2, <4>1, <4>4, <5>2
        <5>4. PQ' = <<PW>> \o PQ /\ PW' = NoHeader /\ PF' = FALSE /\ ~PF
          BY <2>2, <3>0, <3>10, <4>1, <4>4, <5>1, <5>3, Zenon
        <5>5. Promise!TryLater
          BY <4>1, <4>2, <5>3, <5>4, Zenon DEF Promise!TryLater, Promise!End, PQ, PW, PF
        <5> QED
          BY <2>2, <5>5, Zenon DEF Promise!Next
      <4> QED
        BY <4>3, <4>4
    <3>7. CASE Flush \/ Close \/ PauseToExecuting
      <4>1. doFlushPortBuffer
        BY <3>7 DEF Flush, Close, PauseToExecuting
      <4>2. Queue' = <<>> /\ hand' = hand /\ lost' = lost /\ strayed' = strayed
            /\ flushed' = (hand # NoHeader)
        BY <3>1, <4>1, FlushRing DEF doFlushPortBuffer
      <4>3. PQ' = <<>> /\ PF' = (PW # NoHeader) /\ PW' = PW
        BY <2>2, <3>0, <3>10, <4>2, Zenon
      <4>4. Promise!GiveAllBack
        BY <4>2, <4>3, Zenon DEF Promise!GiveAllBack, PQ, PW, PF
      <4> QED
        BY <2>2, <4>4, Zenon DEF Promise!Next
    <3>8. CASE \/ UseBuffer \/ Open \/ Halt \/ GoOn
               \/ \E h \in Headers : FreeBuffer(h) \/ Give(h)
      BY <3>2, <3>8 DEF UseBuffer, Open, Halt, GoOn, FreeBuffer, Give, history
    <3>9. CASE UNCHANGED vars
      BY <3>2, <3>9 DEF vars, history
    <3> QED
      BY <3>3, <3>4, <3>5, <3>6, <3>7, <3>8, <3>9 DEF Next
  <2> QED
    BY <2>1, <2>2
<1> QED
  BY <1>1, <1>2, IInvHolds, PTL DEF Spec, ImplementsQueue, Promise!Spec
=============================================================================
