-------------------------- MODULE SbmStreamProofs --------------------------
(***************************************************************************)
(* Proofs about SbmStream and StreamSubmit for every buffer size, array    *)
(* length and margin.                                                      *)
(***************************************************************************)
EXTENDS StreamSubmit, SequenceTheorems, TLAPS

\* Wrapping once brings an index of less than two turns back into the array.
LEMMA WrapSlotInRange ==
  ASSUME NEW i \in 0 .. 2 * MaxFrames - 1
  PROVE  WrapSlot(i) \in Slot
BY SbmAssumption DEF WrapSlot, Slot

LEMMA WrapAddrInRange ==
  ASSUME NEW a \in 0 .. 2 * Size - 1
  PROVE  WrapAddr(a) \in Addr
BY SbmAssumption DEF WrapAddr, Addr

\* Less than a turn from a slot, different distances reach different slots.
LEMMA WrapSlotInjective ==
  ASSUME NEW f \in Slot, NEW j \in 0 .. MaxFrames - 1, NEW k \in 0 .. MaxFrames - 1,
         WrapSlot(f + j) = WrapSlot(f + k)
  PROVE  j = k
BY SbmAssumption DEF WrapSlot, Slot

\* One step and then k - 1 steps are k steps.
LEMMA WrapSlotSteps ==
  ASSUME NEW f \in Slot, NEW k \in 1 .. MaxFrames
  PROVE  WrapSlot(WrapSlot(f + 1) + (k - 1)) = WrapSlot(f + k)
BY SbmAssumption DEF WrapSlot, Slot

-----------------------------------------------------------------------------
LEMMA InitIInv == Init => IInv
<1> SUFFICES ASSUME Init PROVE IInv
  OBVIOUS
<1> USE SbmAssumption
<1>1. TypeOK
  BY DEF Init, TypeOK, Slot, Addr, Frame, NoGrant
<1>2. PositionsAgree /\ Contiguous /\ GrantIsHonoured /\ NeverAborts
  BY DEF Init, PositionsAgree, Contiguous, GrantIsHonoured, NeverAborts, LiveSlot, WrapSlot, Slot, NoGrant
<1> QED
  BY <1>1, <1>2 DEF IInv

LEMMA RequestBufferIInv ==
  ASSUME IInv, NEW n \in Nat, RequestBuffer(n)
  PROVE  IInv'
<1> USE SbmAssumption DEF RequestBuffer, bytes, fifo
<1>1. TypeOK'
  BY DEF IInv, TypeOK, HasRoomFor
<1>2. PositionsAgree'
  BY DEF IInv, PositionsAgree, LiveSlot
<1>3. Contiguous'
  BY DEF IInv, Contiguous, LiveSlot, Base
<1>4. GrantIsHonoured'
  BY DEF IInv, TypeOK, HasRoomFor, GrantIsHonoured
<1> QED
  BY <1>1, <1>2, <1>3, <1>4 DEF IInv, NeverAborts

LEMMA RequestStreamIInv ==
  ASSUME IInv, RequestStream
  PROVE  IInv'
<1> USE SbmAssumption DEF RequestStream, bytes
<1>1. TypeOK'
  BY DEF IInv, TypeOK, WrapSlot, Slot
<1>2. PositionsAgree'
  <2>1. Len(held') = Len(held) + 1
    BY DEF IInv, TypeOK
  <2>2. nWritePos' = LiveSlot(nValidFrameNum)' /\ Len(held') = (nValidFrameNum - nUnReadFrameNum)'
    BY <2>1 DEF IInv, TypeOK, PositionsAgree, LiveSlot
  <2>3. nReadPos' = LiveSlot(nValidFrameNum - nUnReadFrameNum)'
    BY DEF IInv, TypeOK, PositionsAgree, LiveSlot, WrapSlot, Slot
  <2>4. ASSUME NEW k \in 1 .. Len(held') PROVE held'[k] = LiveSlot(k - 1)'
    BY <2>1, <2>4 DEF IInv, TypeOK, PositionsAgree, LiveSlot
  <2> QED
    BY <2>2, <2>3, <2>4 DEF PositionsAgree
<1>3. Contiguous'
  BY DEF IInv, Contiguous, LiveSlot, Base
<1>4. GrantIsHonoured'
  BY DEF IInv, GrantIsHonoured
<1> QED
  BY <1>1, <1>2, <1>3, <1>4 DEF IInv, NeverAborts

\* The frame added goes to the slot after the live ones, so the live ones stay.
LEMMA Append1IInv ==
  ASSUME IInv, NEW n \in Nat, NEW t \in Pts,
         Append1([pData |-> pWriteAddr, nLength |-> n, nPts |-> t]),
         Accepts([pData |-> pWriteAddr, nLength |-> n, nPts |-> t]),
         grant' = NoGrant, UNCHANGED <<held, aborted>>
  PROVE  IInv'
<1> DEFINE info == [pData |-> pWriteAddr, nLength |-> n, nPts |-> t]
<1> USE SbmAssumption
<1>1. /\ nValidFrameNum < MaxFrames
      /\ n + nValidDataSize <= Size
  BY DEF Accepts
<1>2. info \in Frame
  BY <1>1 DEF IInv, TypeOK, Frame, Addr
<1>3. TypeOK'
  BY <1>1, <1>2 DEF IInv, TypeOK, Append1, pNewWriteAddr, WrapSlot, WrapAddr, Slot, Addr
<1>4. \A k \in 0 .. nValidFrameNum - 1 :
        /\ LiveSlot(k) \in Slot
        /\ LiveSlot(k) # nWritePos
        /\ LiveSlot(k)' = LiveSlot(k)
  BY <1>1 DEF IInv, TypeOK, PositionsAgree, LiveSlot, WrapSlot, Slot, Append1
<1>5. ASSUME NEW k \in Int, k = nValidFrameNum
      PROVE  LiveSlot(k)' = nWritePos
  BY <1>5 DEF IInv, PositionsAgree, LiveSlot, Append1
<1>6. /\ pFrames'[nWritePos] = info
      /\ off'[nWritePos] = nValidDataSize
      /\ \A k \in 0 .. nValidFrameNum - 1 : /\ pFrames'[LiveSlot(k)] = pFrames[LiveSlot(k)]
                                            /\ off'[LiveSlot(k)] = off[LiveSlot(k)]
  BY <1>4 DEF IInv, TypeOK, Append1
<1>7. PositionsAgree'
  <2>1. nWritePos' = LiveSlot(nValidFrameNum)'
    BY <1>1 DEF IInv, TypeOK, PositionsAgree, LiveSlot, WrapSlot, Slot, Append1
  <2>2. nReadPos' = LiveSlot(nValidFrameNum - nUnReadFrameNum)'
    BY <1>1 DEF IInv, TypeOK, PositionsAgree, LiveSlot, Append1
  <2>3. Len(held') = (nValidFrameNum - nUnReadFrameNum)'
    BY DEF IInv, TypeOK, PositionsAgree, Append1
  <2>4. \A k \in 1 .. Len(held') : held'[k] = LiveSlot(k - 1)'
    BY DEF IInv, TypeOK, PositionsAgree, LiveSlot, Append1
  <2> QED
    BY <2>1, <2>2, <2>3, <2>4 DEF PositionsAgree
<1>8. Base' = Base
  BY <1>1 DEF IInv, TypeOK, Base, Append1, pNewWriteAddr, WrapAddr, Addr
<1>9. pWriteAddr = WrapAddr(Base + nValidDataSize)
  BY DEF IInv, TypeOK, Base, WrapAddr, Addr
<1>10. Contiguous'
  <2>1. nValidFrameNum' > 0
    BY DEF IInv, TypeOK, Append1
  <2>2. LiveSlot(nValidFrameNum - 1)' = nWritePos
    BY DEF IInv, TypeOK, PositionsAgree, Append1, LiveSlot
  <2>3. off'[nWritePos] + pFrames'[nWritePos].nLength = nValidDataSize'
    BY <1>6 DEF IInv, TypeOK, Append1
  <2>4. off'[nFlushPos'] = 0
    <3>1. CASE nValidFrameNum = 0
      BY <3>1, <1>6 DEF IInv, TypeOK, PositionsAgree, Contiguous, LiveSlot, WrapSlot, Slot, Append1
    <3>2. CASE nValidFrameNum > 0
      <4>1. LiveSlot(0) = nFlushPos
        BY DEF IInv, TypeOK, LiveSlot, WrapSlot, Slot
      <4> QED
        BY <3>2, <4>1, <1>6 DEF IInv, TypeOK, Contiguous, Append1
    <3> QED
      BY <3>1, <3>2 DEF IInv, TypeOK
  <2>5. ASSUME NEW k \in 0 .. nValidFrameNum' - 1
        PROVE  LET s == LiveSlot(k)'
               IN /\ pFrames'[s].pData = WrapAddr(Base' + off'[s])
                  /\ off'[s] + pFrames'[s].nLength <= nValidDataSize'
                  /\ k + 1 < nValidFrameNum' =>
                       off'[LiveSlot(k + 1)'] = off'[s] + pFrames'[s].nLength
    <3>1. CASE k = nValidFrameNum
      <4>1. LiveSlot(k)' = nWritePos
        BY <3>1, <1>5
      <4>2. ~(k + 1 < nValidFrameNum')
        BY <3>1 DEF IInv, TypeOK, Append1
      <4> QED
        BY <4>1, <4>2, <1>6, <1>8, <1>9, <2>3 DEF IInv, TypeOK, Append1
    <3>2. CASE k < nValidFrameNum
      <4>1. k \in 0 .. nValidFrameNum - 1
        BY <3>2 DEF IInv, TypeOK
      <4>2. /\ pFrames'[LiveSlot(k)'].pData = WrapAddr(Base' + off'[LiveSlot(k)'])
            /\ off'[LiveSlot(k)'] + pFrames'[LiveSlot(k)'].nLength <= nValidDataSize'
        <5>1. LiveSlot(k)' = LiveSlot(k) /\ LiveSlot(k) \in Slot
          BY <4>1, <1>4
        <5>2. pFrames[LiveSlot(k)].nLength \in 0 .. Size /\ off[LiveSlot(k)] \in 0 .. Size
          BY <5>1 DEF IInv, TypeOK, Frame
        <5>3. nValidDataSize <= nValidDataSize' /\ nValidDataSize \in Int /\ nValidDataSize' \in Int
          BY DEF IInv, TypeOK, Append1
        <5> QED
          BY <4>1, <5>1, <5>2, <5>3, <1>6, <1>8 DEF IInv, Contiguous
      <4>3. CASE k + 1 < nValidFrameNum
        <5>1. k + 1 \in 0 .. nValidFrameNum - 1
          BY <4>3, <4>1 DEF IInv, TypeOK
        <5> QED
          BY <4>1, <4>2, <4>3, <5>1, <1>4, <1>6 DEF IInv, Contiguous
      <4>4. CASE k + 1 = nValidFrameNum
        <5>1. LiveSlot(nValidFrameNum - 1) = LiveSlot(k)
          BY <4>1, <4>4 DEF IInv, TypeOK
        <5>2. off[LiveSlot(k)] + pFrames[LiveSlot(k)].nLength = nValidDataSize
          BY <4>1, <4>4, <5>1 DEF IInv, TypeOK, Contiguous
        <5>3. off'[LiveSlot(k + 1)'] = nValidDataSize
          BY <4>1, <4>4, <1>5, <1>6
        <5> QED
          BY <4>1, <4>2, <5>2, <5>3, <1>4, <1>6
      <4> QED
        BY <4>1, <4>2, <4>3, <4>4 DEF IInv, TypeOK
    <3> QED
      BY <3>1, <3>2 DEF IInv, TypeOK, Append1
  <2>6. ASSUME NEW j \in 0 .. nValidFrameNum' - 1, NEW k \in 0 .. nValidFrameNum' - 1, j < k
        PROVE  off'[LiveSlot(j)'] + pFrames'[LiveSlot(j)'].nLength <= off'[LiveSlot(k)']
    <3>1. j \in 0 .. nValidFrameNum - 1
      BY <2>6 DEF IInv, TypeOK, Append1
    <3>2. CASE k = nValidFrameNum
      <4>1. LiveSlot(k)' = nWritePos
        BY <3>2, <1>5
      <4> QED
        BY <3>1, <4>1, <1>4, <1>6 DEF IInv, Contiguous
    <3>3. CASE k \in 0 .. nValidFrameNum - 1
      BY <3>1, <3>3, <2>6, <1>4, <1>6 DEF IInv, Contiguous
    <3> QED
      BY <3>2, <3>3 DEF IInv, TypeOK, Append1
  <2> QED
    BY <2>1, <2>2, <2>3, <2>4, <2>5, <2>6 DEF Contiguous
<1>11. GrantIsHonoured' /\ NeverAborts'
  BY DEF IInv, GrantIsHonoured, NeverAborts
<1> QED
  BY <1>3, <1>7, <1>10, <1>11 DEF IInv

LEMMA SubmitFrameIInv ==
  ASSUME IInv, NEW n \in Lens, NEW t \in Pts, SubmitFrame(n, t)
  PROVE  IInv'
<1> DEFINE info == [pData |-> pWriteAddr, nLength |-> n, nPts |-> t]
<1> USE SbmAssumption
\* What was granted fits, so AddStream does not refuse it.
<1>1. Accepts(info)
  BY DEF IInv, TypeOK, GrantIsHonoured, Accepts, SubmitFrame, NoGrant, NULL, Addr
<1>2. n \in Nat
  OBVIOUS
<1>3. Append1(info) /\ grant' = NoGrant /\ UNCHANGED <<held, aborted>>
  BY <1>1 DEF SubmitFrame, AddStream
<1> QED
  BY <1>1, <1>2, <1>3, Append1IInv

LEMMA ReturnStreamIInv ==
  ASSUME IInv, ReturnStream
  PROVE  IInv'
<1> USE SbmAssumption DEF ReturnStream, bytes
<1> DEFINE L == nValidFrameNum - nUnReadFrameNum
<1>1. /\ Len(held) = L
      /\ L \in 1 .. MaxFrames
      /\ held[Len(held)] = LiveSlot(L - 1)
  BY DEF IInv, TypeOK, PositionsAgree
<1>2. LiveSlot(L - 1) = PrevSlot(nReadPos)
  <2>1. nReadPos = WrapSlot(nFlushPos + L) /\ nFlushPos \in Slot
    BY DEF IInv, TypeOK, PositionsAgree, LiveSlot
  <2> HIDE DEF L
  <2> QED
    BY <1>1, <2>1 DEF LiveSlot, WrapSlot, PrevSlot, Slot
<1>3. /\ aborted' = FALSE
      /\ nReadPos' = LiveSlot(L - 1)
  BY <1>1, <1>2
<1>4. /\ held' \in Seq(Slot)
      /\ Len(held') = Len(held) - 1
      /\ \A k \in 1 .. Len(held') : held'[k] = held[k]
  BY <1>1 DEF IInv, TypeOK
<1>5. TypeOK'
  <2>1. nReadPos' \in Slot
    BY <1>2, <1>3 DEF IInv, TypeOK, PrevSlot, Slot
  <2>2. nUnReadFrameNum' \in 0 .. nValidFrameNum'
    BY <1>1 DEF IInv, TypeOK
  <2> QED
    BY <1>3, <1>4, <2>1, <2>2 DEF IInv, TypeOK
<1>6. PositionsAgree'
  <2>1. Len(held') = L - 1 /\ L - 1 = (nValidFrameNum - nUnReadFrameNum)'
    BY <1>1, <1>4 DEF IInv, TypeOK
  <2>2. nReadPos' = LiveSlot(nValidFrameNum - nUnReadFrameNum)'
    BY <2>1, <1>3 DEF LiveSlot
  <2>3. \A k \in 1 .. Len(held') : held'[k] = LiveSlot(k - 1)'
    BY <2>1, <1>1, <1>4 DEF IInv, PositionsAgree, LiveSlot
  <2> QED
    BY <2>1, <2>2, <2>3 DEF IInv, PositionsAgree, LiveSlot
<1>7. Contiguous' /\ GrantIsHonoured' /\ NeverAborts'
  BY <1>3 DEF IInv, Contiguous, LiveSlot, Base, GrantIsHonoured, NeverAborts
<1> QED
  BY <1>5, <1>6, <1>7 DEF IInv

\* Flushing moves the origin of the offsets past the oldest frame.
LEMMA FlushStreamIInv ==
  ASSUME IInv, FlushStream
  PROVE  IInv'
<1> DEFINE len == pFrames[nFlushPos].nLength
           N == nValidFrameNum
           L == nValidFrameNum - nUnReadFrameNum
<1> USE SbmAssumption
<1>1. /\ Len(held) = L
      /\ L \in 1 .. N
      /\ N \in 1 .. MaxFrames
      /\ Head(held) = nFlushPos
  BY DEF IInv, TypeOK, PositionsAgree, LiveSlot, WrapSlot, Slot, FlushStream
<1>2. /\ nFlushPos \in Slot
      /\ len \in 0 .. Size
      /\ off[nFlushPos] = 0
      /\ LiveSlot(0) = nFlushPos
      /\ nValidDataSize \in 0 .. Size
  BY <1>1 DEF IInv, TypeOK, Contiguous, Frame, LiveSlot, WrapSlot, Slot
<1>3. /\ aborted' = FALSE
      /\ nFlushPos' = WrapSlot(nFlushPos + 1)
      /\ nValidFrameNum' = N - 1
      /\ nValidDataSize' = nValidDataSize - len
      /\ off' = [s \in Slot |-> IF off[s] >= len THEN off[s] - len ELSE 0]
      /\ held' = Tail(held)
      /\ UNCHANGED <<pWriteAddr, pFrames, nUnReadFrameNum, nReadPos, nWritePos, grant>>
  BY <1>1 DEF FlushStream
<1>4. ASSUME NEW k \in 0 .. N - 1
      PROVE  /\ LiveSlot(k) \in Slot
             /\ k > 0 => LiveSlot(k - 1)' = LiveSlot(k)
  BY <1>1, <1>2, <1>3 DEF LiveSlot, WrapSlot, Slot
<1>5. ASSUME NEW k \in 1 .. N - 1
      PROVE  /\ off[LiveSlot(k)] >= len
             /\ off'[LiveSlot(k)] = off[LiveSlot(k)] - len
  <2>1. off[LiveSlot(0)] + pFrames[LiveSlot(0)].nLength <= off[LiveSlot(k)]
    BY <1>1 DEF IInv, Contiguous
  <2>2. off[LiveSlot(k)] \in 0 .. Size
    BY <1>4 DEF IInv, TypeOK
  <2> QED
    BY <2>1, <2>2, <1>2, <1>3, <1>4
<1>6. len <= nValidDataSize
  BY <1>1, <1>2 DEF IInv, Contiguous
<1>7. held' \in Seq(Slot) /\ Len(held') = L - 1 /\ \A k \in 1 .. L - 1 : held'[k] = held[k + 1]
  BY <1>1, <1>3 DEF IInv, TypeOK
<1>8. TypeOK'
  <2>1. /\ nValidFrameNum' \in 0 .. MaxFrames
        /\ nUnReadFrameNum' \in 0 .. nValidFrameNum'
        /\ nValidDataSize' \in 0 .. Size
    BY <1>1, <1>2, <1>3, <1>6 DEF IInv, TypeOK
  <2>2. nFlushPos' \in Slot
    BY <1>2, <1>3 DEF WrapSlot, Slot
  <2>3. off' \in [Slot -> 0 .. Size]
    BY <1>2, <1>3 DEF IInv, TypeOK
  <2> QED
    BY <2>1, <2>2, <2>3, <1>3, <1>7 DEF IInv, TypeOK
<1>9. PositionsAgree'
  <2>1. ASSUME NEW k \in 0 .. N - 1 PROVE LiveSlot(k)' = LiveSlot(k + 1)
    <3>1. k + 1 \in 1 .. MaxFrames /\ (k + 1) - 1 = k
      BY <1>1
    <3>2. WrapSlot(WrapSlot(nFlushPos + 1) + k) = WrapSlot(nFlushPos + (k + 1))
      BY <3>1, <1>2, WrapSlotSteps
    <3> QED
      BY <3>2, <1>3 DEF LiveSlot
  <2>2. nWritePos' = LiveSlot(nValidFrameNum)'
    BY <1>1, <1>2, <1>3 DEF IInv, PositionsAgree, LiveSlot, WrapSlot, Slot
  <2>3. nReadPos' = LiveSlot(nValidFrameNum - nUnReadFrameNum)'
    <3>1. nReadPos = WrapSlot(nFlushPos + L) /\ nUnReadFrameNum \in Int
      BY DEF IInv, TypeOK, PositionsAgree, LiveSlot
    <3>2. PICK m \in 0 .. N - 1 : m = L - 1
      BY <1>1
    <3>3. (nValidFrameNum - nUnReadFrameNum)' = m /\ m + 1 = L
      BY <3>1, <3>2, <1>1, <1>3
    <3>4. WrapSlot(nFlushPos' + m) = WrapSlot(nFlushPos + (m + 1))
      BY <2>1 DEF LiveSlot
    <3> QED
      BY <3>1, <3>3, <3>4, <1>3 DEF LiveSlot
  <2>4. ASSUME NEW k \in 1 .. Len(held') PROVE held'[k] = LiveSlot(k - 1)'
    <3>1. k \in 1 .. L - 1 /\ k - 1 \in 0 .. N - 1 /\ k + 1 \in 1 .. Len(held)
      BY <1>1, <1>7
    <3>2. LiveSlot(k - 1)' = LiveSlot((k - 1) + 1) /\ (k - 1) + 1 = (k + 1) - 1
      BY <2>1, <3>1
    <3>3. held[k + 1] = LiveSlot((k + 1) - 1)
      BY <3>1 DEF IInv, PositionsAgree
    <3> QED
      BY <3>1, <3>2, <3>3, <1>7
  <2>5. Len(held') = (nValidFrameNum - nUnReadFrameNum)'
    BY <1>1, <1>3, <1>7 DEF IInv, TypeOK
  <2> QED
    BY <2>2, <2>3, <2>4, <2>5 DEF PositionsAgree
<1>10. Base' = WrapAddr(Base + len)
  <2>1. pWriteAddr \in 0 .. Size - 1 /\ Size \in Nat
    BY DEF IInv, TypeOK, Addr
  <2> HIDE DEF len
  <2>2. Base' = IF pWriteAddr >= nValidDataSize - len THEN pWriteAddr - (nValidDataSize - len)
                                                      ELSE pWriteAddr - (nValidDataSize - len) + Size
    BY <1>3 DEF Base
  <2> QED
    BY <2>1, <2>2, <1>2, <1>6 DEF Base, WrapAddr
<1>11. Base \in Addr
  BY DEF IInv, TypeOK, Base, Addr
<1>12. Contiguous'
  <2>1. nValidFrameNum' = 0 => nValidDataSize' = 0
    <3>1. ASSUME N = 1 PROVE nValidDataSize = len
      BY <3>1, <1>2 DEF IInv, Contiguous
    <3> QED
      BY <3>1, <1>1, <1>2, <1>3
  <2>2. ASSUME N > 1
        PROVE  LET last == LiveSlot(nValidFrameNum - 1)'
               IN /\ off'[nFlushPos'] = 0
                  /\ off'[last] + pFrames'[last].nLength = nValidDataSize'
    <3>1. nFlushPos' = LiveSlot(1)
      BY <1>3 DEF LiveSlot
    <3>2. off[LiveSlot(1)] = len
      BY <2>2, <1>1, <1>2 DEF IInv, Contiguous
    <3>3. off'[nFlushPos'] = 0
      BY <3>1, <3>2, <2>2, <1>1, <1>2, <1>5
    <3>4. LiveSlot(nValidFrameNum - 1)' = LiveSlot(N - 1)
      BY <2>2, <1>1, <1>2, <1>3 DEF LiveSlot, WrapSlot, Slot
    <3>5. off[LiveSlot(N - 1)] + pFrames[LiveSlot(N - 1)].nLength = nValidDataSize
      BY <1>1 DEF IInv, Contiguous
    <3>6. off[LiveSlot(N - 1)] \in Int /\ pFrames[LiveSlot(N - 1)].nLength \in Int
      BY <1>1, <1>4 DEF IInv, TypeOK, Frame
    <3>7. off'[LiveSlot(N - 1)] = off[LiveSlot(N - 1)] - len
      BY <2>2, <1>1, <1>5
    <3> HIDE DEF len
    <3>8. off'[LiveSlot(N - 1)] + pFrames[LiveSlot(N - 1)].nLength = nValidDataSize'
      BY <3>5, <3>6, <3>7, <1>2, <1>3
    <3> QED
      BY <3>3, <3>4, <3>8, <1>3
  <2>3. ASSUME NEW k \in 0 .. nValidFrameNum' - 1
        PROVE  LET s == LiveSlot(k)'
               IN /\ pFrames'[s].pData = WrapAddr(Base' + off'[s])
                  /\ off'[s] + pFrames'[s].nLength <= nValidDataSize'
                  /\ k + 1 < nValidFrameNum' =>
                       off'[LiveSlot(k + 1)'] = off'[s] + pFrames'[s].nLength
    <3> DEFINE s == LiveSlot(k + 1)
    <3>1. k + 1 \in 1 .. N - 1 /\ k + 1 \in 0 .. N - 1
      BY <1>1, <1>3
    <3>2. s \in Slot /\ LiveSlot(k)' = s
      BY <3>1, <1>4
    <3>3. off[s] \in 0 .. Size /\ pFrames[s].nLength \in 0 .. Size /\ off'[s] = off[s] - len /\ off[s] >= len
      BY <3>1, <3>2, <1>5 DEF IInv, TypeOK, Frame
    <3>4. /\ pFrames[s].pData = WrapAddr(Base + off[s])
          /\ off[s] + pFrames[s].nLength <= nValidDataSize
      BY <3>1 DEF IInv, Contiguous
    <3>5. WrapAddr(Base' + off'[s]) = WrapAddr(Base + off[s])
      BY <3>3, <1>2, <1>10, <1>11 DEF WrapAddr, Addr
    <3>6. ASSUME k + 1 < nValidFrameNum'
          PROVE  off'[LiveSlot(k + 1)'] = off'[s] + pFrames'[s].nLength
      <4>1. /\ k + 2 \in 1 .. N - 1
            /\ (k + 1) + 1 = k + 2
            /\ (k + 1) + 1 < N
        BY <3>6, <1>1, <1>3
      <4>2. LiveSlot(k + 1)' = LiveSlot(k + 2)
        <5>1. k + 2 \in 1 .. MaxFrames /\ (k + 2) - 1 = k + 1
          BY <4>1, <1>1
        <5>2. WrapSlot(WrapSlot(nFlushPos + 1) + (k + 1)) = WrapSlot(nFlushPos + (k + 2))
          BY <5>1, <1>2, WrapSlotSteps
        <5> QED
          BY <5>2, <1>3 DEF LiveSlot
      <4>3. off[LiveSlot((k + 1) + 1)] = off[s] + pFrames[s].nLength
        BY <3>1, <4>1 DEF IInv, Contiguous
      <4>4. off'[LiveSlot(k + 2)] = off[LiveSlot(k + 2)] - len
        BY <4>1, <1>5
      <4>5. len \in Int /\ pFrames' = pFrames
        BY <1>2, <1>3
      <4> HIDE DEF len, s
      <4>6. off'[LiveSlot(k + 2)] = off'[s] + pFrames[s].nLength
        BY <4>1, <4>3, <4>4, <4>5, <3>3
      <4> QED
        BY <4>2, <4>5, <4>6
    <3> QED
      BY <3>2, <3>3, <3>4, <3>5, <3>6, <1>2, <1>3
  <2>4. ASSUME NEW j \in 0 .. nValidFrameNum' - 1, NEW k \in 0 .. nValidFrameNum' - 1, j < k
        PROVE  off'[LiveSlot(j)'] + pFrames'[LiveSlot(j)'].nLength <= off'[LiveSlot(k)']
    <3>1. j + 1 \in 1 .. N - 1 /\ k + 1 \in 1 .. N - 1
      BY <1>1, <1>3
    <3>2. LiveSlot(j)' = LiveSlot(j + 1) /\ LiveSlot(k)' = LiveSlot(k + 1)
      BY <3>1, <1>4
    <3>3. off[LiveSlot(j + 1)] + pFrames[LiveSlot(j + 1)].nLength <= off[LiveSlot(k + 1)]
      BY <3>1, <2>4 DEF IInv, Contiguous
    <3>4. /\ off[LiveSlot(j + 1)] \in Int /\ off[LiveSlot(k + 1)] \in Int
          /\ pFrames[LiveSlot(j + 1)].nLength \in Int
      BY <3>1, <1>4 DEF IInv, TypeOK, Frame
    <3>5. /\ off'[LiveSlot(j + 1)] = off[LiveSlot(j + 1)] - len
          /\ off'[LiveSlot(k + 1)] = off[LiveSlot(k + 1)] - len
      BY <3>1, <1>5
    <3>6. len \in Int /\ pFrames' = pFrames
      BY <1>2, <1>3
    <3> HIDE DEF len
    <3>7. off'[LiveSlot(j + 1)] + pFrames[LiveSlot(j + 1)].nLength <= off'[LiveSlot(k + 1)]
      BY <3>3, <3>4, <3>5, <3>6
    <3> QED
      BY <3>2, <3>6, <3>7
  <2>5. nValidFrameNum' > 0 => N > 1
    BY <1>1, <1>3
  <2> HIDE DEF N, L, len
  <2> QED
    BY <2>1, <2>2, <2>3, <2>4, <2>5 DEF Contiguous
<1>13. GrantIsHonoured' /\ NeverAborts'
  BY <1>1, <1>2, <1>3 DEF IInv, TypeOK, GrantIsHonoured, NeverAborts, NoGrant
<1> QED
  BY <1>8, <1>9, <1>12, <1>13 DEF IInv

LEMMA ResetIInv ==
  ASSUME IInv, Reset
  PROVE  IInv'
<1> USE SbmAssumption DEF Reset
<1>1. TypeOK'
  BY DEF IInv, TypeOK, Slot, Addr
<1>2. PositionsAgree' /\ Contiguous' /\ GrantIsHonoured' /\ NeverAborts'
  BY DEF IInv, PositionsAgree, Contiguous, GrantIsHonoured, NeverAborts, LiveSlot, WrapSlot, Slot
<1> QED
  BY <1>1, <1>2 DEF IInv

LEMMA NextIInv == IInv /\ [Next]_vars => IInv'
<1> SUFFICES ASSUME IInv, [Next]_vars PROVE IInv'
  OBVIOUS
<1>1. CASE UNCHANGED vars
  BY <1>1 DEF vars, bytes, fifo, clients, IInv, TypeOK, NeverAborts, PositionsAgree, Contiguous,
              GrantIsHonoured, LiveSlot, Base
<1>2. CASE Next
  <2>1. Lens \subseteq Nat
    BY SbmAssumption
  <2> QED
    BY <1>2, <2>1, RequestBufferIInv, SubmitFrameIInv, RequestStreamIInv, ReturnStreamIInv,
       FlushStreamIInv, ResetIInv DEF Next, Decoder
<1> QED
  BY <1>1, <1>2

\* IInv is an invariant: the manager's counters, positions and addresses agree
\* with one another and with what the decoder holds, whatever the sizes.
THEOREM IInvHolds == Spec => []IInv
BY InitIInv, NextIInv, PTL DEF Spec

-----------------------------------------------------------------------------
\* Two stretches at increasing offsets that stay within one turn of the cyclic
\* buffer share no byte.
LEMMA StretchesDisjoint ==
  ASSUME NEW b \in Addr, NEW o1 \in Nat, NEW n1 \in Nat, NEW o2 \in Nat, NEW n2 \in Nat,
         o1 + n1 <= o2, o2 + n2 <= Size
  PROVE  Bytes(WrapAddr(b + o1), n1) \cap Bytes(WrapAddr(b + o2), n2) = {}
<1> USE SbmAssumption
<1> SUFFICES ASSUME NEW i \in 0 .. n1 - 1, NEW j \in 0 .. n2 - 1,
                    WrapAddr(WrapAddr(b + o1) + i) = WrapAddr(WrapAddr(b + o2) + j)
             PROVE  FALSE
  BY DEF Bytes
<1>1. WrapAddr(WrapAddr(b + o1) + i) = WrapAddr(b + o1 + i)
  BY DEF WrapAddr, Addr
<1>2. WrapAddr(WrapAddr(b + o2) + j) = WrapAddr(b + o2 + j)
  BY DEF WrapAddr, Addr
<1> QED
  BY <1>1, <1>2 DEF WrapAddr, Addr

\* Where the queued frames lie, as IInv says it.
LEMMA LiveFrame ==
  ASSUME IInv, NEW k \in 0 .. nValidFrameNum - 1
  PROVE  /\ LiveSlot(k) \in Slot
         /\ off[LiveSlot(k)] \in Nat
         /\ pFrames[LiveSlot(k)].nLength \in Nat
         /\ pFrames[LiveSlot(k)].pData = WrapAddr(Base + off[LiveSlot(k)])
         /\ off[LiveSlot(k)] + pFrames[LiveSlot(k)].nLength <= nValidDataSize
         /\ nValidDataSize \in 0 .. Size
         /\ Base \in Addr
<1> USE SbmAssumption
<1>1. LiveSlot(k) \in Slot
  BY DEF IInv, TypeOK, LiveSlot, WrapSlot, Slot
<1>2. Base \in Addr
  BY DEF IInv, TypeOK, Base, Addr
<1> QED
  BY <1>1, <1>2 DEF IInv, TypeOK, Contiguous, Frame

\* The variables always have their types.
THEOREM TypeCorrect == Spec => []TypeOK
BY IInvHolds, PTL DEF IInv

\* abort() is never reached by a decoder that gives frames back in order.
THEOREM NoAbort == Spec => []NeverAborts
BY IInvHolds, PTL DEF IInv

\* A frame of the granted length is never refused.
THEOREM GrantsHonoured == Spec => []GrantIsHonoured
BY IInvHolds, PTL DEF IInv

\* The bytes past the write address that the buffer has room for are in no queued
\* frame.
LEMMA RoomIsFree ==
  ASSUME IInv, NEW n \in Nat, nValidDataSize + n <= Size
  PROVE  \A k \in 0 .. nValidFrameNum - 1 : Bytes(pWriteAddr, n) \cap FrameBytes(LiveSlot(k)) = {}
<1>1. pWriteAddr = WrapAddr(Base + nValidDataSize)
  BY SbmAssumption DEF IInv, TypeOK, Base, WrapAddr, Addr
<1>2. ASSUME NEW k \in 0 .. nValidFrameNum - 1
      PROVE  Bytes(pWriteAddr, n) \cap FrameBytes(LiveSlot(k)) = {}
  <2> DEFINE s == LiveSlot(k)
  <2>1. /\ off[s] \in Nat /\ pFrames[s].nLength \in Nat
        /\ pFrames[s].pData = WrapAddr(Base + off[s])
        /\ off[s] + pFrames[s].nLength <= nValidDataSize
        /\ nValidDataSize \in Nat /\ Base \in Addr
    BY LiveFrame
  <2> HIDE DEF s
  <2>2. Bytes(WrapAddr(Base + off[s]), pFrames[s].nLength)
          \cap Bytes(WrapAddr(Base + nValidDataSize), n) = {}
    BY <2>1, StretchesDisjoint
  <2> QED
    BY <1>1, <2>1, <2>2 DEF FrameBytes, s
<1> QED
  BY <1>2

LEMMA GrantFree == IInv => GrantIsFree
<1> SUFFICES ASSUME IInv, grant # NoGrant PROVE grant \in Nat /\ nValidDataSize + grant <= Size
  BY RoomIsFree DEF GrantIsFree
<1> QED
  BY SbmAssumption DEF IInv, TypeOK, GrantIsHonoured

LEMMA LiveFramesDisjoint == IInv => FramesDisjoint
<1>1. ASSUME IInv, NEW j \in 0 .. nValidFrameNum - 1, NEW k \in 0 .. nValidFrameNum - 1, j < k
      PROVE  FrameBytes(LiveSlot(j)) \cap FrameBytes(LiveSlot(k)) = {}
  <2>1. off[LiveSlot(j)] + pFrames[LiveSlot(j)].nLength <= off[LiveSlot(k)]
    BY <1>1 DEF IInv, Contiguous
  <2>2. off[LiveSlot(k)] + pFrames[LiveSlot(k)].nLength <= Size
    BY <1>1, LiveFrame, SbmAssumption
  <2> QED
    <3> DEFINE s == LiveSlot(j)
               t == LiveSlot(k)
    <3>1. /\ off[s] \in Nat /\ pFrames[s].nLength \in Nat
          /\ pFrames[s].pData = WrapAddr(Base + off[s])
          /\ Base \in Addr
      BY <1>1, LiveFrame
    <3>2. /\ off[t] \in Nat /\ pFrames[t].nLength \in Nat
          /\ pFrames[t].pData = WrapAddr(Base + off[t])
      BY <1>1, LiveFrame
    <3> HIDE DEF s, t
    <3>3. Bytes(WrapAddr(Base + off[s]), pFrames[s].nLength)
            \cap Bytes(WrapAddr(Base + off[t]), pFrames[t].nLength) = {}
      BY <2>1, <2>2, <3>1, <3>2, StretchesDisjoint DEF s, t
    <3> QED
      BY <3>1, <3>2, <3>3 DEF FrameBytes, s, t
<1> SUFFICES ASSUME IInv, NEW j \in 0 .. nValidFrameNum - 1, NEW k \in 0 .. nValidFrameNum - 1, j # k
             PROVE  FrameBytes(LiveSlot(j)) \cap FrameBytes(LiveSlot(k)) = {}
  BY DEF FramesDisjoint
<1>2. CASE j < k
  BY <1>2, <1>1
<1>3. CASE k < j
  BY <1>3, <1>1
<1> QED
  BY <1>2, <1>3

\* The filling thread never writes over a queued or held frame.
THEOREM GrantsFree == Spec => []GrantIsFree
BY GrantFree, IInvHolds, PTL

\* Queued frames never overlap.
THEOREM QueuedFramesDisjoint == Spec => []FramesDisjoint
BY LiveFramesDisjoint, IInvHolds, PTL

-----------------------------------------------------------------------------
(***************************************************************************)
(* SbmStream implements FrameFifo.                                         *)
(***************************************************************************)

LEMMA EntriesIsSeq ==
  IInv => /\ Entries \in Seq(Frame)
          /\ Len(Entries) = nValidFrameNum
          /\ \A k \in 1 .. nValidFrameNum : Entries[k] = pFrames[LiveSlot(k - 1)]
          /\ Cursor \in 0 .. nValidFrameNum
<1> SUFFICES ASSUME IInv
             PROVE  /\ Entries \in Seq(Frame)
                    /\ Len(Entries) = nValidFrameNum
                    /\ \A k \in 1 .. nValidFrameNum : Entries[k] = pFrames[LiveSlot(k - 1)]
                    /\ Cursor \in 0 .. nValidFrameNum
  OBVIOUS
<1>1. \A k \in 1 .. nValidFrameNum : pFrames[LiveSlot(k - 1)] \in Frame
  BY SbmAssumption DEF IInv, TypeOK, LiveSlot, WrapSlot, Slot
<1>2. nValidFrameNum \in Nat
  BY SbmAssumption DEF IInv, TypeOK
<1>3. Entries \in [1 .. nValidFrameNum -> Frame]
  BY <1>1 DEF Entries
<1>4. Entries \in Seq(Frame)
  BY <1>2, <1>3, SeqDef
<1>5. Len(Entries) = nValidFrameNum
  BY <1>2, <1>3, <1>4
<1> QED
  BY <1>4, <1>5 DEF Entries, Cursor, IInv, TypeOK

\* The same of the state after a step.
LEMMA EntriesIsSeqNext ==
  IInv' => Entries' \in Seq(Frame) /\ Len(Entries') = nValidFrameNum'
<1> SUFFICES ASSUME IInv' PROVE Entries' \in Seq(Frame) /\ Len(Entries') = nValidFrameNum'
  OBVIOUS
<1>1. TypeOK'
  BY DEF IInv
<1>2. nValidFrameNum' \in Nat /\ nFlushPos' \in Slot /\ nValidFrameNum' <= MaxFrames
  BY <1>1, SbmAssumption DEF TypeOK
<1>3. \A k \in 1 .. nValidFrameNum' : WrapSlot(nFlushPos' + (k - 1)) \in Slot
  <2> DEFINE n == nValidFrameNum'
             f == nFlushPos'
  <2>1. n \in Nat /\ f \in Slot /\ n <= MaxFrames
    BY <1>2
  <2> SUFFICES \A k \in 1 .. n : WrapSlot(f + (k - 1)) \in Slot
    OBVIOUS
  <2> HIDE DEF n, f
  <2> QED
    BY <2>1, SbmAssumption DEF WrapSlot, Slot
<1>4. \A k \in 1 .. nValidFrameNum' : pFrames'[WrapSlot(nFlushPos' + (k - 1))] \in Frame
  BY <1>1, <1>3 DEF TypeOK
<1>5. Entries' = [k \in 1 .. nValidFrameNum' |-> pFrames'[WrapSlot(nFlushPos' + (k - 1))]]
  BY DEF Entries, LiveSlot
<1>6. Entries' \in [1 .. nValidFrameNum' -> Frame]
  BY <1>4, <1>5
<1>7. Entries' \in Seq(Frame)
  BY <1>2, <1>6, SeqDef
<1> QED
  BY <1>2, <1>6, <1>7

LEMMA FifoInit == Init => Fifo!Init
<1> SUFFICES ASSUME Init PROVE Entries = <<>> /\ Cursor = 0
  BY DEF Fifo!Init
<1>1. IInv
  BY InitIInv
<1>2. Len(Entries) = 0 /\ Entries \in Seq(Frame)
  BY <1>1, EntriesIsSeq DEF Init
<1> QED
  BY <1>2, EmptySeq DEF Init, Cursor

LEMMA FifoAdd ==
  ASSUME IInv, IInv', NEW info \in Frame, Append1(info), Accepts(info)
  PROVE  Fifo!Next
<1> USE SbmAssumption
<1>1. Append1(info) /\ Accepts(info)
  OBVIOUS
<1>2. info \in Frame
  OBVIOUS
<1>3. Entries \in Seq(Frame) /\ Len(Entries) = nValidFrameNum /\ nValidFrameNum \in 0 .. MaxFrames - 1
  BY <1>1, EntriesIsSeq DEF Accepts, IInv, TypeOK
<1>4. Entries' \in Seq(Frame) /\ Len(Entries') = nValidFrameNum + 1
  BY <1>1, EntriesIsSeqNext DEF Append1
<1>5. ASSUME NEW k \in 1 .. nValidFrameNum + 1
      PROVE  Entries'[k] = Append(Entries, info)[k]
  <2>1. Entries'[k] = pFrames'[LiveSlot(k - 1)'] /\ LiveSlot(k - 1)' = LiveSlot(k - 1)
    BY <1>1, <1>3 DEF Entries, LiveSlot, Append1
  <2>2. CASE k = nValidFrameNum + 1
    <3>1. LiveSlot(k - 1) = nWritePos /\ nWritePos \in Slot
      <4>1. k - 1 = nValidFrameNum
        BY <2>2, <1>3
      <4>2. LiveSlot(nValidFrameNum) = nWritePos /\ nWritePos \in Slot
        BY DEF IInv, TypeOK, PositionsAgree
      <4> QED
        BY <4>1, <4>2
    <3>2. Entries'[k] = info
      BY <3>1, <2>1, <1>1 DEF IInv, TypeOK, Append1
    <3> QED
      BY <3>2, <2>2, <1>2, <1>3, AppendProperties
  <2>3. CASE k <= nValidFrameNum
    <3>1. k - 1 \in 0 .. nValidFrameNum - 1 /\ LiveSlot(k - 1) # nWritePos
      <4>1. nWritePos = WrapSlot(nFlushPos + nValidFrameNum) /\ nFlushPos \in Slot
        BY DEF IInv, TypeOK, PositionsAgree, LiveSlot
      <4> QED
        BY <4>1, <2>3, <1>3 DEF LiveSlot, WrapSlot, Slot
    <3>2. pFrames'[LiveSlot(k - 1)] = pFrames[LiveSlot(k - 1)]
      <4>1. LiveSlot(k - 1) \in Slot
        BY <3>1, LiveFrame
      <4> QED
        BY <4>1, <3>1, <1>1 DEF IInv, TypeOK, Append1
    <3>3. Entries[k] = pFrames[LiveSlot(k - 1)]
      BY <2>3, <1>3, EntriesIsSeq
    <3>4. Entries'[k] = Entries[k]
      BY <3>2, <3>3, <2>1
    <3> QED
      BY <3>4, <2>3, <1>2, <1>3
  <2> QED
    BY <2>2, <2>3, <1>3
<1>6. Entries' = Append(Entries, info)
  BY <1>2, <1>3, <1>4, <1>5, SeqEqual
<1>7. Cursor' = Cursor
  BY <1>1 DEF IInv, TypeOK, Cursor, Append1
<1> QED
  BY <1>2, <1>6, <1>7 DEF Fifo!Next, Fifo!Add

LEMMA FifoSubmit ==
  ASSUME IInv, IInv', NEW n \in Lens, NEW t \in Pts, SubmitFrame(n, t)
  PROVE  Fifo!Next
<1> DEFINE info == [pData |-> pWriteAddr, nLength |-> n, nPts |-> t]
<1>1. Accepts(info)
  <2>1. /\ nValidFrameNum < MaxFrames /\ grant + nValidDataSize <= Size
        /\ n <= grant /\ grant \in Nat /\ nValidDataSize \in Nat /\ n \in Nat
        /\ pWriteAddr # NULL
    BY SbmAssumption DEF IInv, TypeOK, GrantIsHonoured, SubmitFrame, NULL, Addr
  <2> QED
    BY <2>1, SbmAssumption DEF Accepts
<1>2. Append1(info)
  BY <1>1 DEF SubmitFrame, AddStream
<1>3. info \in Frame
  BY <1>1, SbmAssumption DEF IInv, TypeOK, Frame, Accepts, Addr
<1> QED
  BY <1>1, <1>2, <1>3, FifoAdd

LEMMA FifoFlush ==
  ASSUME IInv, IInv', FlushStream
  PROVE  Fifo!Next
<1> USE SbmAssumption
<1>1. /\ Entries \in Seq(Frame) /\ Len(Entries) = nValidFrameNum
      /\ Cursor > 0 /\ Cursor = Len(held)
      /\ Head(held) = nFlushPos
      /\ nValidFrameNum \in 1 .. MaxFrames
  <2>1. Entries \in Seq(Frame) /\ Len(Entries) = nValidFrameNum
    BY EntriesIsSeq
  <2>2. /\ Cursor = Len(held) /\ Len(held) > 0 /\ nValidFrameNum \in 1 .. MaxFrames
        /\ Head(held) = LiveSlot(0) /\ nFlushPos \in Slot
    <3>1. held \in Seq(Slot) /\ held # <<>>
      BY DEF FlushStream, IInv, TypeOK
    <3>2. Len(held) \in Nat /\ Len(held) > 0 /\ Head(held) = held[1]
      BY <3>1, EmptySeq, HeadTailProperties
    <3>3. Len(held) = nValidFrameNum - nUnReadFrameNum /\ \A k \in 1 .. Len(held) : held[k] = LiveSlot(k - 1)
      BY DEF IInv, PositionsAgree
    <3>4. held[1] = LiveSlot(1 - 1) /\ 1 - 1 = 0
      BY <3>2, <3>3
    <3>5. nValidFrameNum \in 0 .. MaxFrames /\ nUnReadFrameNum \in 0 .. nValidFrameNum /\ nFlushPos \in Slot
      BY DEF IInv, TypeOK
    <3> QED
      BY <3>2, <3>3, <3>4, <3>5 DEF Cursor
  <2> QED
    BY <2>1, <2>2 DEF LiveSlot, WrapSlot, Slot
<1>2. /\ nFlushPos' = WrapSlot(nFlushPos + 1)
      /\ nValidFrameNum' = nValidFrameNum - 1
      /\ UNCHANGED <<pFrames, nUnReadFrameNum>>
  BY <1>1 DEF FlushStream
<1>3. Entries' \in Seq(Frame) /\ Len(Entries') = nValidFrameNum - 1
  <2>1. /\ Entries' \in Seq(Frame) /\ Len(Entries') = nValidFrameNum'
    BY EntriesIsSeqNext
  <2> QED
    BY <2>1, <1>2
<1>4. Entries # <<>>
  BY <1>1, EmptySeq
<1>5. Tail(Entries) \in Seq(Frame) /\ Len(Tail(Entries)) = nValidFrameNum - 1
  BY <1>1, <1>4, HeadTailProperties
<1>6. ASSUME NEW k \in 1 .. nValidFrameNum - 1
      PROVE  Entries'[k] = Tail(Entries)[k]
  <2>1. WrapSlot(WrapSlot(nFlushPos + 1) + (k - 1)) = WrapSlot(nFlushPos + k)
    BY <1>1, WrapSlotSteps DEF IInv, TypeOK
  <2>2. Entries'[k] = pFrames[LiveSlot(k)]
    BY <2>1, <1>2 DEF Entries, LiveSlot
  <2>3. Entries[k + 1] = pFrames[LiveSlot((k + 1) - 1)] /\ (k + 1) - 1 = k
    BY <1>1, EntriesIsSeq
  <2>4. Tail(Entries)[k] = Entries[k + 1]
    BY <1>1, <1>4, <1>5, HeadTailProperties
  <2> QED
    BY <2>2, <2>3, <2>4
<1>7. Entries' = Tail(Entries)
  BY <1>3, <1>5, <1>6, SeqEqual
<1>8. Cursor' = Cursor - 1
  BY <1>1, <1>2 DEF IInv, TypeOK, Cursor
<1> QED
  BY <1>1, <1>7, <1>8 DEF Fifo!Next, Fifo!Flush

LEMMA FifoReset ==
  ASSUME IInv, IInv', Reset
  PROVE  Fifo!Next
<1>1. Len(Entries') = 0 /\ Entries' \in Seq(Frame)
  BY EntriesIsSeqNext DEF Reset
<1>2. Entries' = <<>> /\ Cursor' = 0
  BY <1>1, EmptySeq DEF Reset, Cursor
<1> QED
  BY <1>2 DEF Fifo!Next, Fifo!Reset

\* The steps that move only the cursor.
LEMMA FifoCursor ==
  ASSUME IInv, IInv', RequestStream \/ ReturnStream
  PROVE  Fifo!Next
<1>1. Entries' = Entries
  BY DEF RequestStream, ReturnStream, Entries, LiveSlot
<1>2. Len(Entries) = nValidFrameNum
  BY EntriesIsSeq
<1>3. CASE RequestStream
  <2>1. Cursor < Len(Entries) /\ Cursor' = Cursor + 1
    BY <1>2, <1>3 DEF RequestStream, IInv, TypeOK, Cursor
  <2> QED
    BY <1>1, <2>1 DEF Fifo!Next, Fifo!Request
<1>4. CASE ReturnStream
  <2>1. Cursor > 0 /\ Cursor' = Cursor - 1
    BY <1>4 DEF ReturnStream, IInv, TypeOK, PositionsAgree, Cursor
  <2> QED
    BY <1>1, <2>1 DEF Fifo!Next, Fifo!Return
<1> QED
  BY <1>3, <1>4

LEMMA FifoStep == IInv /\ IInv' /\ [Next]_vars => [Fifo!Next]_Fifo!vars
<1> SUFFICES ASSUME IInv, IInv', [Next]_vars PROVE [Fifo!Next]_Fifo!vars
  OBVIOUS
<1>1. ASSUME NEW n \in Lens, RequestBuffer(n)
      PROVE  UNCHANGED Fifo!vars
  BY <1>1 DEF RequestBuffer, fifo, Fifo!vars, Entries, Cursor, LiveSlot
<1>2. CASE UNCHANGED vars
  BY <1>2 DEF vars, fifo, Fifo!vars, Entries, Cursor, LiveSlot
<1> QED
  BY <1>1, <1>2, FifoSubmit, FifoFlush, FifoReset, FifoCursor DEF Next, Decoder

\* The ring buffer with its three positions is a first-in first-out queue with
\* a cursor, for every size of either ring.
THEOREM Refinement == Spec => ImplementsFifo
<1>1. Spec => Fifo!Init
  BY FifoInit DEF Spec
<1>2. Spec => [][Fifo!Next]_Fifo!vars
  BY FifoStep, IInvHolds, PTL DEF Spec
<1> QED
  BY <1>1, <1>2, PTL DEF ImplementsFifo, Fifo!Spec

-----------------------------------------------------------------------------
(***************************************************************************)
(* StreamSubmit: what the front end does with the manager.                 *)
(***************************************************************************)

\* Dropping the grant, or nothing, keeps the manager's invariant.
LEMMA IdleIInv ==
  ASSUME IInv, grant' \in {grant, NoGrant}, UNCHANGED <<bytes, fifo, held, aborted, off>>
  PROVE  IInv'
<1> USE DEF bytes, fifo
<1>1. TypeOK' /\ NeverAborts' /\ GrantIsHonoured'
  BY DEF IInv, TypeOK, NeverAborts, GrantIsHonoured
<1>2. PositionsAgree' /\ Contiguous'
  BY DEF IInv, PositionsAgree, Contiguous, LiveSlot, Base
<1> QED
  BY <1>1, <1>2 DEF IInv

\* No frame gathered.
LEMMA NoPartialFits ==
  ASSUME NEW t \in {NoPts, 0}
  PROVE  /\ NoPartial(t) \in [pData : Addr \cup {NULL}, nLength : 0 .. Size, nPts : Pts \cup {NoPts, 0}]
         /\ NoPartial(t).pData = NULL /\ NoPartial(t).nLength = 0
<1>1. 0 \in 0 .. Size
  BY SbmAssumption
<1> QED
  BY <1>1, Zenon DEF NoPartial

LEMMA StreamInitSInv == StreamInit => SInv
<1> SUFFICES ASSUME StreamInit PROVE SInv
  OBVIOUS
<1>1. IInv
  BY InitIInv DEF StreamInit
<1>2. SubmitTypeOK /\ PartialIsNext /\ PartialFits
  <2>1. nValidDataSize = 0 /\ completing = FALSE /\ partial = NoPartial(0) /\ Size \in Nat
    BY SbmAssumption DEF StreamInit, Init
  <2>2. SubmitTypeOK
    BY <2>1, NoPartialFits, Zenon DEF SubmitTypeOK
  <2>3. partial.pData = NULL /\ partial.nLength = 0
    BY <2>1, NoPartialFits
  <2> QED
    BY <2>1, <2>2, <2>3 DEF PartialIsNext, PartialFits
<1> QED
  BY <1>1, <1>2 DEF SInv

\* A gathered frame is refused only for want of a slot, and adding it moves the
\* write address to where the next part goes.
LEMMA AddPartial ==
  ASSUME SInv, partial.pData # NULL, AddStream(partial), grant' = NoGrant, UNCHANGED <<held, aborted>>
  PROVE  /\ IInv'
         /\ nValidFrameNum < MaxFrames => /\ partial \in Frame /\ Accepts(partial) /\ Append1(partial)
                                          /\ pWriteAddr' = PartStart
                                          /\ nValidDataSize' = nValidDataSize + partial.nLength
         /\ nValidFrameNum = MaxFrames => UNCHANGED <<bytes, fifo, off>>
<1> USE SbmAssumption
<1>1. PICK n \in 0 .. Size, t \in Pts :
        /\ n = partial.nLength /\ t = partial.nPts
        /\ partial = [pData |-> pWriteAddr, nLength |-> n, nPts |-> t]
  BY DEF SInv, SubmitTypeOK, PartialIsNext, PartialFits
<1>2. IInv /\ n + nValidDataSize <= Size /\ nValidFrameNum \in 0 .. MaxFrames
  BY <1>1 DEF SInv, PartialFits, IInv, TypeOK
<1>3. CASE nValidFrameNum = MaxFrames
  <2>1. UNCHANGED <<bytes, fifo, off>>
    BY <1>3 DEF AddStream, Accepts
  <2> QED
    BY <1>2, <1>3, <2>1, IdleIInv
<1>4. CASE nValidFrameNum < MaxFrames
  <2>1. Accepts(partial) /\ Append1(partial)
    BY <1>1, <1>2, <1>4 DEF AddStream, Accepts
  <2>2. IInv'
    BY <2>1, <1>1, <1>2, Append1IInv
  <2>3. pWriteAddr' = PartStart /\ nValidDataSize' = nValidDataSize + partial.nLength
    BY <2>1 DEF Append1, pNewWriteAddr, PartStart
  <2>4. partial \in Frame
    BY <1>1 DEF SInv, IInv, TypeOK, Frame
  <2> QED
    BY <1>4, <2>1, <2>2, <2>3, <2>4
<1> QED
  BY <1>2, <1>3, <1>4

LEMMA RequestVideoStreamBufferSInv ==
  ASSUME SInv, NEW n \in Lens, RequestVideoStreamBuffer(n)
  PROVE  SInv'
<1> USE SbmAssumption
<1>1. PICK m \in Nat : m = Required(n)
  BY SubmitAssumption DEF SInv, SubmitTypeOK, Required
<1>2. IInv' /\ UNCHANGED <<bytes, submit>> /\ ~completing
  BY <1>1, RequestBufferIInv DEF SInv, RequestVideoStreamBuffer, RequestBuffer
<1> QED
  BY <1>2 DEF SInv, SubmitTypeOK, PartialIsNext, PartialFits, bytes, submit

\* What was granted fits with what is gathered, so a first part finds a slot for
\* the frame before it, and starts where that one ends.
LEMMA StartFrameSInv ==
  ASSUME SInv, NEW last \in BOOLEAN, NEW n \in Lens, NEW t \in Pts,
         SubmitPart(TRUE, last, n, t)
  PROVE  /\ SInv'
         /\ UNCHANGED <<bytes, fifo, off>> \/ (partial \in Frame /\ Accepts(partial) /\ Append1(partial))
<1> USE SbmAssumption
<1>1. /\ StartFrame(n, t) /\ grant' = NoGrant /\ completing' = last /\ UNCHANGED <<held, aborted>>
      /\ n \in Nat /\ partial.nLength \in Nat /\ nValidDataSize \in Nat
      /\ n + partial.nLength + nValidDataSize <= Size
      /\ nValidFrameNum < MaxFrames
      /\ pWriteAddr \in Addr
  <2>1. nValidFrameNum < MaxFrames /\ grant + nValidDataSize <= Size
    BY DEF SubmitPart, SInv, IInv, GrantIsHonoured
  <2> QED
    BY <2>1 DEF SubmitPart, SInv, SubmitTypeOK, IInv, TypeOK
<1>2. partial' = [pData |-> PartStart, nLength |-> n, nPts |-> t]
  BY <1>1 DEF StartFrame
<1>3. /\ IInv' /\ pWriteAddr' = PartStart /\ nValidDataSize' = nValidDataSize + partial.nLength
      /\ UNCHANGED <<bytes, fifo, off>> \/ (partial \in Frame /\ Accepts(partial) /\ Append1(partial))
  <2>1. CASE partial.nLength = 0
    <3>1. UNCHANGED <<bytes, fifo, off>>
      BY <1>1, <2>1 DEF StartFrame
    <3>2. IInv'
      BY <3>1, <1>1, IdleIInv DEF SInv
    <3>3. PartStart = pWriteAddr
      BY <1>1, <2>1 DEF PartStart, WrapAddr, Addr
    <3> QED
      BY <3>1, <3>2, <3>3, <2>1, <1>1 DEF bytes
  <2>2. CASE partial.nLength # 0
    <3>1. AddStream(partial) /\ partial.pData # NULL
      BY <1>1, <2>2 DEF StartFrame, SInv, PartialFits
    <3> QED
      BY <3>1, <1>1, AddPartial
  <2> QED
    BY <2>1, <2>2
<1>4. PartStart \in Addr /\ PartStart # NULL
  BY <1>1 DEF PartStart, WrapAddr, Addr, NULL
<1> QED
  BY <1>1, <1>2, <1>3, <1>4 DEF SInv, SubmitTypeOK, PartialIsNext, PartialFits

LEMMA ContinueFrameSInv ==
  ASSUME SInv, ~OrphanParts, NEW last \in BOOLEAN, NEW n \in Lens, NEW t \in Pts,
         SubmitPart(FALSE, last, n, t)
  PROVE  SInv' /\ UNCHANGED <<bytes, fifo, off>>
<1> USE SbmAssumption
<1>1. /\ UNCHANGED <<bytes, fifo, off, held, aborted>> /\ grant' = NoGrant /\ completing' = last
      /\ partial' = [partial EXCEPT !.nLength = @ + n, !.nPts = IF @ = NoPts THEN t ELSE @]
      /\ partial.pData # NULL
  BY DEF SubmitPart, ContinueFrame
<1>2. IInv'
  BY <1>1, IdleIInv DEF SInv
<1>3. /\ n + partial.nLength + nValidDataSize <= Size
      /\ n \in Nat /\ partial.nLength \in Nat /\ nValidDataSize \in Nat
  <2>1. grant + nValidDataSize <= Size
    BY DEF SubmitPart, SInv, IInv, GrantIsHonoured
  <2> QED
    BY <2>1 DEF SubmitPart, SInv, SubmitTypeOK, IInv, TypeOK
<1>4. /\ partial'.pData = partial.pData
      /\ partial'.nLength = partial.nLength + n
      /\ partial'.nPts \in Pts
      /\ partial' \in [pData : Addr \cup {NULL}, nLength : 0 .. Size, nPts : Pts \cup {NoPts, 0}]
  <2>1. PICK a \in Addr, l \in 0 .. Size, u \in Pts : partial = [pData |-> a, nLength |-> l, nPts |-> u]
    BY <1>1 DEF SInv, SubmitTypeOK, PartialFits
  <2>2. PICK v \in Pts : v = IF u = NoPts THEN t ELSE u
    BY Zenon
  <2>3. partial' = [pData |-> a, nLength |-> l + n, nPts |-> v]
    BY <1>1, <2>1, <2>2
  <2>4. l + n \in 0 .. Size
    BY <1>3, <2>1
  <2> QED
    BY <2>1, <2>3, <2>4
<1> QED
  BY <1>1, <1>2, <1>3, <1>4 DEF SInv, SubmitTypeOK, PartialIsNext, PartialFits, bytes

LEMMA CompleteFrameSInv ==
  ASSUME SInv, CompleteFrame
  PROVE  /\ SInv'
         /\ UNCHANGED <<bytes, fifo, off>> \/ (partial \in Frame /\ Accepts(partial) /\ Append1(partial))
<1> USE SbmAssumption
<1>1. /\ partial.pData # NULL /\ AddStream(partial) /\ grant' = NoGrant /\ UNCHANGED <<held, aborted>>
      /\ nValidFrameNum \in 0 .. MaxFrames
  BY DEF CompleteFrame, SInv, PartialFits, clients, IInv, TypeOK
<1>2. /\ IInv'
      /\ UNCHANGED <<bytes, fifo, off>> \/ (partial \in Frame /\ Accepts(partial) /\ Append1(partial))
  BY <1>1, AddPartial
<1>3. nValidDataSize' \in 0 .. Size
  BY <1>2 DEF IInv, TypeOK
<1>4. partial' = NoPartial(NoPts) /\ completing' = FALSE
  BY DEF CompleteFrame
<1>5. SubmitTypeOK'
  BY <1>4, NoPartialFits, Zenon DEF SubmitTypeOK
<1>6. partial'.pData = NULL /\ partial'.nLength = 0
  BY <1>4, NoPartialFits
<1>7. partial'.nLength + nValidDataSize' <= Size
  <2>1. PICK v \in 0 .. Size : v = nValidDataSize'
    BY <1>3, Zenon
  <2>2. 0 + v <= Size
    OBVIOUS
  <2> QED
    BY <2>1, <2>2, <1>6, Zenon
<1> QED
  BY <1>2, <1>4, <1>5, <1>6, <1>7, Zenon DEF SInv, PartialIsNext, PartialFits

LEMMA DecoderSInv ==
  ASSUME SInv, Decoder, UNCHANGED submit
  PROVE  SInv'
<1>1. IInv'
  BY RequestStreamIInv, ReturnStreamIInv, FlushStreamIInv DEF SInv, Decoder
<1>2. UNCHANGED <<pWriteAddr, grant>>
  BY DEF Decoder, RequestStream, ReturnStream, FlushStream, bytes
<1>3. nValidDataSize' <= nValidDataSize /\ nValidDataSize' \in Int /\ nValidDataSize \in Int
  <2>1. nValidDataSize' \in 0 .. Size /\ nValidDataSize \in 0 .. Size
    BY <1>1 DEF SInv, IInv, TypeOK
  <2>2. CASE RequestStream \/ ReturnStream
    BY <2>1, <2>2 DEF RequestStream, ReturnStream, bytes
  <2>3. CASE FlushStream
    <3>1. nFlushPos \in Slot /\ pFrames[nFlushPos].nLength \in Nat
      BY SbmAssumption DEF SInv, IInv, TypeOK, Frame
    <3> QED
      BY <2>1, <2>3, <3>1 DEF FlushStream
  <2> QED
    BY <2>2, <2>3 DEF Decoder
<1> QED
  BY <1>1, <1>2, <1>3, SbmAssumption DEF SInv, SubmitTypeOK, PartialIsNext, PartialFits, submit

LEMMA ResetVideoDecoderSInv ==
  ASSUME SInv, ResetVideoDecoder
  PROVE  SInv'
<1>1. IInv'
  BY ResetIInv DEF SInv, ResetVideoDecoder
<1>2. partial' = NoPartial(0) /\ completing' = FALSE /\ nValidDataSize' = 0
  BY DEF ResetVideoDecoder, Reset, SInv, SubmitTypeOK
<1>3. SubmitTypeOK'
  BY <1>2, NoPartialFits, Zenon DEF SubmitTypeOK
<1>4. partial'.pData = NULL /\ partial'.nLength = 0
  BY <1>2, NoPartialFits
<1> QED
  BY <1>1, <1>2, <1>3, <1>4, SbmAssumption DEF SInv, PartialIsNext, PartialFits

LEMMA StreamNextSInv == ~OrphanParts /\ SInv /\ [StreamNext]_streamVars => SInv'
<1> SUFFICES ASSUME ~OrphanParts, SInv, [StreamNext]_streamVars PROVE SInv'
  OBVIOUS
<1>1. CASE UNCHANGED streamVars
  <2>1. IInv'
    BY <1>1, IdleIInv DEF SInv, streamVars, vars, clients
  <2> QED
    BY <1>1, <2>1 DEF SInv, SubmitTypeOK, PartialIsNext, PartialFits, streamVars, submit, vars, bytes, clients
<1>2. ASSUME NEW first \in BOOLEAN, NEW last \in BOOLEAN, NEW n \in Lens, NEW t \in Pts,
             SubmitPart(first, last, n, t)
      PROVE  SInv'
  BY <1>2, StartFrameSInv, ContinueFrameSInv
<1> QED
  BY <1>1, <1>2, RequestVideoStreamBufferSInv, CompleteFrameSInv, DecoderSInv, ResetVideoDecoderSInv
     DEF StreamNext

\* What the front end keeps true of the manager and of the frame it gathers.
LEMMA SInvHolds == ~OrphanParts => (StreamSpec => []SInv)
<1> SUFFICES ASSUME ~OrphanParts PROVE StreamSpec => []SInv
  OBVIOUS
<1>1. SInv /\ [StreamNext]_streamVars => SInv'
  BY StreamNextSInv
<1> QED
  BY <1>1, StreamInitSInv, PTL DEF StreamSpec

\* As long as no part comes that continues nothing, every byte of the buffer is
\* gathered, granted or in one queued frame, and never two of these, between the
\* two adds of SubmitVideoStreamData as well as around them.
THEOREM OneUsePerByte == ~OrphanParts => (StreamSpec => []BytesHaveOneUse)
<1> SUFFICES ASSUME ~OrphanParts PROVE StreamSpec => []BytesHaveOneUse
  OBVIOUS
<1>1. SInv => GatheredIsFree
  <2> SUFFICES ASSUME SInv
               PROVE  IInv /\ partial.nLength \in Nat /\ nValidDataSize + partial.nLength <= Size
    BY RoomIsFree DEF GatheredIsFree
  <2> QED
    BY SbmAssumption DEF SInv, SubmitTypeOK, PartialFits, IInv, TypeOK
<1>2. SInv => BytesHaveOneUse
  BY <1>1, GrantFree, LiveFramesDisjoint DEF BytesHaveOneUse, SInv
<1> QED
  BY <1>2, SInvHolds, PTL

\* The front end's idea of where its frame lies stays that of the manager.
THEOREM PartialFrameIsNext == ~OrphanParts => (StreamSpec => []PartialIsNext)
<1> SUFFICES ASSUME ~OrphanParts PROVE StreamSpec => []PartialIsNext
  OBVIOUS
<1>1. SInv => PartialIsNext
  BY DEF SInv
<1> QED
  BY <1>1, SInvHolds, PTL

\* A gathered frame is never dropped for want of room in the byte buffer.
THEOREM FramesLostOnlyWhenFull == ~OrphanParts => (StreamSpec => []LostOnlyWhenFull)
<1> SUFFICES ASSUME ~OrphanParts PROVE StreamSpec => []LostOnlyWhenFull
  OBVIOUS
<1>1. SInv => LostOnlyWhenFull
  BY SbmAssumption DEF SInv, PartialFits, LostOnlyWhenFull, Accepts, IInv, TypeOK
<1> QED
  BY <1>1, SInvHolds, PTL

LEMMA StreamFifoStep == ~OrphanParts /\ SInv /\ SInv' /\ [StreamNext]_streamVars => [Fifo!Next]_Fifo!vars
<1> SUFFICES ASSUME ~OrphanParts, SInv, SInv', [StreamNext]_streamVars PROVE [Fifo!Next]_Fifo!vars
  OBVIOUS
<1> USE DEF SInv
<1>1. ASSUME UNCHANGED <<bytes, fifo, off>> PROVE UNCHANGED Fifo!vars
  BY <1>1 DEF fifo, Fifo!vars, Entries, Cursor, LiveSlot
<1>2. ASSUME NEW first \in BOOLEAN, NEW last \in BOOLEAN, NEW n \in Lens, NEW t \in Pts,
             SubmitPart(first, last, n, t)
      PROVE  [Fifo!Next]_Fifo!vars
  BY <1>1, <1>2, StartFrameSInv, ContinueFrameSInv, FifoAdd
<1>3. CASE CompleteFrame
  BY <1>1, <1>3, CompleteFrameSInv, FifoAdd
<1>4. CASE Decoder \/ ResetVideoDecoder
  BY <1>4, FifoFlush, FifoReset, FifoCursor DEF Decoder, ResetVideoDecoder
<1>5. CASE (\E n \in Lens : RequestVideoStreamBuffer(n)) \/ UNCHANGED streamVars
  <2>1. UNCHANGED <<bytes, fifo, off>>
    BY <1>5 DEF RequestVideoStreamBuffer, RequestBuffer, streamVars, vars
  <2> QED
    BY <1>1, <2>1
<1> QED
  BY <1>2, <1>3, <1>4, <1>5 DEF StreamNext

\* Gathered part by part or not, what the decoder is given is a first-in first-out
\* queue of whole frames.
THEOREM SubmitIsFifo == ~OrphanParts => (StreamSpec => ImplementsFifo)
<1> SUFFICES ASSUME ~OrphanParts PROVE StreamSpec => ImplementsFifo
  OBVIOUS
<1>1. StreamSpec => Fifo!Init
  BY FifoInit DEF StreamSpec, StreamInit
<1>2. SInv /\ SInv' /\ [StreamNext]_streamVars => [Fifo!Next]_Fifo!vars
  BY StreamFifoStep
<1>3. StreamSpec => [][Fifo!Next]_Fifo!vars
  BY <1>2, SInvHolds, PTL DEF StreamSpec
<1> QED
  BY <1>1, <1>3, PTL DEF ImplementsFifo, Fifo!Spec
=============================================================================
