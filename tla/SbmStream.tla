----------------------------- MODULE SbmStream -----------------------------
(***************************************************************************)
(* The stream buffer manager of libcedarc (vdecoder/sbm/sbmStream.c): a    *)
(* cyclic byte buffer and a cyclic array of frame descriptors between the  *)
(* thread that fills it with bitstream data and the thread that decodes.   *)
(*                                                                         *)
(* Every function of the file runs under the manager's mutex, so each is   *)
(* one action.  The bytes themselves are written between RequestBuffer and *)
(* AddStream without the mutex, and read by the decoder between            *)
(* RequestStream and FlushStream without it: the variables grant and held  *)
(* keep what each thread may touch in the meantime.                        *)
(***************************************************************************)
EXTENDS Integers, Sequences

CONSTANTS
  Size,       \* nStreamBufferSize, in bytes
  MaxFrames,  \* SBM_FRAME_FIFO_SIZE
  Margin,     \* the 64 bytes SbmStreamRequestBuffer keeps free
  Lens,       \* the frame lengths the filling thread uses
  Pts         \* the time stamps that tell frames apart

ASSUME SbmAssumption ==
  /\ Size \in Nat \ {0}
  /\ MaxFrames \in Nat \ {0}
  /\ Margin \in Nat
  /\ Lens \subseteq Nat
  /\ Pts # {}

VARIABLES
  pWriteAddr, nValidDataSize,                   \* the byte buffer
  pFrames, nValidFrameNum, nUnReadFrameNum,     \* the frame array ...
  nReadPos, nWritePos, nFlushPos,               \* ... and its three positions
  grant,     \* bytes the filling thread may write from pWriteAddr, or NoGrant
  held,      \* the slots whose address the decoder holds, oldest first
  aborted,   \* abort() was called
  off        \* history: a frame's distance from the oldest unflushed byte

bytes   == <<pWriteAddr, nValidDataSize>>
fifo    == <<pFrames, nValidFrameNum, nUnReadFrameNum, nReadPos, nWritePos, nFlushPos>>
clients == <<grant, held, aborted>>
vars    == <<bytes, fifo, clients, off>>

Slot    == 0 .. MaxFrames - 1
Addr    == 0 .. Size - 1
NoGrant == -1
NULL    == -1
Frame   == [pData : Addr, nLength : 0 .. Size, nPts : Pts]

\* The two cyclic successions: if(nPos >= nMaxFrameNum) nPos = 0, and
\* if(pNewWriteAddr > pStreamBufferEnd) pNewWriteAddr -= nStreamBufferSize.
WrapSlot(i) == IF i >= MaxFrames THEN i - MaxFrames ELSE i
WrapAddr(a) == IF a > Size - 1 THEN a - Size ELSE a

-----------------------------------------------------------------------------
Init ==
  /\ pWriteAddr = 0
  /\ nValidDataSize = 0
  /\ \E t \in Pts : pFrames = [s \in Slot |-> [pData |-> 0, nLength |-> 0, nPts |-> t]]
  /\ nValidFrameNum = 0
  /\ nUnReadFrameNum = 0
  /\ nReadPos = 0
  /\ nWritePos = 0
  /\ nFlushPos = 0
  /\ grant = NoGrant
  /\ held = <<>>
  /\ aborted = FALSE
  /\ off = [s \in Slot |-> 0]

(***************************************************************************)
(* The filling thread.                                                     *)
(***************************************************************************)

\* Mutants of HasRoomFor: the bytes in use, the frame slots, or the last byte of
\* the buffer overlooked.
HasRoomForInAll(n) == nValidFrameNum < MaxFrames /\ n + Margin <= Size
HasRoomForNoSlot(n) == n + Margin <= Size - nValidDataSize
HasRoomForLess(n) == nValidFrameNum < MaxFrames /\ n + Margin < Size - nValidDataSize

\* The conditions under which SbmStreamRequestBuffer hands out n bytes.
HasRoomFor(n) ==
  /\ nValidFrameNum < MaxFrames
  /\ nValidDataSize < Size
  /\ n + Margin <= Size - nValidDataSize

\* A refused request changes nothing; a granted one hands out the write
\* address and reserves nothing: a caller that drops its grant just asks again.
RequestBuffer(n) ==
  /\ HasRoomFor(n)
  /\ grant' = n
  /\ UNCHANGED <<bytes, fifo, held, aborted, off>>

\* The checks of SbmStreamAddStream that refuse a frame.
Accepts(info) ==
  /\ info.pData # NULL
  /\ nValidFrameNum < MaxFrames
  /\ info.nLength + nValidDataSize <= Size

pNewWriteAddr(n) == WrapAddr(pWriteAddr + n)

Append1(info) ==
  /\ pFrames' = [pFrames EXCEPT ![nWritePos] = info]
  /\ off' = [off EXCEPT ![nWritePos] = nValidDataSize]
  /\ nWritePos' = WrapSlot(nWritePos + 1)
  /\ nValidFrameNum' = nValidFrameNum + 1
  /\ nUnReadFrameNum' = nUnReadFrameNum + 1
  /\ nValidDataSize' = nValidDataSize + info.nLength
  /\ pWriteAddr' = pNewWriteAddr(info.nLength)
  /\ UNCHANGED <<nReadPos, nFlushPos>>

\* A refused frame is dropped: no caller looks at the result.
AddStream(info) ==
  IF Accepts(info) THEN Append1(info) ELSE UNCHANGED <<bytes, fifo, off>>

\* The filling thread adds what it wrote, at most what it was granted.
SubmitFrame(n, t) ==
  /\ grant # NoGrant
  /\ n <= grant
  /\ AddStream([pData |-> pWriteAddr, nLength |-> n, nPts |-> t])
  /\ grant' = NoGrant
  /\ UNCHANGED <<held, aborted>>

(***************************************************************************)
(* The decoding thread.  It gives frames back in the order the manager     *)
(* asks for: the last one it took, or the oldest one, decoded.             *)
(***************************************************************************)
RequestStream ==
  /\ nUnReadFrameNum # 0
  /\ held' = Append(held, nReadPos)
  /\ nReadPos' = WrapSlot(nReadPos + 1)
  /\ nUnReadFrameNum' = nUnReadFrameNum - 1
  /\ UNCHANGED <<bytes, pFrames, nValidFrameNum, nWritePos, nFlushPos, grant, aborted, off>>

\* Mutant of PrevSlot: off by one where it wraps.
PrevSlotLate(i) == IF i - 1 < 0 THEN MaxFrames ELSE i - 1

PrevSlot(i) == IF i - 1 < 0 THEN MaxFrames - 1 ELSE i - 1

\* "wrong frame sequence": the process aborts.
ReturnStream ==
  LET p == held[Len(held)]
      back == PrevSlot(nReadPos)
  IN /\ held # <<>>
     /\ nValidFrameNum # 0
     /\ nUnReadFrameNum' = nUnReadFrameNum + 1
     /\ aborted' = (p # back)
     /\ nReadPos' = IF p = back THEN back ELSE nReadPos
     /\ held' = SubSeq(held, 1, Len(held) - 1)
     /\ UNCHANGED <<bytes, pFrames, nValidFrameNum, nWritePos, nFlushPos, grant, off>>

\* "not current nFlushPos": the process aborts.
FlushStream ==
  LET p == Head(held)
      len == pFrames[p].nLength
  IN /\ held # <<>>
     /\ nValidFrameNum # 0
     /\ held' = Tail(held)
     /\ aborted' = (p # nFlushPos)
     /\ IF p = nFlushPos
        THEN /\ nFlushPos' = WrapSlot(nFlushPos + 1)
             /\ nValidFrameNum' = nValidFrameNum - 1
             /\ nValidDataSize' = nValidDataSize - len
             /\ off' = [s \in Slot |-> IF off[s] >= len THEN off[s] - len ELSE 0]
        ELSE UNCHANGED <<nFlushPos, nValidFrameNum, nValidDataSize, off>>
     /\ UNCHANGED <<pWriteAddr, pFrames, nUnReadFrameNum, nReadPos, nWritePos, grant>>

\* Mutant of Reset: the count of unread frames survives.
ResetKeepsUnread ==
  /\ pWriteAddr' = 0
  /\ nValidDataSize' = 0
  /\ nReadPos' = 0
  /\ nWritePos' = 0
  /\ nFlushPos' = 0
  /\ nValidFrameNum' = 0
  /\ grant' = NoGrant
  /\ held' = <<>>
  /\ UNCHANGED <<pFrames, nUnReadFrameNum, aborted, off>>

(***************************************************************************)
(* SbmStreamReset, called by ResetVideoDecoder after the video engine was  *)
(* reset, so that the decoder holds no frame any more.  Its callers keep   *)
(* it away from a thread that is filling (omx_vdec holds awMutexHandler    *)
(* for both): a grant that is still there was dropped.  The frame array    *)
(* keeps its contents.                                                     *)
(***************************************************************************)
Reset ==
  /\ pWriteAddr' = 0
  /\ nValidDataSize' = 0
  /\ nReadPos' = 0
  /\ nWritePos' = 0
  /\ nFlushPos' = 0
  /\ nValidFrameNum' = 0
  /\ nUnReadFrameNum' = 0
  /\ grant' = NoGrant
  /\ held' = <<>>
  /\ UNCHANGED <<pFrames, aborted, off>>

Decoder == RequestStream \/ ReturnStream \/ FlushStream

Next ==
  /\ ~aborted
  /\ \/ \E n \in Lens : RequestBuffer(n)
     \/ \E n \in Lens, t \in Pts : SubmitFrame(n, t)
     \/ Decoder
     \/ Reset

Spec == Init /\ [][Next]_vars

-----------------------------------------------------------------------------
TypeOK ==
  /\ pWriteAddr \in Addr
  /\ nValidDataSize \in 0 .. Size
  /\ pFrames \in [Slot -> Frame]
  /\ nValidFrameNum \in 0 .. MaxFrames
  /\ nUnReadFrameNum \in 0 .. nValidFrameNum
  /\ nReadPos \in Slot
  /\ nWritePos \in Slot
  /\ nFlushPos \in Slot
  /\ grant \in {NoGrant} \cup 0 .. Size
  /\ held \in Seq(Slot)
  /\ aborted \in BOOLEAN
  /\ off \in [Slot -> 0 .. Size]

\* The k-th frame that is queued and not flushed, from 0.
LiveSlot(k) == WrapSlot(nFlushPos + k)

\* The bytes of n bytes from address a, in the cyclic buffer.
Bytes(a, n) == {WrapAddr(a + i) : i \in 0 .. n - 1}

FrameBytes(s) == Bytes(pFrames[s].pData, pFrames[s].nLength)

\* The two asserts of the file, abort() in SbmStreamReturnStream and in
\* SbmStreamFlushStream, never fire as long as the decoder gives frames back in
\* order, whatever wraps around in between and after any reset.
NeverAborts == ~aborted

\* "After flushed, the buffer can be used to store new stream", and not before:
\* the bytes the filling thread may write belong to no frame that is queued or
\* that the decoder holds.
GrantIsFree ==
  grant # NoGrant =>
    \A k \in 0 .. nValidFrameNum - 1 :
      Bytes(pWriteAddr, grant) \cap FrameBytes(LiveSlot(k)) = {}

\* No two queued frames share a byte.
FramesDisjoint ==
  \A j, k \in 0 .. nValidFrameNum - 1 :
    j # k => FrameBytes(LiveSlot(j)) \cap FrameBytes(LiveSlot(k)) = {}

\* What RequestBuffer granted can be added: the frame is not refused (and
\* silently lost) for want of a slot or of room, whatever the decoder did between.
GrantIsHonoured ==
  grant # NoGrant => /\ nValidFrameNum < MaxFrames
                     /\ grant + nValidDataSize <= Size

\* The frames queued and not flushed, oldest first, and how many are requested.
Entries == [k \in 1 .. nValidFrameNum |-> pFrames[LiveSlot(k - 1)]]
Cursor  == nValidFrameNum - nUnReadFrameNum

\* The manager is a queue with a cursor: frames are handed to the decoder in the
\* order they were added, none twice and none skipped, and returning one leaves
\* the sequence as it was.
Fifo == INSTANCE FrameFifo WITH entries <- Entries, cursor <- Cursor

ImplementsFifo == Fifo!Spec

-----------------------------------------------------------------------------
(***************************************************************************)
(* The inductive invariant of the proofs.                                  *)
(***************************************************************************)

\* The oldest unflushed byte.
Base == IF pWriteAddr >= nValidDataSize THEN pWriteAddr - nValidDataSize
                                        ELSE pWriteAddr - nValidDataSize + Size

\* The three positions and what the decoder holds are one another's distance
\* apart, around the array.
PositionsAgree ==
  /\ nWritePos = LiveSlot(nValidFrameNum)
  /\ nReadPos = LiveSlot(nValidFrameNum - nUnReadFrameNum)
  /\ Len(held) = nValidFrameNum - nUnReadFrameNum
  /\ \A k \in 1 .. Len(held) : held[k] = LiveSlot(k - 1)

\* The queued frames follow one another in the byte buffer without a gap, from
\* the oldest unflushed byte to the write address.
Contiguous ==
  /\ nValidFrameNum = 0 => nValidDataSize = 0
  /\ nValidFrameNum > 0 =>
       LET last == LiveSlot(nValidFrameNum - 1)
       IN /\ off[nFlushPos] = 0
          /\ off[last] + pFrames[last].nLength = nValidDataSize
  /\ \A k \in 0 .. nValidFrameNum - 1 :
       LET s == LiveSlot(k)
       IN /\ pFrames[s].pData = WrapAddr(Base + off[s])
          /\ off[s] + pFrames[s].nLength <= nValidDataSize
          /\ k + 1 < nValidFrameNum => off[LiveSlot(k + 1)] = off[s] + pFrames[s].nLength
  /\ \A j, k \in 0 .. nValidFrameNum - 1 :
       j < k => off[LiveSlot(j)] + pFrames[LiveSlot(j)].nLength <= off[LiveSlot(k)]

IInv == TypeOK /\ NeverAborts /\ PositionsAgree /\ Contiguous /\ GrantIsHonoured
=============================================================================
