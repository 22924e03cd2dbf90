---------------------------- MODULE StreamSubmit ----------------------------
(***************************************************************************)
(* How the video decoder fills the stream buffer manager (vdecoder.c):     *)
(* RequestVideoStreamBuffer and SubmitVideoStreamData gather a frame that  *)
(* arrives in parts and add it to the manager when it is complete.  The    *)
(* parts wait in the buffer past the manager's write address, which does   *)
(* not know of them; p->partialStreamDataInfo does.                        *)
(*                                                                         *)
(* The decoding thread may run between the two SbmAddStream calls that one *)
(* SubmitVideoStreamData can make: the manager's mutex is free in between. *)
(***************************************************************************)
EXTENDS SbmStream

CONSTANTS
  EmptyAsk,    \* the four bytes asked for an empty frame
  OrphanParts  \* may a part come that begins no frame and continues none?

ASSUME SubmitAssumption == EmptyAsk \in Nat \ {0} /\ OrphanParts \in BOOLEAN

VARIABLES
  partial,     \* p->partialStreamDataInfo: the frame being gathered
  completing   \* SubmitVideoStreamData is about to add partial to the manager

submit     == <<partial, completing>>
streamVars == <<vars, submit>>

NoPts      == -1
NoPartial(t) == [pData |-> NULL, nLength |-> 0, nPts |-> t]

-----------------------------------------------------------------------------
StreamInit == Init /\ partial = NoPartial(0) /\ completing = FALSE

\* What RequestVideoStreamBuffer asks of the manager for a part of n bytes.
Required(n) == (IF n = 0 THEN EmptyAsk ELSE n) + partial.nLength

\* The part itself goes after the bytes already gathered.
RequestVideoStreamBuffer(n) ==
  /\ ~completing
  /\ RequestBuffer(Required(n))
  /\ UNCHANGED submit

PartStart == WrapAddr(pWriteAddr + partial.nLength)

\* A first part starts a frame: an earlier one that is not complete is added
\* as it is, and the result ignored.
StartFrame(n, t) ==
  /\ IF partial.nLength # 0 THEN AddStream(partial) ELSE UNCHANGED <<bytes, fifo, off>>
  /\ partial' = [pData |-> PartStart, nLength |-> n, nPts |-> t]

\* Another part only lengthens the frame, and dates it if it has no date.
ContinueFrame(n, t) ==
  /\ partial' = [partial EXCEPT !.nLength = @ + n,
                                !.nPts = IF @ = NoPts THEN t ELSE @]
  /\ UNCHANGED <<bytes, fifo, off>>

\* SubmitVideoStreamData up to the test of bIsLastPart.
SubmitPart(first, last, n, t) ==
  /\ ~completing
  /\ grant # NoGrant
  /\ n + partial.nLength <= grant
  /\ OrphanParts \/ first \/ partial.pData # NULL
  /\ IF first THEN StartFrame(n, t) ELSE ContinueFrame(n, t)
  /\ completing' = last
  /\ grant' = NoGrant
  /\ UNCHANGED <<held, aborted>>

\* The rest of it: the complete frame is added and the gathering starts again.
CompleteFrame ==
  /\ completing
  /\ AddStream(partial)
  /\ partial' = NoPartial(NoPts)
  /\ completing' = FALSE
  /\ UNCHANGED clients

\* Mutant of ResetVideoDecoder: the frame being gathered survives.
ResetKeepsPartial == ~completing /\ Reset /\ UNCHANGED submit

\* The manager's part of ResetVideoDecoder, and the partial frame forgotten.
ResetVideoDecoder ==
  /\ ~completing
  /\ Reset
  /\ partial' = NoPartial(0)
  /\ UNCHANGED completing

StreamNext ==
  /\ ~aborted
  /\ \/ \E n \in Lens : RequestVideoStreamBuffer(n)
     \/ \E first, last \in BOOLEAN, n \in Lens, t \in Pts : SubmitPart(first, last, n, t)
     \/ CompleteFrame
     \/ Decoder /\ UNCHANGED submit
     \/ ResetVideoDecoder

(***************************************************************************)
(* Fairness: SubmitVideoStreamData returns; the decoding thread keeps      *)
(* asking for frames (DecodeVideoStream in a loop) and, though it may give *)
(* a frame back for want of a picture buffer, decodes one now and then.    *)
(***************************************************************************)
Fairness ==
  /\ WF_streamVars(CompleteFrame)
  /\ WF_streamVars(RequestStream /\ UNCHANGED submit)
  /\ SF_streamVars(FlushStream /\ UNCHANGED submit)

StreamSpec == StreamInit /\ [][StreamNext]_streamVars /\ Fairness

-----------------------------------------------------------------------------
SubmitTypeOK ==
  /\ partial \in [pData : Addr \cup {NULL}, nLength : 0 .. Size, nPts : Pts \cup {NoPts, 0}]
  /\ completing \in BOOLEAN

\* The bytes gathered so far are free: no frame that is queued or in the decoder's
\* hands has one of them.
GatheredIsFree ==
  \A k \in 0 .. nValidFrameNum - 1 :
    Bytes(pWriteAddr, partial.nLength) \cap FrameBytes(LiveSlot(k)) = {}

\* Every byte has one use: gathered, granted to the filling thread, or part of one
\* frame, through both adds of a submission and any step of the decoder between.
BytesHaveOneUse == SubmitTypeOK /\ GatheredIsFree /\ GrantIsFree /\ FramesDisjoint

\* The manager will account for the gathered bytes from where they really are:
\* the two views of the write position never drift apart.
PartialIsNext == partial.pData # NULL => partial.pData = pWriteAddr

\* A frame is lost for want of a slot only, never for want of room: the bytes of
\* every part were asked for together with those gathered before it.
LostOnlyWhenFull ==
  (completing \/ (grant # NoGrant /\ partial.nLength # 0)) =>
    Accepts(partial) \/ nValidFrameNum = MaxFrames

\* Nobody waits for good: a part that fits the buffer together with what was
\* gathered before it is granted sooner or later, however the decoder goes about
\* it, or the gathered part grows past the buffer meanwhile.
RoomComesBack ==
  \A n \in Lens :
    (Required(n) + Margin <= Size)
      ~> (HasRoomFor(Required(n)) \/ Required(n) + Margin > Size)

-----------------------------------------------------------------------------
(***************************************************************************)
(* The inductive invariant of the proofs, when no orphan part comes.       *)
(***************************************************************************)

\* The gathered frame can be added as soon as there is a slot for it, and is about
\* to be added only when nothing is granted.
PartialFits ==
  /\ partial.nLength + nValidDataSize <= Size
  /\ partial.pData # NULL => partial.nPts \in Pts
  /\ partial.pData = NULL => partial.nLength = 0
  /\ completing => partial.pData # NULL /\ grant = NoGrant

SInv == IInv /\ SubmitTypeOK /\ PartialIsNext /\ PartialFits
=============================================================================
