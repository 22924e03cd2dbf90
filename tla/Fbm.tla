-------------------------------- MODULE Fbm --------------------------------
(***************************************************************************)
(* The frame buffer manager of libcedarc (vdecoder/fbm.c): the frames that *)
(* the decoder fills and the renderer shows.  A frame the decoder still    *)
(* needs as a reference can be shared with the renderer, so each of them   *)
(* may be the last to let go of it; and when the display changes, every    *)
(* frame goes back to an allocator that replaces its buffer.               *)
(*                                                                         *)
(* One stream (bTwoStreamShareOneFbm = 0).  Every function works under     *)
(* pFbm->mutex and is one action, but FbmShareBuffer, which reads          *)
(* bNeedRelease before it locks, and FbmSetNewDispRelease, which locks     *)
(* three times.                                                            *)
(***************************************************************************)
EXTENDS Integers, Sequences, FiniteSets, Functions

CONSTANTS
  nMaxFrameNum,
  CanShare,     \* does the decoder share its reference frames?
  Quiesced      \* is the decoder reset and kept out while the display changes?

ASSUME FbmAssumption ==
  nMaxFrameNum \in Nat \ {0} /\ CanShare \in BOOLEAN /\ Quiesced \in BOOLEAN

VARIABLES
  bUseGpuBuf, nValidBufNum,     \* buffers set by the client, and how many so far
  queue, num,                   \* the three queues and their counters
  nRenderHoldingNum,
  bUsedByDecoder, bUsedByRender, bInValidPictureQueue,  \* the flags: the set of
  bAlreadyDisplayed, bNeedRelease,                      \* the frames that have each
  released,                     \* frames whose nID is FRM_RELEASE_TAG
  rel,                          \* FbmSetNewDispRelease: "idle", "flush", "release"
  sharing,                      \* FbmShareBuffer: the frame it checked, or NoFrame
  decHas, shared, renHas        \* what the decoder holds, shared, the renderer holds

setup   == <<bUseGpuBuf, nValidBufNum>>
queues  == <<queue, num>>
flags   == <<bUsedByDecoder, bUsedByRender, bInValidPictureQueue, bAlreadyDisplayed,
             bNeedRelease>>
decoder == <<sharing, decHas, shared>>
vars    == <<setup, queues, nRenderHoldingNum, flags, released, rel, decoder, renHas>>

Frames  == 0 .. nMaxFrameNum - 1
Queues  == {"empty", "valid", "release"}
NoFrame == -1

First(S) == CHOOSE i \in S : \A j \in S : i <= j

\* FbmEnqueue and the count that always goes with it.
Enqueue(q, f) ==
  /\ queue' = [queue EXCEPT ![q] = Append(@, f)]
  /\ num' = [num EXCEPT ![q] = @ + 1]

-----------------------------------------------------------------------------
\* FbmCreateBuffer: its own buffers are ready, the client's are still to come.
Init ==
  /\ bUseGpuBuf \in BOOLEAN
  /\ nValidBufNum = 0
  /\ queue = [q \in Queues |-> IF q = "empty" /\ ~bUseGpuBuf
                               THEN [i \in 1 .. nMaxFrameNum |-> i - 1] ELSE <<>>]
  /\ num = [q \in Queues |-> Len(queue[q])]
  /\ nRenderHoldingNum = 0
  /\ bUsedByDecoder = {} /\ bUsedByRender = {} /\ bInValidPictureQueue = {}
  /\ bAlreadyDisplayed = {} /\ bNeedRelease = {} /\ released = {}
  /\ rel = "idle" /\ sharing = NoFrame
  /\ decHas = {} /\ shared = {} /\ renHas = {}

\* The client sets the buffers of the frames one by one, no more than there are.
FbmSetFbmBufAddress ==
  /\ bUseGpuBuf /\ nValidBufNum < nMaxFrameNum
  /\ Enqueue("empty", nValidBufNum)
  /\ nValidBufNum' = nValidBufNum + 1
  /\ UNCHANGED <<bUseGpuBuf, nRenderHoldingNum, flags, released, rel, decoder, renHas>>

(***************************************************************************)
(* The decoder.  omx_vdec parks its thread while the display changes       *)
(* (AW_OMX_MSG_FLUSH); the other users are left free, as the mutex of the  *)
(* manager is meant for.                                                   *)
(***************************************************************************)
DecoderRuns == sharing = NoFrame /\ (Quiesced => rel = "idle")

Clear(f) == f \notin bUsedByDecoder \cup bInValidPictureQueue
                       \cup bUsedByRender \cup bAlreadyDisplayed

\* A frame with a flag set is taken out of the queue and not given out.
FbmRequestBuffer ==
  LET f == Head(queue["empty"])
  IN /\ DecoderRuns
     /\ queue["empty"] # <<>>
     /\ queue' = [queue EXCEPT !["empty"] = Tail(@)]
     /\ IF Clear(f)
        THEN /\ num' = [num EXCEPT !["empty"] = @ - 1]
             /\ bUsedByDecoder' = bUsedByDecoder \cup {f}
             /\ decHas' = decHas \cup {f}
        ELSE UNCHANGED <<num, bUsedByDecoder, decHas>>
     /\ UNCHANGED <<setup, nRenderHoldingNum, bUsedByRender, bInValidPictureQueue,
                    bAlreadyDisplayed, bNeedRelease, released, rel, sharing, shared, renHas>>

\* Mutants of Destination: a frame already shown is shown again; a shared frame
\* that was shown and given back is forgotten.
ShowAgain(f, bValid) ==
  IF f \in bNeedRelease \ bInValidPictureQueue THEN "release"
  ELSE IF f \in bInValidPictureQueue \cup bUsedByRender THEN "none"
  ELSE IF bValid THEN "valid" ELSE "empty"
ForgetDisplayed(f, bValid) ==
  IF f \in bNeedRelease \ bInValidPictureQueue THEN "release"
  ELSE IF f \in bInValidPictureQueue \cup bUsedByRender \cup bAlreadyDisplayed THEN "none"
  ELSE IF bValid THEN "valid" ELSE "empty"

\* Where a frame goes that the decoder gives back: nowhere if it was shared and
\* is in the valid queue or with the renderer, who then is the last to let go.
Destination(f, bValid) ==
  IF f \in bNeedRelease \ bInValidPictureQueue THEN "release"
  ELSE IF f \in bInValidPictureQueue \cup bUsedByRender THEN "none"
  ELSE IF f \in bAlreadyDisplayed THEN "empty"
  ELSE IF bValid THEN "valid" ELSE "empty"

FbmReturnBuffer(f, bValid) ==
  LET q == Destination(f, bValid)
  IN /\ DecoderRuns
     /\ f \in decHas
     /\ decHas' = decHas \ {f}
     /\ shared' = shared \ {f}
     /\ IF f \in released \/ f \notin bUsedByDecoder
        THEN UNCHANGED <<queues, flags>>
        ELSE /\ bUsedByDecoder' = bUsedByDecoder \ {f}
             /\ IF q = "none" THEN UNCHANGED queues ELSE Enqueue(q, f)
             /\ bInValidPictureQueue' = bInValidPictureQueue \cup {x \in {f} : q = "valid"}
             /\ bAlreadyDisplayed' = bAlreadyDisplayed \ {x \in {f} : q # "none"}
             /\ UNCHANGED <<bUsedByRender, bNeedRelease>>
     /\ UNCHANGED <<setup, nRenderHoldingNum, released, rel, sharing, renHas>>

\* FbmShareBuffer up to its lock ...
ShareCheck(f) ==
  /\ CanShare /\ DecoderRuns
  /\ f \in decHas \ shared
  /\ f \notin released /\ f \notin bNeedRelease
  /\ sharing' = f
  /\ UNCHANGED <<setup, queues, nRenderHoldingNum, flags, released, rel, decHas, shared, renHas>>

\* ... and the rest of it.
FbmShareBuffer ==
  /\ sharing # NoFrame
  /\ sharing' = NoFrame
  /\ shared' = shared \cup {sharing}
  /\ IF sharing \in bUsedByDecoder \ (bInValidPictureQueue \cup bAlreadyDisplayed)
     THEN /\ bInValidPictureQueue' = bInValidPictureQueue \cup {sharing}
          /\ Enqueue("valid", sharing)
     ELSE UNCHANGED <<queues, bInValidPictureQueue>>
  /\ UNCHANGED <<setup, nRenderHoldingNum, bUsedByDecoder, bUsedByRender, bAlreadyDisplayed,
                 bNeedRelease, released, rel, decHas, renHas>>

(***************************************************************************)
(* The renderer.                                                           *)
(***************************************************************************)
\* A frame with a wrong flag is taken out of the queue and not given out.
FbmRequestPicture ==
  LET f == Head(queue["valid"])
  IN /\ queue["valid"] # <<>>
     /\ queue' = [queue EXCEPT !["valid"] = Tail(@)]
     /\ IF f \in bInValidPictureQueue \ (bUsedByRender \cup bAlreadyDisplayed)
        THEN /\ num' = [num EXCEPT !["valid"] = @ - 1]
             /\ nRenderHoldingNum' = nRenderHoldingNum + 1
             /\ bInValidPictureQueue' = bInValidPictureQueue \ {f}
             /\ bUsedByRender' = bUsedByRender \cup {f}
             /\ renHas' = renHas \cup {f}
        ELSE UNCHANGED <<num, nRenderHoldingNum, bInValidPictureQueue, bUsedByRender, renHas>>
     /\ UNCHANGED <<setup, bUsedByDecoder, bAlreadyDisplayed, bNeedRelease, released, rel,
                    decoder>>

\* Mutant of PictureGoesTo: bNeedRelease is not looked at.
PictureStays(f) == "empty"

PictureGoesTo(f) == IF f \in bNeedRelease THEN "release" ELSE "empty"

\* A picture whose nID or flags are wrong is not taken back; nobody asks again.
FbmReturnPicture(f) ==
  /\ f \in renHas
  /\ renHas' = renHas \ {f}
  /\ IF f \in released \/ f \notin bUsedByRender \ (bInValidPictureQueue \cup bAlreadyDisplayed)
     THEN UNCHANGED <<queues, nRenderHoldingNum, bUsedByRender, bAlreadyDisplayed>>
     ELSE /\ bUsedByRender' = bUsedByRender \ {f}
          /\ nRenderHoldingNum' = nRenderHoldingNum - 1
          /\ IF f \in bUsedByDecoder
             THEN bAlreadyDisplayed' = bAlreadyDisplayed \cup {f} /\ UNCHANGED queues
             ELSE Enqueue(PictureGoesTo(f), f) /\ UNCHANGED bAlreadyDisplayed
  /\ UNCHANGED <<setup, bUsedByDecoder, bInValidPictureQueue, bNeedRelease, released, rel,
                 decoder>>

(***************************************************************************)
(* FbmFlush, called by ResetVideoDecoder, and the change of the display.   *)
(* Both loops stop at a frame with a wrong flag, which is lost.            *)
(***************************************************************************)
Before(q, bad) == {i \in DOMAIN q : \A j \in 1 .. i : q[j] \notin bad}
UpTo(q, bad)   == SubSeq(q, 1, Cardinality(Before(q, bad)))
After(q, bad)  == SubSeq(q, Cardinality(Before(q, bad)) + 2, Len(q))
Took(q, bad)   == Len(q) - Len(After(q, bad))

\* Mutant of EmptyValidQueue: every picture not shown yet goes back to the decoder.
EmptyAllValid ==
  LET done == UpTo(queue["valid"], bUsedByRender \cup bAlreadyDisplayed)
  IN /\ queue' = [queue EXCEPT !["valid"] = <<>>, !["empty"] = @ \o done]
     /\ num' = [num EXCEPT !["valid"] = 0, !["empty"] = @ + Len(done)]
     /\ bInValidPictureQueue' = bInValidPictureQueue \ Range(done)
     /\ UNCHANGED bAlreadyDisplayed

\* The one way to go through the numbers of K upwards.
Upwards(K) == {g \in [1 .. Cardinality(K) -> K] : \A i, j \in DOMAIN g : i < j => g[i] < g[j]}

\* Of the pictures taken out of the valid queue, those the decoder no longer uses
\* go to the empty queue, in their order.
EmptyValidQueue ==
  LET bad   == bUsedByRender \cup bAlreadyDisplayed
      valid == queue["valid"]
      done  == UpTo(valid, bad)
  IN \E g \in Upwards({i \in DOMAIN done : done[i] \notin bUsedByDecoder}) :
       LET free == [i \in DOMAIN g |-> done[g[i]]]
       IN /\ queue' = [queue EXCEPT !["valid"] = After(valid, bad), !["empty"] = @ \o free]
          /\ num' = [num EXCEPT !["valid"] = @ - Took(valid, bad), !["empty"] = @ + Len(free)]
          /\ bInValidPictureQueue' = bInValidPictureQueue \ Range(done)
          /\ bAlreadyDisplayed' = bAlreadyDisplayed \cup (Range(done) \cap bUsedByDecoder)

FlushFrom(step, next) ==
  /\ rel = step
  /\ rel' = next
  /\ EmptyValidQueue
  /\ UNCHANGED <<setup, nRenderHoldingNum, bUsedByDecoder, bUsedByRender, bNeedRelease,
                 released, decoder, renHas>>

FbmFlush == FlushFrom("idle", "idle")

\* FbmSetNewDispRelease marks the frames that have a buffer, flushes ...
FbmSetNewDispRelease ==
  /\ bUseGpuBuf /\ rel = "idle"
  /\ Quiesced => decHas = {}
  /\ bNeedRelease' = bNeedRelease \cup {f \in Frames : f < nValidBufNum}
  /\ rel' = "flush"
  /\ UNCHANGED <<setup, queues, nRenderHoldingNum, bUsedByDecoder, bUsedByRender,
                 bInValidPictureQueue, bAlreadyDisplayed, released, decoder, renHas>>

FlushForRelease == FlushFrom("flush", "release")

\* ... and FbmNewDispRelease moves the empty frames.
FbmNewDispRelease ==
  LET bad   == {f \in Frames : ~Clear(f)}
      empty == queue["empty"]
      done  == UpTo(empty, bad)
  IN /\ rel = "release"
     /\ rel' = "idle"
     /\ queue' = [queue EXCEPT !["empty"] = After(empty, bad), !["release"] = @ \o done]
     /\ num' = [num EXCEPT !["empty"] = @ - Len(done), !["release"] = @ + Len(done)]
     /\ UNCHANGED <<setup, nRenderHoldingNum, flags, released, decoder, renHas>>

(***************************************************************************)
(* The allocator: it takes frames out and puts them back with new buffers. *)
(***************************************************************************)
FbmRequestReleasePicture ==
  /\ queue["release"] # <<>>
  /\ queue' = [queue EXCEPT !["release"] = Tail(@)]
  /\ num' = [num EXCEPT !["release"] = @ - 1]
  /\ released' = released \cup {Head(queue["release"])}
  /\ UNCHANGED <<setup, nRenderHoldingNum, flags, rel, decoder, renHas>>

Replaced(f) == bNeedRelease' = bNeedRelease \ {f} /\ released' = released \ {f}

FbmReturnReleasePicture ==
  LET out == bNeedRelease \cap released
  IN /\ out # {}
     /\ Replaced(First(out))
     /\ Enqueue("empty", First(out))
     /\ UNCHANGED <<setup, nRenderHoldingNum, bUsedByDecoder, bUsedByRender,
                    bInValidPictureQueue, bAlreadyDisplayed, rel, decoder, renHas>>

Next ==
  \/ FbmSetFbmBufAddress
  \/ FbmRequestBuffer
  \/ \E f \in Frames, bValid \in BOOLEAN : FbmReturnBuffer(f, bValid)
  \/ \E f \in Frames : ShareCheck(f)
  \/ FbmShareBuffer
  \/ FbmRequestPicture
  \/ \E f \in Frames : FbmReturnPicture(f)
  \/ FbmFlush
  \/ FbmSetNewDispRelease \/ FlushForRelease \/ FbmNewDispRelease
  \/ FbmRequestReleasePicture \/ FbmReturnReleasePicture

(***************************************************************************)
(* Fairness: a call that began goes on; the renderer keeps drawing and     *)
(* gives back what it drew; the decoder, which sharing interrupts, gives   *)
(* back every frame in the end; the allocator replaces what it is given.   *)
(***************************************************************************)
Fairness ==
  /\ WF_vars(FbmShareBuffer) /\ WF_vars(FlushForRelease) /\ WF_vars(FbmNewDispRelease)
  /\ WF_vars(FbmRequestPicture)
  /\ WF_vars(FbmRequestReleasePicture) /\ WF_vars(FbmReturnReleasePicture)
  /\ \A f \in Frames : /\ WF_vars(FbmReturnPicture(f))
                       /\ SF_vars(\E bValid \in BOOLEAN : FbmReturnBuffer(f, bValid))

Spec == Init /\ [][Next]_vars /\ Fairness

-----------------------------------------------------------------------------
TypeOK ==
  /\ bUseGpuBuf \in BOOLEAN /\ nValidBufNum \in 0 .. nMaxFrameNum
  /\ queue \in [Queues -> Seq(Frames)] /\ num \in [Queues -> 0 .. nMaxFrameNum]
  /\ nRenderHoldingNum \in 0 .. nMaxFrameNum
  /\ bUsedByDecoder \subseteq Frames /\ bUsedByRender \subseteq Frames
  /\ bInValidPictureQueue \subseteq Frames /\ bAlreadyDisplayed \subseteq Frames
  /\ bNeedRelease \subseteq Frames /\ released \subseteq Frames
  /\ rel \in {"idle", "flush", "release"} /\ sharing \in Frames \cup {NoFrame}
  /\ decHas \subseteq Frames /\ shared \subseteq Frames /\ renHas \subseteq Frames

\* "The picture is in the pEmptyBufferQueue, these four flags shouldn't be set",
\* the test that FbmRequestBuffer and FbmNewDispRelease make of each frame they
\* take out; one that fails it is lost.
EmptyIsClear == \A f \in Range(queue["empty"]) : Clear(f)

\* The flags tell the truth about who holds a frame, so none of the "invalid
\* frame status" exits is taken: what the decoder, the renderer and the flush
\* hand back is accepted, and the valid queue holds what is flagged to be there.
FlagsAgree ==
  /\ bUsedByDecoder = decHas
  /\ bUsedByRender = renHas
  /\ bInValidPictureQueue = Range(queue["valid"])
  /\ bInValidPictureQueue \cap (bUsedByRender \cup bAlreadyDisplayed) = {}
  /\ bAlreadyDisplayed \subseteq bUsedByDecoder \ bUsedByRender

\* No frame is lost and none is in two places: each that has a buffer is once in
\* one of the queues, or in the hands of the decoder, the renderer or the
\* allocator; only a shared one is both the decoder's and the display's.
InUse(f) == f \in decHas \cup renHas \cup released
Places(f) == {p \in Queues \X (1 .. nMaxFrameNum) :
                p[2] <= Len(queue[p[1]]) /\ queue[p[1]][p[2]] = f}

NoFrameLost ==
  \A f \in Frames :
    (bUseGpuBuf => f < nValidBufNum) =>
      /\ Cardinality(Places(f)) <= 1
      /\ Places(f) = {} => InUse(f)
      /\ f \in Range(queue["empty"]) \cup Range(queue["release"]) => ~InUse(f)
      /\ f \in released => f \notin decHas \cup renHas

\* What the getters report is what there is; ValidPictureNum, on which the end of
\* the stream is decided, adds two of these counters.
CountersAgree ==
  /\ \A q \in Queues : num[q] = Len(queue[q])
  /\ nRenderHoldingNum = Cardinality(renHas)

\* The manager's books are right: flags, queues and counters say the same, and an
\* empty frame carries no flag.
BooksAgree == TypeOK /\ EmptyIsClear /\ FlagsAgree /\ CountersAgree

\* When the display has changed, no old buffer gets to the decoder any more: the
\* frames that carry the mark leave for the allocator only.
OldBuffersLeave ==
  rel = "idle" => \A f \in Range(queue["empty"]) : f \notin bNeedRelease

\* FbmReturnReleasePicture finds a released frame by its mark.  One whose buffer
\* was set or replaced between the three locked parts of FbmSetNewDispRelease has
\* none, and cannot be put back.
Stranded == released \ bNeedRelease

\* A decoder that finds no empty frame does not wait for good: one comes back,
\* whoever was the last to use it and whether or not the display changed
\* meanwhile, unless a frame is stranded.
EmptyFrameComes ==
  (queue["empty"] = <<>> /\ (bUseGpuBuf => nValidBufNum > 0))
    ~> (queue["empty"] # <<>> \/ Stranded # {})

\* The manager keeps its promise: a frame is given to the decoder or the allocator
\* only while nobody uses it, and shown once, in order, however the decoder and
\* the renderer let go of it.
Users == INSTANCE FrameUsers WITH
  users <- [f \in Frames |->
              {u \in {"decoder"} : f \in decHas} \cup {u \in {"renderer"} : f \in renHas}
                \cup {u \in {"allocator"} : f \in released \/ (bUseGpuBuf /\ f >= nValidBufNum)}],
  shown <- decHas \cap (bInValidPictureQueue \cup bUsedByRender \cup bAlreadyDisplayed),
  display <- queue["valid"]

ImplementsUsers == Users!Spec
=============================================================================
