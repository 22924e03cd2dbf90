------------------------------- MODULE OmxPort -------------------------------
(***************************************************************************)
(* One port of the video decoder component: the ring of buffer headers of   *)
(* libcedarc/openmax/vdec/src/omx_vdec_port.c (BufferList), the messages    *)
(* that carry headers to it and the worker that takes them: the submit      *)
(* thread on the input port, which puts a header back when the stream       *)
(* buffer is full, and the drain thread on the output port, which does not. *)
(*                                                                         *)
(* The client follows the OMX rules: it gives and frees only headers it     *)
(* holds, frees those of a populated port, and once it has sent a command   *)
(* that closes the port it gives no more until the port is open again.      *)
(*                                                                         *)
(* Two ways a header gets out of hand are in the code and so in the model.  *)
(* The submit thread is not parked when PortDisable, or Pause to Executing, *)
(* flushes the input ring: a header it then puts back strays.  And the      *)
(* drain thread drops its header when there is no picture for it.           *)
(***************************************************************************)
EXTENDS Integers, Sequences

CONSTANTS
  nBufNeedSize,   \* the headers of the port
  NoHeader        \* no header; in a slot, one never written

Headers == 0 .. nBufNeedSize - 1    \* indices of pBufArr

ASSUME PortAssumption ==
  /\ nBufNeedSize \in Nat \ {0}
  /\ NoHeader \notin Headers

VARIABLES
  isInput,        \* eDir
  pBufHdrList, nReadPos, nWritePos, nSizeOfList,
  nAllocSize,
  bPopulated,
  open,           \* the port is enabled and the component Executing or paused
  working,        \* the worker looks for headers: the component executes, the
                  \* other port is enabled, and there are pictures to deliver
  posted,         \* headers in EMPTY_BUF or FILL_BUF messages, oldest first
  held,           \* headers the client holds
  hand,           \* the header the worker has, or NoHeader
  \* history
  flushed,        \* the ring was flushed since the worker took that header
  strayed,        \* a header was put back in a ring flushed since
  lost            \* headers the drain thread dropped

ring    == <<pBufHdrList, nReadPos, nWritePos, nSizeOfList>>
life    == <<isInput, nAllocSize, bPopulated, open, working>>
history == <<flushed, strayed, lost>>
vars    == <<ring, life, posted, held, hand, history>>

Init ==
  /\ isInput \in BOOLEAN
  /\ pBufHdrList = [i \in Headers |-> NoHeader]
  /\ nReadPos = 0
  /\ nWritePos = 0
  /\ nSizeOfList = 0
  /\ nAllocSize = 0
  /\ bPopulated = FALSE
  /\ open = FALSE
  /\ working = FALSE
  /\ posted = <<>>
  /\ held = {}
  /\ hand = NoHeader
  /\ flushed = FALSE
  /\ strayed = FALSE
  /\ lost = {}

(* A position one further: the ring wraps at nAllocSize. *)
After(pos) == IF pos + 1 >= nAllocSize THEN 0 ELSE pos + 1

\* Mutant: a position put back before the first one wraps to the first one.
BeforeNoWrap(pos) == IF pos = 0 THEN 0 ELSE pos - 1

(* A position one back: 0 - 1 is the largest OMX_U32, beyond nAllocSize. *)
Before(pos) == IF pos = 0 \/ pos - 1 > nAllocSize THEN nAllocSize - 1 ELSE pos - 1
-----------------------------------------------------------------------------
(* UseBuffer and FreeBuffer, of a closed port.  The header handed out is    *)
(* the one after those handed out, whichever were freed since: bPopulated   *)
(* stays set until the last one is freed and refuses UseBuffer till then.   *)

\* Mutant: a port whose freeing has begun can be populated again.
UseBufferWhileFreeing ==
  /\ ~open
  /\ nAllocSize < nBufNeedSize
  /\ held' = held \cup {nAllocSize}
  /\ nAllocSize' = nAllocSize + 1
  /\ bPopulated' = (bPopulated \/ nAllocSize' = nBufNeedSize)
  /\ UNCHANGED <<ring, isInput, open, working, posted, hand, history>>

UseBuffer ==
  /\ ~open
  /\ ~bPopulated
  /\ nAllocSize < nBufNeedSize
  /\ held' = held \cup {nAllocSize}
  /\ nAllocSize' = nAllocSize + 1
  /\ bPopulated' = (nAllocSize' = nBufNeedSize)
  /\ UNCHANGED <<ring, isInput, open, working, posted, hand, history>>

FreeBuffer(h) ==
  /\ ~open
  /\ bPopulated
  /\ h \in held
  /\ held' = held \ {h}
  /\ nAllocSize' = nAllocSize - 1
  /\ bPopulated' = (nAllocSize' # 0)
  /\ UNCHANGED <<ring, isInput, open, working, posted, hand, history>>

(* The port is enabled (controlRestartPort) or the component leaves Loaded  *)
(* for Idle, which both wait for bPopulated, and goes on to Executing.      *)
Open ==
  /\ ~open
  /\ bPopulated
  /\ nAllocSize = nBufNeedSize
  /\ open' = TRUE
  /\ UNCHANGED <<ring, isInput, nAllocSize, bPopulated, working, posted, held, hand, history>>
-----------------------------------------------------------------------------
(* EmptyThisBuffer and FillThisBuffer post the header; the message thread   *)
(* puts it in the ring, or drops it when the ring is full.                  *)

Give(h) ==
  /\ open
  /\ h \in held
  /\ held' = held \ {h}
  /\ posted' = Append(posted, h)
  /\ UNCHANGED <<ring, life, hand, history>>

Received ==
  /\ posted # <<>>
  /\ posted' = Tail(posted)
  /\ IF nSizeOfList < nAllocSize
     THEN /\ nSizeOfList' = nSizeOfList + 1
          /\ pBufHdrList' = [pBufHdrList EXCEPT ![nWritePos] = Head(posted)]
          /\ nWritePos' = After(nWritePos)
          /\ UNCHANGED nReadPos
     ELSE UNCHANGED ring
  /\ UNCHANGED <<life, held, hand, history>>
-----------------------------------------------------------------------------
(* The worker, and the message thread before the workers run: a header is   *)
(* requested, then given back to the client, or put back in the ring.       *)

(* A slot never written holds NULL, which is refused, or garbage, whose use *)
(* ends the process: no header is taken.                                    *)
doRequestPortBuffer ==
  /\ hand = NoHeader
  /\ nSizeOfList > 0
  /\ pBufHdrList[nReadPos] # NoHeader
  /\ hand' = pBufHdrList[nReadPos]
  /\ nSizeOfList' = nSizeOfList - 1
  /\ nReadPos' = After(nReadPos)
  /\ UNCHANGED <<pBufHdrList, nWritePos, life, posted, held, history>>

\* The worker has no header any more.
Leaves == hand # NoHeader /\ hand' = NoHeader /\ flushed' = FALSE

BufferDone ==
  /\ Leaves
  /\ held' = held \cup {hand}
  /\ UNCHANGED <<ring, life, posted, strayed, lost>>

(* RequestPicture has no picture although NextPictureInfo had: __liDrain    *)
(* returns without giving back the header it took or putting it back.       *)
DropHeader ==
  /\ ~isInput
  /\ Leaves
  /\ lost' = lost \cup {hand}
  /\ UNCHANGED <<ring, life, posted, held, strayed>>

\* Mutant: the count goes up again and the read position stays.
returnWithoutStepBack ==
  /\ isInput
  /\ Leaves
  /\ nSizeOfList' = nSizeOfList + 1
  /\ strayed' = (strayed \/ flushed)
  /\ UNCHANGED <<pBufHdrList, nReadPos, nWritePos, life, posted, held, lost>>

(* What is put back is the slot, whatever it holds after a flush.           *)
returnPortBuffer ==
  /\ isInput
  /\ Leaves
  /\ nSizeOfList' = nSizeOfList + 1
  /\ nReadPos' = Before(nReadPos)
  /\ strayed' = (strayed \/ flushed)
  /\ UNCHANGED <<pBufHdrList, nWritePos, life, posted, held, lost>>
-----------------------------------------------------------------------------
(* doFlushPortBuffer gives back what the ring holds, from nReadPos on.      *)

(* The slot of the i-th header of the ring, counted from 0. *)
Slot(i) == IF nReadPos + i < nBufNeedSize THEN nReadPos + i ELSE nReadPos + i - nBufNeedSize

Waiting == {pBufHdrList[Slot(i)] : i \in 0 .. nSizeOfList - 1}

\* Mutant: the positions are not reset; a flush in the middle of the ring
\* leaves the read position where it started.
FlushKeepsReadPos ==
  /\ held' = held \cup (Waiting \cap Headers)
  /\ nSizeOfList' = 0
  /\ nWritePos' = 0
  /\ flushed' = (hand # NoHeader)
  /\ UNCHANGED <<pBufHdrList, nReadPos, posted, hand, strayed, lost>>

doFlushPortBuffer ==
  /\ held' = held \cup (Waiting \cap Headers)
  /\ nSizeOfList' = 0
  /\ nReadPos' = 0
  /\ nWritePos' = 0
  /\ flushed' = (hand # NoHeader)
  /\ UNCHANGED <<pBufHdrList, posted, hand, strayed, lost>>

(* A flush command: the submit thread is parked.  So is the drain thread,   *)
(* unless the decode thread has let it run again since.                     *)
Flush ==
  /\ isInput => hand = NoHeader
  /\ doFlushPortBuffer
  /\ UNCHANGED life

(* The command that closes the port is behind the headers given before it.  *)
(* PortDisable parks only the drain thread.                                 *)
Close ==
  /\ open
  /\ posted = <<>>
  /\ doFlushPortBuffer
  /\ open' = FALSE
  /\ UNCHANGED <<isInput, nAllocSize, bPopulated, working>>

(* The component is paused or the other port disabled, or pictures run out; *)
(* it goes on, from Pause with a flush of both ports that parks no worker   *)
(* and leaves it halted if the other port is still disabled.                *)
Halt ==
  /\ working
  /\ working' = FALSE
  /\ UNCHANGED <<ring, isInput, nAllocSize, bPopulated, open, posted, held, hand, history>>

GoOn ==
  /\ ~working
  /\ working' = TRUE
  /\ UNCHANGED <<ring, isInput, nAllocSize, bPopulated, open, posted, held, hand, history>>

PauseToExecuting ==
  /\ ~working
  /\ working' \in BOOLEAN
  /\ doFlushPortBuffer
  /\ UNCHANGED <<isInput, nAllocSize, bPopulated, open>>
-----------------------------------------------------------------------------
Next ==
  \/ UseBuffer \/ Open \/ Close \/ Flush
  \/ Halt \/ GoOn \/ PauseToExecuting
  \/ Received \/ doRequestPortBuffer \/ BufferDone \/ DropHeader \/ returnPortBuffer
  \/ \E h \in Headers : FreeBuffer(h) \/ Give(h)

Spec == Init /\ [][Next]_vars

(* The message thread is scheduled.  The worker polls every few             *)
(* milliseconds, far more often than a client can halt it, so it takes a    *)
(* header if it works again and again.  And the work on a header that is    *)
(* begun again and again succeeds at last: the stream buffer has room, a    *)
(* picture is copied.                                                       *)
FairSpec ==
  Spec /\ WF_vars(Received) /\ SF_vars(working /\ doRequestPortBuffer) /\ SF_vars(BufferDone)
-----------------------------------------------------------------------------
TypeOK ==
  /\ isInput \in BOOLEAN
  /\ pBufHdrList \in [Headers -> Headers \cup {NoHeader}]
  /\ nReadPos \in Headers
  /\ nWritePos \in Headers
  /\ nSizeOfList \in 0 .. nBufNeedSize
  /\ nAllocSize \in 0 .. nBufNeedSize
  /\ bPopulated \in BOOLEAN
  /\ open \in BOOLEAN
  /\ working \in BOOLEAN
  /\ posted \in Seq(Headers)
  /\ held \subseteq Headers
  /\ hand \in Headers \cup {NoHeader}
  /\ flushed \in BOOLEAN
  /\ strayed \in BOOLEAN
  /\ lost \subseteq Headers

(* The ring's headers in order, the oldest first. *)
Queue == [i \in 1 .. nSizeOfList |-> pBufHdrList[Slot(i - 1)]]

InMessages == {posted[i] : i \in DOMAIN posted}

\* The queue, the messages, the client, the worker and the lost share the
\* headers out among them; those of an open port are all there.
Owned ==
  /\ \A i, j \in DOMAIN Queue : Queue[i] = Queue[j] => i = j
  /\ \A i, j \in DOMAIN posted : posted[i] = posted[j] => i = j
  /\ Waiting \cap InMessages = {}
  /\ (Waiting \cup InMessages) \cap (held \cup lost \cup {hand}) = {}
  /\ held \cap lost = {}
  /\ hand \notin held \cup lost
  /\ open => Headers \subseteq Waiting \cup InMessages \cup held \cup lost \cup {hand}

(* Every header handed out is in exactly one place: with the client, in a   *)
(* message, in the ring, with the worker, or dropped by the drain thread.   *)
(* So none is given to the client twice, and only that thread loses one,    *)
(* whatever the order of puts, put-backs and flushes; and a dropped header  *)
(* never turns up again.  The exception is a header put back in a ring that *)
(* was flushed since: from then on another may be in the ring in its place. *)
OneOwner == strayed \/ Owned

(* The ring has room for the header the worker may put back, even after a   *)
(* flush and when an earlier one has strayed.  And unless there was such a  *)
(* flush, the position it is put back at is the one it was taken from, and  *)
(* still holds it: nothing was written over it meanwhile.                   *)
PutBackFindsItsSlot ==
  (isInput /\ hand # NoHeader) =>
    /\ nSizeOfList < nAllocSize
    /\ ~flushed /\ ~strayed => pBufHdrList[Before(nReadPos)] = hand

(* "The buffer will be emptied by the component and returned to the         *)
(* application via the EmptyBufferDone call back" (OMX_Core.h), while the   *)
(* worker works, but for the two ways a header is lost.                     *)
HeadersComeBack ==
  \A h \in Headers : h \in InMessages ~> h \in held \cup lost \/ strayed \/ []~working

Promise == INSTANCE HeaderQueue WITH
  queue   <- IF strayed THEN <<>> ELSE Queue,
  work    <- IF strayed THEN NoHeader ELSE hand,
  flushed <- flushed /\ ~strayed

(* The ring with its put-back is a queue: headers are worked on in order,   *)
(* until one is put back after a flush.                                     *)
ImplementsQueue == Promise!Spec
=============================================================================
