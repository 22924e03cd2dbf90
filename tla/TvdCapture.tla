----------------------------- MODULE TvdCapture -----------------------------
(***************************************************************************)
(* The TVD capture driver (suniv_f1c100s_tvd.c): the composite video       *)
(* decoder of the F1C100s writes frames by DMA into the buffers that a     *)
(* client queues through videobuf2.                                        *)
(*                                                                         *)
(* Three parties interleave: the client's ioctls, which tvd->lock makes    *)
(* one thread; the frame interrupt, which on the F1C100s' only core can    *)
(* preempt that thread between any two of its steps outside tvd->qlock     *)
(* (taken with interrupts off) and then runs to its end; and the video     *)
(* decoder, which stops for neither.  videobuf2 and the decoder are        *)
(* modelled from how the driver uses them.                                 *)
(***************************************************************************)
EXTENDS Naturals, Sequences

CONSTANTS
  Buffers,         \* the buffers REQBUFS allocates
  NoBuf,           \* NULL, and no address
  MinBuffers,      \* vb_queue.min_buffers_needed
  SeqMod           \* the range of the unsigned int tvd->sequence

ASSUME TvdAssumption ==
  /\ NoBuf \notin Buffers
  /\ MinBuffers \in Nat \ {0}
  /\ SeqMod \in Nat \ {0}

VARIABLES
  \* videobuf2
  owner,          \* who has each buffer: "user", "queued", "driver" or "done"
  vqueue,         \* q->queued_list before the stream starts
  doneList,       \* q->done_list: the buffers DQBUF returns, with their sequence
  allocated,      \* REQBUFS was called: vb2_is_busy
  vbStreaming,    \* q->streaming
  started,        \* q->start_streaming_called
  \* struct suniv_tvd_dev
  queued_bufs, active, sequence, streaming,
  \* the decoder's registers
  captureEn,      \* CAPTURE: SUNIV_TVD_CAPTURE_EN
  addr,           \* ADDR_Y and ADDR_C: the buffer they point to
  intStatus, intEnable,
  \* who is where
  pc,             \* the thread: "idle", or the next step of start or stop
  irqPc,          \* the handler: "none", "swap" or "done"
  irqDone,        \* its local variable done
  filled,         \* history: was a frame written to the buffer since QBUF?
  overrun         \* history: did a frame of this stream complete in the handler?

vb2    == <<owner, vqueue, doneList, allocated, vbStreaming, started>>
tvd    == <<queued_bufs, active, sequence, streaming>>
regs   == <<captureEn, addr, intStatus, intEnable>>
irq    == <<irqPc, irqDone>>
vars   == <<vb2, tvd, regs, pc, irq, filled, overrun>>

Owners     == {"user", "queued", "driver", "done"}
StartSteps == {"st_lock", "st_clear", "st_program", "st_enable", "st_capture"}
StopSteps  == {"sp_flag", "sp_disable", "sp_capture", "sp_clear", "sp_return", "sp_cancel"}

In(b, s) == \E i \in DOMAIN s : s[i] = b

-----------------------------------------------------------------------------
\* After probe: the decoder is set up and captures nothing.
Init ==
  /\ owner = [b \in Buffers |-> "user"]
  /\ vqueue = <<>> /\ doneList = <<>>
  /\ allocated = FALSE /\ vbStreaming = FALSE /\ started = FALSE
  /\ queued_bufs = <<>> /\ active = NoBuf /\ sequence = 0 /\ streaming = FALSE
  /\ captureEn = FALSE /\ addr = NoBuf /\ intStatus = FALSE /\ intEnable = FALSE
  /\ pc = "idle" /\ irqPc = "none" /\ irqDone = NoBuf
  /\ filled = [b \in Buffers |-> FALSE]
  /\ overrun = FALSE

\* No ioctl runs while another holds tvd->lock or the handler has the core.
ThreadAt(step) == pc = step /\ irqPc = "none"

(***************************************************************************)
(* videobuf2, entered from the client's ioctls.                            *)
(***************************************************************************)
ReqBufs ==
  /\ ThreadAt("idle")
  /\ ~allocated
  /\ allocated' = TRUE
  /\ UNCHANGED <<owner, vqueue, doneList, vbStreaming, started, tvd, regs, pc, irq, filled, overrun>>

\* REQBUFS with a count of zero, refused while streaming.
FreeBufs ==
  /\ ThreadAt("idle")
  /\ allocated /\ ~vbStreaming
  /\ allocated' = FALSE
  /\ owner' = [b \in Buffers |-> "user"]
  /\ vqueue' = <<>>
  /\ UNCHANGED <<doneList, vbStreaming, started, tvd, regs, pc, irq, filled, overrun>>

EnoughBuffers(n) == n >= MinBuffers

\* vb2_start_streaming: everything queued goes to the driver, then it starts.
HandOver(q) ==
  /\ owner' = [b \in Buffers |-> IF In(b, q) THEN "driver" ELSE owner[b]]
  /\ vqueue' = <<>>
  /\ queued_bufs' = queued_bufs \o q
  /\ started' = TRUE
  /\ pc' = "st_lock"
  /\ UNCHANGED <<active, sequence, streaming, regs>>

\* Mutants of BufQueue: it captures into the new buffer whatever goes on; it leaves
\* an idle decoder idle; it queues with list_add.
BufQueueAlways(b) ==
  LET q == Append(queued_bufs, b)
  IN /\ active' = Head(q) /\ queued_bufs' = Tail(q)
     /\ addr' = Head(q) /\ captureEn' = TRUE
BufQueueLazy(b) ==
  queued_bufs' = Append(queued_bufs, b) /\ UNCHANGED <<active, addr, captureEn>>
BufQueueInFront(b) ==
  LET q == <<b>> \o queued_bufs
  IN IF streaming /\ active = NoBuf
     THEN /\ active' = Head(q) /\ queued_bufs' = Tail(q)
          /\ addr' = Head(q) /\ captureEn' = TRUE
     ELSE queued_bufs' = q /\ UNCHANGED <<active, addr, captureEn>>

\* suniv_tvd_buf_queue: the buffer is captured into at once if none is.
BufQueue(b) ==
  LET q == Append(queued_bufs, b)
  IN IF streaming /\ active = NoBuf
     THEN /\ active' = Head(q)
          /\ queued_bufs' = Tail(q)
          /\ addr' = Head(q)
          /\ captureEn' = TRUE
     ELSE /\ queued_bufs' = q
          /\ UNCHANGED <<active, addr, captureEn>>

QBuf(b) ==
  /\ ThreadAt("idle")
  /\ allocated /\ owner[b] = "user"
  /\ filled' = [filled EXCEPT ![b] = FALSE]
  /\ \/ /\ started
        /\ BufQueue(b)
        /\ owner' = [owner EXCEPT ![b] = "driver"]
        /\ UNCHANGED <<vqueue, started, sequence, streaming, intStatus, intEnable, pc>>
     \/ /\ ~started
        /\ vbStreaming /\ EnoughBuffers(Len(vqueue) + 1)
        /\ HandOver(Append(vqueue, b))
     \/ /\ ~started
        /\ ~(vbStreaming /\ EnoughBuffers(Len(vqueue) + 1))
        /\ vqueue' = Append(vqueue, b)
        /\ owner' = [owner EXCEPT ![b] = "queued"]
        /\ UNCHANGED <<started, tvd, regs, pc>>
  /\ UNCHANGED <<doneList, allocated, vbStreaming, irq, overrun>>

DQBuf ==
  /\ ThreadAt("idle")
  /\ doneList # <<>>
  /\ owner' = [owner EXCEPT ![Head(doneList).buf] = "user"]
  /\ doneList' = Tail(doneList)
  /\ UNCHANGED <<vqueue, allocated, vbStreaming, started, tvd, regs, pc, irq, filled, overrun>>

StreamOn ==
  /\ ThreadAt("idle")
  /\ allocated /\ ~vbStreaming
  /\ vbStreaming' = TRUE
  /\ IF EnoughBuffers(Len(vqueue))
     THEN HandOver(vqueue)
     ELSE UNCHANGED <<owner, vqueue, started, tvd, regs, pc>>
  /\ UNCHANGED <<doneList, allocated, irq, filled, overrun>>

StreamOff ==
  /\ ThreadAt("idle")
  /\ allocated
  /\ pc' = IF started THEN "sp_flag" ELSE "sp_cancel"
  /\ UNCHANGED <<vb2, tvd, regs, irq, filled, overrun>>

(***************************************************************************)
(* suniv_tvd_start_streaming, one step per register write.  The block      *)
(* under qlock is first; its -EIO exit, with no buffer queued, is not      *)
(* reachable (StartFindsBuffer).                                           *)
(***************************************************************************)
StartLocked ==
  /\ ThreadAt("st_lock")
  /\ active' = Head(queued_bufs)
  /\ queued_bufs' = Tail(queued_bufs)
  /\ sequence' = 0
  /\ streaming' = TRUE
  /\ pc' = "st_clear"
  /\ UNCHANGED <<vb2, regs, irq, filled, overrun>>

StartClearStatus ==
  /\ ThreadAt("st_clear")
  /\ intStatus' = FALSE
  /\ pc' = "st_program"
  /\ UNCHANGED <<vb2, tvd, captureEn, addr, intEnable, irq, filled, overrun>>

StartProgram ==
  /\ ThreadAt("st_program")
  /\ addr' = active
  /\ pc' = "st_enable"
  /\ UNCHANGED <<vb2, tvd, captureEn, intStatus, intEnable, irq, filled, overrun>>

StartEnableInt ==
  /\ ThreadAt("st_enable")
  /\ intEnable' = TRUE
  /\ pc' = "st_capture"
  /\ UNCHANGED <<vb2, tvd, captureEn, addr, intStatus, irq, filled, overrun>>

StartCapture ==
  /\ ThreadAt("st_capture")
  /\ captureEn' = TRUE
  /\ pc' = "idle"
  /\ UNCHANGED <<vb2, tvd, addr, intStatus, intEnable, irq, filled, overrun>>

Start == StartLocked \/ StartClearStatus \/ StartProgram \/ StartEnableInt \/ StartCapture

(***************************************************************************)
(* suniv_tvd_stop_streaming and, after it, videobuf2's queue cancel, which *)
(* takes every buffer back from wherever it is.                            *)
(***************************************************************************)
StopFlag ==
  /\ ThreadAt("sp_flag")
  /\ streaming' = FALSE
  /\ pc' = "sp_disable"
  /\ UNCHANGED <<vb2, queued_bufs, active, sequence, regs, irq, filled, overrun>>

StopDisableInt ==
  /\ ThreadAt("sp_disable")
  /\ intEnable' = FALSE
  /\ pc' = "sp_capture"
  /\ UNCHANGED <<vb2, tvd, captureEn, addr, intStatus, irq, filled, overrun>>

StopCapture ==
  /\ ThreadAt("sp_capture")
  /\ captureEn' = FALSE
  /\ pc' = "sp_clear"
  /\ UNCHANGED <<vb2, tvd, addr, intStatus, intEnable, irq, filled, overrun>>

StopClearStatus ==
  /\ ThreadAt("sp_clear")
  /\ intStatus' = FALSE
  /\ pc' = "sp_return"
  /\ UNCHANGED <<vb2, tvd, captureEn, addr, intEnable, irq, filled, overrun>>

\* suniv_tvd_return_all_buffers.
ReturnAllBuffers ==
  /\ ThreadAt("sp_return")
  /\ owner' = [b \in Buffers |->
                 IF b = active \/ In(b, queued_bufs) THEN "done" ELSE owner[b]]
  /\ active' = NoBuf
  /\ queued_bufs' = <<>>
  /\ pc' = "sp_cancel"
  /\ UNCHANGED <<vqueue, doneList, allocated, vbStreaming, started, sequence, streaming,
                 regs, irq, filled, overrun>>

QueueCancel ==
  /\ ThreadAt("sp_cancel")
  /\ owner' = [b \in Buffers |-> "user"]
  /\ vqueue' = <<>> /\ doneList' = <<>>
  /\ vbStreaming' = FALSE /\ started' = FALSE
  /\ pc' = "idle"
  /\ overrun' = FALSE
  /\ UNCHANGED <<allocated, tvd, regs, irq, filled>>

Stop == StopFlag \/ StopDisableInt \/ StopCapture \/ StopClearStatus
          \/ ReturnAllBuffers \/ QueueCancel

(***************************************************************************)
(* suniv_tvd_irq: it acknowledges the interrupt, swaps the buffers under   *)
(* qlock, and only then gives the finished one to videobuf2.               *)
(***************************************************************************)
\* Mutant of IrqAck: the status is not cleared.
IrqNoAck ==
  /\ irqPc = "none" /\ intEnable /\ intStatus
  /\ irqPc' = "swap"
  /\ UNCHANGED <<vb2, tvd, regs, pc, irqDone, filled, overrun>>

IrqAck ==
  /\ irqPc = "none" /\ intEnable /\ intStatus
  /\ intStatus' = FALSE
  /\ irqPc' = "swap"
  /\ UNCHANGED <<vb2, tvd, captureEn, addr, intEnable, pc, irqDone, filled, overrun>>

\* Mutant of IrqSwap: the decoder goes on without a buffer.
IrqSwapStaysOn ==
  /\ irqPc = "swap"
  /\ irqDone' = active
  /\ IF queued_bufs # <<>>
     THEN /\ active' = Head(queued_bufs)
          /\ queued_bufs' = Tail(queued_bufs)
          /\ addr' = Head(queued_bufs)
          /\ captureEn' = TRUE
     ELSE /\ active' = NoBuf
          /\ UNCHANGED <<queued_bufs, addr, captureEn>>
  /\ irqPc' = "done"
  /\ UNCHANGED <<vb2, sequence, streaming, intStatus, intEnable, pc, filled, overrun>>

IrqSwap ==
  /\ irqPc = "swap"
  /\ irqDone' = active
  /\ IF queued_bufs # <<>>
     THEN /\ active' = Head(queued_bufs)
          /\ queued_bufs' = Tail(queued_bufs)
          /\ addr' = Head(queued_bufs)
          /\ captureEn' = TRUE
     ELSE /\ active' = NoBuf
          /\ captureEn' = FALSE
          /\ UNCHANGED <<queued_bufs, addr>>
  /\ irqPc' = "done"
  /\ UNCHANGED <<vb2, sequence, streaming, intStatus, intEnable, pc, filled, overrun>>

NextSequence == (sequence + 1) % SeqMod

\* Mutant of IrqDone: every interrupt counts as a frame.
IrqDoneCountsAll ==
  /\ irqPc = "done"
  /\ IF irqDone # NoBuf
     THEN /\ owner' = [owner EXCEPT ![irqDone] = "done"]
          /\ doneList' = Append(doneList, [buf |-> irqDone, seq |-> sequence])
     ELSE UNCHANGED <<owner, doneList>>
  /\ sequence' = NextSequence
  /\ irqDone' = NoBuf
  /\ irqPc' = "none"
  /\ UNCHANGED <<vqueue, allocated, vbStreaming, started, queued_bufs, active, streaming,
                 regs, pc, filled, overrun>>

IrqDone ==
  /\ irqPc = "done"
  /\ IF irqDone # NoBuf
     THEN /\ owner' = [owner EXCEPT ![irqDone] = "done"]
          /\ doneList' = Append(doneList, [buf |-> irqDone, seq |-> sequence])
          /\ sequence' = NextSequence
     ELSE UNCHANGED <<owner, doneList, sequence>>
  /\ irqDone' = NoBuf
  /\ irqPc' = "none"
  /\ UNCHANGED <<vqueue, allocated, vbStreaming, started, queued_bufs, active, streaming,
                 regs, pc, filled, overrun>>

Irq == IrqAck \/ IrqSwap \/ IrqDone

\* The decoder completes a frame, in the buffer its address registers point to.
HwFrame ==
  /\ captureEn
  /\ intStatus' = TRUE
  /\ filled' = [b \in Buffers |-> filled[b] \/ b = addr]
  /\ overrun' = (overrun \/ irqPc # "none")
  /\ UNCHANGED <<vb2, tvd, captureEn, addr, intEnable, pc, irq>>

Next ==
  \/ ReqBufs \/ FreeBufs \/ DQBuf \/ StreamOn \/ StreamOff
  \/ \E b \in Buffers : QBuf(b)
  \/ Start
  \/ Stop
  \/ Irq
  \/ HwFrame

(***************************************************************************)
(* Fairness: the handler runs when it is due and both it and a started     *)
(* ioctl finish; the decoder keeps completing frames while it captures.    *)
(* Nothing makes the client call.                                          *)
(***************************************************************************)
Fairness == WF_vars(Start) /\ WF_vars(Stop) /\ WF_vars(Irq) /\ WF_vars(HwFrame)

Spec == Init /\ [][Next]_vars /\ Fairness

-----------------------------------------------------------------------------
TypeOK ==
  /\ owner \in [Buffers -> Owners]
  /\ vqueue \in Seq(Buffers) /\ queued_bufs \in Seq(Buffers)
  /\ doneList \in Seq([buf : Buffers, seq : 0 .. SeqMod - 1])
  /\ allocated \in BOOLEAN /\ vbStreaming \in BOOLEAN /\ started \in BOOLEAN
  /\ active \in Buffers \cup {NoBuf} /\ sequence \in 0 .. SeqMod - 1 /\ streaming \in BOOLEAN
  /\ captureEn \in BOOLEAN /\ addr \in Buffers \cup {NoBuf}
  /\ intStatus \in BOOLEAN /\ intEnable \in BOOLEAN
  /\ pc \in {"idle"} \cup StartSteps \cup StopSteps
  /\ irqPc \in {"none", "swap", "done"} /\ irqDone \in Buffers \cup {NoBuf}
  /\ filled \in [Buffers -> BOOLEAN] /\ overrun \in BOOLEAN

\* The decoder never writes to a buffer that is not the driver's: not to one the
\* client may read or that waits for DQBUF, not to one taken back by STREAMOFF.
DmaOnlyIntoOwned == captureEn => addr # NoBuf /\ owner[addr] = "driver"

\* A buffer is in one place only, and videobuf2 and the driver agree on which:
\* no buffer is lost in the driver and none is given back twice.
NoDuplicates(s) == \A i, j \in DOMAIN s : s[i] = s[j] => i = j

OneOwner ==
  /\ NoDuplicates(queued_bufs)
  /\ ~In(active, queued_bufs) /\ ~In(irqDone, queued_bufs)
  /\ active # NoBuf => active # irqDone
  /\ \A b \in Buffers :
       owner[b] = "driver" <=> b = active \/ b = irqDone \/ In(b, queued_bufs)
  /\ NoDuplicates(vqueue)
  /\ \A b \in Buffers : owner[b] = "queued" <=> In(b, vqueue)

\* So is a buffer that waits for DQBUF.
OneDelivery ==
  pc # "sp_cancel" =>
    /\ \A i, j \in DOMAIN doneList : doneList[i].buf = doneList[j].buf => i = j
    /\ \A b \in Buffers :
         owner[b] = "done" <=> \E i \in DOMAIN doneList : doneList[i].buf = b

\* videobuf2 asks that stop_streaming gives every buffer back, and that nothing
\* goes on behind it: the decoder and its interrupt are off.
StoppedIsQuiet ==
  pc = "sp_cancel" \/ (pc = "idle" /\ ~started) =>
    /\ \A b \in Buffers : owner[b] # "driver"
    /\ active = NoBuf /\ queued_bufs = <<>>
    /\ ~captureEn /\ ~intEnable /\ irqPc = "none"

\* A stream does not stall: between two calls a buffer is captured into, with the
\* interrupt on, whenever the driver has one.
StreamIsAlive ==
  streaming /\ pc = "idle" /\ irqPc = "none" =>
    /\ active = NoBuf => queued_bufs = <<>>
    /\ active # NoBuf => captureEn /\ intEnable /\ addr = active

\* start_streaming always finds a buffer: min_buffers_needed keeps it from -EIO.
StartFindsBuffer == pc = "st_lock" => queued_bufs # <<>> /\ active = NoBuf

\* Every buffer that DQBUF can return holds a frame captured since its QBUF, unless
\* a frame completed while the handler ran: its interrupt, for a buffer that is
\* swapped out already, is taken for one of the next buffer.
FramesAreFresh == \A i \in DOMAIN doneList : filled[doneList[i].buf] \/ overrun

\* The frames a client fetches are numbered without a gap.
SequenceHasNoGap ==
  \A i \in 1 .. Len(doneList) - 1 :
    doneList[i + 1].seq = (doneList[i].seq + 1) % SeqMod

\* Every buffer the driver has is given back, filled or by STREAMOFF.
BuffersComeBack ==
  \A b \in Buffers : owner[b] = "driver" ~> owner[b] # "driver"

\* To the client the driver is a queue: buffers come back filled in the order of
\* their QBUFs.
AsSeq(b) == IF b = NoBuf THEN <<>> ELSE <<b>>
Pending == IF pc = "sp_cancel" THEN <<>>
           ELSE vqueue \o AsSeq(irqDone) \o AsSeq(active) \o queued_bufs
Ready == IF pc = "sp_cancel" THEN <<>> ELSE [i \in DOMAIN doneList |-> doneList[i].buf]

Device == INSTANCE CaptureQueue WITH pending <- Pending, ready <- Ready

ImplementsQueue == Device!Spec

-----------------------------------------------------------------------------
(***************************************************************************)
(* The inductive invariant: at each step of start and stop, what registers *)
(* and lists hold.  Live is the state a running stream returns to, Quiet   *)
(* the one a stopped stream has.                                           *)
(***************************************************************************)
Quiet == /\ active = NoBuf /\ queued_bufs = <<>>
         /\ ~captureEn /\ ~intEnable /\ ~streaming /\ irqPc = "none"

Live == /\ intEnable
        /\ active = NoBuf => queued_bufs = <<>>
        /\ active # NoBuf => captureEn

StartAgrees ==
  /\ pc \in StartSteps => started /\ irqPc = "none" /\ ~captureEn /\ doneList = <<>>
  /\ pc = "st_lock" => active = NoBuf /\ queued_bufs # <<>>
  /\ pc \in StartSteps \ {"st_lock"} => active # NoBuf /\ streaming
  /\ pc \in StartSteps \ {"st_capture"} => ~intEnable
  /\ pc \in {"st_program", "st_enable", "st_capture"} => ~intStatus
  /\ pc \in {"st_enable", "st_capture"} => addr = active
  /\ pc = "st_capture" => intEnable

StopAgrees ==
  /\ pc \in StopSteps \ {"sp_cancel"} => started
  /\ pc \in {"sp_capture", "sp_clear", "sp_return"} => ~intEnable /\ irqPc = "none"
  /\ pc \in {"sp_clear", "sp_return"} => ~captureEn
  /\ pc \in StopSteps \ {"sp_flag"} => ~streaming
  /\ pc = "sp_cancel" => Quiet

StreamAgrees ==
  /\ started => vbStreaming /\ vqueue = <<>>
  /\ ~started => Quiet /\ doneList = <<>>
  /\ started /\ pc \in {"idle", "sp_flag"} => streaming
  /\ started /\ pc \in {"idle", "sp_flag", "sp_disable"} => Live
  /\ captureEn => active # NoBuf /\ addr = active
  /\ irqDone # NoBuf => irqPc = "done"

SequenceAgrees ==
  doneList # <<>> => sequence = (doneList[Len(doneList)].seq + 1) % SeqMod

IInv == /\ TypeOK /\ OneOwner /\ OneDelivery
        /\ StartAgrees /\ StopAgrees /\ StreamAgrees
        /\ SequenceHasNoGap /\ SequenceAgrees

\* What FramesAreFresh needs besides.  A stopped or starting stream has no
\* interrupt pending; without overrun a pending one is for the active buffer, and
\* what the handler is about to give back is filled.
StatusAgrees ==
  ~started \/ pc \in StartSteps \cup {"sp_return", "sp_cancel"} => ~intStatus

FilledAgrees ==
  \/ overrun
  \/ /\ FramesAreFresh
     /\ intStatus => irqPc = "none" /\ active # NoBuf /\ filled[active]
     /\ irqPc = "swap" => active # NoBuf /\ filled[active]
     /\ irqDone # NoBuf => filled[irqDone]

FreshInv == IInv /\ StatusAgrees /\ FilledAgrees
=============================================================================
