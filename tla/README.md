# A TLA+ model of the LicheePi Nano media stack

This directory models the parts of the repository that carry its own logic on
the Allwinner F1C100s/F1C200s: the video decoder library `libcedarc` with its
OpenMAX components omx_vdec and omx_venc, the driver of the video engine, and the TVD capture
driver. The other large directories are upstream programs, kernel
and board configuration, which are left alone. All paths below are relative to
`src/`.

## Inventory

| component | state | operations | what is hard |
|---|---|---|---|
| stream buffer manager, `SoftWare/libcedarc/vdecoder/sbm/sbmStream.c` | a cyclic byte buffer, a cyclic array of 2048 frame descriptors, three positions and three counts | request room, add, request, return and flush a frame, reset | two threads; the bytes are copied and decoded outside the mutex; everything wraps; `abort()` on a wrong order |
| stream submission, `SoftWare/libcedarc/vdecoder/vdecoder.c` | `partialStreamDataInfo`, the frame being gathered | request room for a part, submit a part, reset | it keeps a second idea of the write position; two adds in one call; results ignored |
| frame buffer manager, `SoftWare/libcedarc/vdecoder/fbm.c` | three queues, five flags and several counts per frame | request, return, share, take, return a picture, flush, release buffers for a new display | a shared frame has two holders; the release has three locked parts and marks frames that others hold |
| TVD driver, `tvd_f1c100s_linux57/src/suniv_f1c100s_tvd.c` | a list of queued buffers, the active one, registers | videobuf2's buffer queue, start and stop, the frame interrupt | the interrupt preempts every ioctl; the hardware preempts the interrupt |
| TVD preview client, `tvd_f1c100s_linux57/tools/fb_preview` | four mapped buffers | the streaming loop | the client side of the driver |
| Cedar engine driver, `SoftWare/cedar_f1c200s_linux57/ve/cedar_ve.c` | reference count, interrupt flags, five hardware locks, IOMMU list | ioctls, interrupt, suspend | lost and stale interrupts, processes that die holding things |
| omx_vdec, `SoftWare/libcedarc/openmax/vdec/src/omx_vdec.c`, `omx_vdec_aw_decoder_linux.c` | component state, a message thread and three workers, flags between them | OMX commands; submit, decode and drain | threads park each other; flags without a mutex; waits without a timeout |
| its worker threads, `openmax/vdec/looper/omx_thread.c`, `omx_sem.c` | four flags, three semaphores, a mutex | run, suspend, resume, exit and wait | the worker reads the flags without the mutex; a post may be swallowed |
| its ports, `openmax/vdec/src/omx_vdec_port.c` | a ring of buffer headers per port | populate, free, give, take, put back, flush | client, message thread and worker each hold headers |
| omx_venc, `openmax/venc/omx_venc.c`, `omx_tsem.c` | component state, two lists of headers, a header or frame in hand, two threads | OMX commands; copy a frame in, carry bitstream out; open, encode, close | the main thread waits for the encoding thread and does not serve it meanwhile; end of stream |
| frame-based managers, `sbm/sbmFrameBase.c` and the H.264/H.265 splitters | detected frames, a splitter thread | as the stream manager, plus the splitter | a third thread between filler and decoder |
| message queue, `libcedarc/base/CdcMessageQueue.c` | a list of nodes under a mutex, a semaphore outside it | post, get, try, wait, flush | mutex and semaphore are not changed together |
| ion client, `libcedarc/memory` | a list of allocations under a mutex | open, close, allocate, free | reference counts, failures half way |
| key bridge, `board_tools_f1c200s/uinput_tty_keyd.c` and `S50uinput-keyd` | terminal mode, keys held, pid file | bytes to key events; start, stop, restart | timeouts, signals before a blocking read, stale pid files |

How they interact: a client of omx_vdec sends commands and gives buffer headers;
both become messages, and the message thread takes them from the message queue
one by one. It puts headers into the rings of the two ports, and carries out
commands by parking and resuming the workers. The submit thread takes input
headers and copies their bytes through `vdecoder.c` into the stream buffer
manager; the decode thread takes frames from there, drives the video engine
through `cedar_ve.c`, and puts pictures into the frame buffer manager, whence
the drain thread takes them, copies them into output headers and gives these
back. When the decoder sees another resolution it calls back, from the decode
thread, and that thread then waits for the drain thread and parks it. omx_venc has
two threads: the main thread takes the client's messages, copies frames into the
encoder and its bitstream into output headers, and gives the encoding thread
commands on a second message queue, waiting for each answer. The TVD driver
stands alone behind V4L2.

Properties that make each correct:
- stream buffer manager: nobody writes over bytes that are queued or being
  decoded; frames come in order, once each; room granted is room to add; no abort;
- submission: the gathered frame is where the manager will believe it is; frames
  are lost for a known reason only; a filler is not refused for ever;
- frame buffer manager: a frame has one fate at a time, is given out only when
  nobody uses it, is never lost, is shown once and in order; old buffers leave;
- TVD: DMA only into buffers the driver owns; every buffer comes back once, in
  order; STREAMOFF leaves nothing running; a stream does not stall;
- Cedar engine: a wait is told of its job's interrupt and of no other; the clock
  is on exactly while someone is counted; locks of a dead process come free;
- worker thread: it is not in its loop function while it is suspended; nobody hangs;
- message queue: messages come in order, once each, and none waits uncounted;
- ports: each header is in one place and comes back, in order, but for two named
  ways to lose one;
- omx_vdec: nobody works on a decoder that is reset, a picture fits the header it
  is copied to, none is lost at a change of resolution, a command concludes;
- omx_venc: a header has one owner; the encoder is closed at rest and the header
  that says end of stream is the last; the main thread's waits end.

`PROJECT.json` lists the hazards at their lines, with the properties that guard
each, or the reason why none does yet.

## Modules

| module | models | checked by |
|---|---|---|
| `FrameFifo` | abstract: a queue of frames with a cursor | |
| `SbmStream` | sbmStream.c; implements `FrameFifo` | `MCSbmStream` |
| `SbmStreamProofs` | the theorems about `SbmStream` and `StreamSubmit` | tlapm |
| `StreamSubmit` | the submission part of vdecoder.c, on top of `SbmStream` | `MCStreamSubmit`, `MCOrphanPart.cfg` |
| `FrameUsers` | abstract: who uses each frame, what waits for display | |
| `Fbm` | fbm.c; implements `FrameUsers` | `MCFbmShared.cfg` |
| `FbmProofs` | the theorems about `Fbm` | tlapm |
| `CaptureQueue` | abstract: buffers come back filled, in order | |
| `TvdCapture` | the TVD driver with videobuf2 and the hardware; implements `CaptureQueue` | `MCTvdCapture` |
| `TvdCaptureProofs` | the theorems about `TvdCapture` | tlapm |
| `PausableThread` | abstract: a loop function that others pause | |
| `OmxThread` | omx_thread.c on omx_sem.c; implements `PausableThread` | `MCOmxThread.cfg` |
| `OmxThreadProofs` | the theorems about `OmxThread` and `OmxVdec` | tlapm |
| `BoundedFifo` | abstract: a bounded queue that may be emptied | |
| `CdcMessageQueue` | CdcMessageQueue.c; implements `BoundedFifo` | `MCMessageQueue.cfg` |
| `CdcMessageQueueProofs` | the theorems about `CdcMessageQueue` | tlapm |
| `HeaderQueue` | abstract: headers worked on in order, or all given back | |
| `OmxPort` | the ring of omx_vdec_port.c with client, messages and worker; implements `HeaderQueue` | `MCOmxPort.cfg` |
| `OmxPortProofs` | the theorems about `OmxPort` | tlapm |
| `OmxVdec` | the four threads of omx_vdec, each worker a `PausableThread` | `MCOmxVdec`, `MCVdecStuck.cfg` |
| `OmxVenc` | the two threads of omx_venc, client and encoder | `MCOmxVenc` |
| `OmxVencProofs` | the theorems about `OmxVenc` | tlapm |
| `CedarVe` | cedar_ve.c and the processes that use it | `MCCedarVe.cfg` |
| `CedarVeProofs` | the theorems about `CedarVe` | tlapm |

Operators named as mutants in a comment are deliberate bugs; the models do not
use them. They show that each property can fail: with one of them in place of
the definition it mutates, the model checker finds the property violated.

### SbmStream

Addresses are numbers `0 .. Size - 1`; a frame descriptor is its address, its
length and a time stamp that tells frames apart. Each function holds the
manager's mutex from end to end and is one action. What happens outside the
mutex is kept in two variables: `grant`, the bytes that `RequestBuffer` told the
filling thread it may write, and `held`, the slots the decoder requested and has
not given back. A request that is refused changes nothing and is no action. The
decoder returns the last frame it took or flushes the oldest: this is the order
the manager asserts, and `NeverAborts` shows its positions never contradict it.
`off` is a history variable for the proofs: how far each queued frame begins
from the oldest unflushed byte.

`Reset` empties the manager after the engine was reset, when the decoder holds
nothing. The filling thread cannot be copying then: omx_vdec holds one mutex for
submit and for flush. Its grant is dropped.

### StreamSubmit

`SubmitVideoStreamData` can add two frames: an incomplete earlier one when a
first part comes, and the complete one. The decoding thread may run in between,
so they are `SubmitPart` and `CompleteFrame`. Parts are free: whether a part is
the first or the last is an input, as for MJPEG it is computed from the data.
`OrphanParts = FALSE` excludes a part that is not first while nothing is
gathered, which every codec but MJPEG guarantees.

**Finding** (run `orphan`): with `OrphanParts = TRUE` the orphan's length is
added to a frame without address. The next first part is placed after it, the
orphan itself is refused by the manager, and the write address lags behind the
new frame, whose last bytes are granted again before it is flushed.

### Fbm

A flag is the set of frames that have it, the three queues are one function. The
three users are the decoder (`decHas`, `shared`), the renderer (`renHas`) and
the allocator (`released`, the frames with FRM_RELEASE_TAG). `FbmShareBuffer` is
two actions because it reads `bNeedRelease` before it locks;
`FbmSetNewDispRelease` is three because it locks three times. The error exits
are in the model: a frame that fails the flag test has been taken out of its
queue and is lost, and `FlagsAgree` shows that this does not happen. `BooksAgree`
is the conjunction of the type invariant with what relates flags, queues and
counts: an empty frame has no flag set (`EmptyIsClear`), a flag says where the
frame is (`FlagsAgree`), a count is the size of what it counts (`CountersAgree`).

Left out: `nDecoderHoldingNum` and `nWaitForDispNum`, which only the status dump
reads; two streams in one manager; the forbid tag, which no client passes;
addresses, by which `FbmReturnPicture` finds the frame (they are distinct).

Assumed of the decoder, which is a binary library: it shares a frame at most
once between request and return. `Quiesced = TRUE` is what omx_vdec does: it
parks its threads and resets the engine before the display changes; it is the
value the run has. With `CanShare = TRUE` and `Quiesced = FALSE`, which no client
in the repository does, `EmptyIsClear` would not hold: a shared frame that the decoder returns
while the renderer has it goes to the release queue (fbm.c:629) and comes back
with `bUsedByRender` set.

`EmptyFrameComes` excepts one case, `Stranded`: a frame whose buffer is set
between the three parts of `FbmSetNewDispRelease` is moved to the release queue
without its mark, and `FbmReturnReleasePicture` never finds it.

### TvdCapture

videobuf2 is modelled from how the driver uses it: who owns each buffer, the list
that waits for `start_streaming`, the done list. `tvd->lock` makes the ioctls one
thread, whose place is `pc`; start and stop are one action per register write or
locked block. The handler is three actions, `irqPc`: acknowledge, swap under
qlock, give back. On the F1C100s' one core the handler preempts the thread
between any two steps and then runs to its end, so thread actions need
`irqPc = "none"`. `HwFrame`, the end of a frame, may come at any moment while
capture is on, also inside the handler.

`FramesAreFresh` has one exception, the history variable `overrun`: a frame that
ends while the handler runs, after the acknowledge, raises a second interrupt for
a buffer that is about to be swapped in, which is then given back without a frame
of its own. On hardware whose frames are longer than the handler it stays FALSE.

### OmxThread

The worker's `loopEntryWrapper` reads `bSuspendRequest`, `bExitPending` and
`bRepeatToReady` without the mutex, so every access to a flag or a semaphore is
a step. `suspend` and `requestExitAndWait` wait for the worker while they hold
the mutex (`lock`); the worker never takes it. `TryPost` drops a post when the
value is not 0: the code relies on there being one waiter per semaphore
(omx_sem.c:105), and `NoPostIsSwallowed` shows that no post is ever dropped.

One caller, the owner, runs the thread and makes it exit; the others only
suspend and resume it. That is how omx_vdec uses it: the message thread owns the
three workers, and the decode thread suspends and resumes the drain thread.
Left out: `requestExit`, which nobody calls, and `OmxDestroyThread`. The owner
does not make a thread exit that never ran (omx_thread.c:294 would join it).

### CdcMessageQueue

The mutex is held over one step by each operation but the flush, which drains
the semaphore one count at a time while it holds it (`mutex`). Counts that a
thread has taken or still owes are its place, `at`. `PostMessage` takes any node
that is not valid, the code the first one; which one it is shows nowhere. A wait
that times out changes nothing and is no action, and neither is a post refused
at `nMaxMessageNum`: the queue says so, but `postMessage` of omx_vdec does not
look at the result (omx_vdec.c:353).

### OmxPort

The ring is the code's, with its positions; `posted`, `held` and `hand` are where
else a header may be: in a message, with the client, with the worker. `isInput`
is free: on the input port the worker may put a header back (`returnPortBuffer`,
when the stream buffer is full), on the output port the drain thread may run
during a flush. The client follows the OMX rules: it gives and frees only headers
it holds, and frees those of a populated port. One that frees a half populated
port would be handed the same header twice, as the header handed out is the one
at `nAllocSize` (omx_vdec_port.c:414).

`Flush` is the flush command, which parks the submit thread first
(omx_vdec.c:746-760); that it is parked then is `EngineResetsAtRest`, proved of
`OmxVdec`. Two other flushes of the input ring find it at work: PortDisable, which
parks only the drain thread (`Close`, omx_vdec.c:434 with 761-766), and Pause to
Executing (`PauseToExecuting`, omx_vdec.c:678). A header it then puts back lands in
a ring that starts at 0 again: the ring counts one header more, at a position that
holds none or another. `flushed` says that the ring was flushed since the worker
took its header, `strayed` that a header was put back after such a flush. And
`__liDrain` drops the header it took when `RequestPicture` then has no picture
(`DropHeader`, omx_vdec_aw_decoder_linux.c:690-704): `lost` are those headers. No
line of the repository speaks of either case, so they are named in the properties:
up to the first stray header, each header is in one place, a dropped one in `lost`
and never again elsewhere, and the ring is a queue. The ring has room for a header
that is put back in any case, even then.

`working` stands for what makes a worker look for headers: the component executes,
both ports are enabled, there are pictures. It changes at any time (`Halt`, `GoOn`),
but a worker with a header in hand goes on with it.

### OmxVdec

A command of the client is carried out as a list of operations, `todo`, in the
order of the code: `FlushProgram` parks the drain, decode and submit threads,
flushes, and resumes them the other way round. Each operation on a worker is one
of `PausableThread`, which `OmxThread` implements; whoever parks a worker holds
its mutex meanwhile (`Locked`). `SendCommand` waits for an empty `todo`: a command
sent earlier waits in the message queue, which the next step would find the same.

`loop` is where each worker is in its loop function. The decode thread's part is
its callback at a change of resolution (omx_vdec.c:855-869): count the pictures,
ask the drain thread to deliver them, await it without a timeout, park it, open
the engine again, resume it. The drain thread's part is `__liDrain` and the flags
after it. Loop calls that find the component not ready, and timed waits, only
delay. The client may close and reopen the output port at any moment;
`MsgNotPopulated` is the timeout of the wait for its headers.

`ChangeIsClean` has two parts, `PicturesFit` and `LostOnlyIfMiscounted`. Their
exceptions are named by history variables, each for one cause:
- `changeLost`: `RESTART_PORT` clears `bResolutionChangeFlag` after it has
  resumed the drain thread (omx_vdec.c:772). A change seen in between is wiped out,
  and pictures of the new size are copied to headers made for the old. The same
  happens when the wait for the client's headers ran out. It is true after that step
  as long as the headers are not of the size the port says.
- `miscounted`: the count of pictures to deliver is taken while the drain thread
  is between taking a picture and counting it, or the drain thread counts a call
  that delivered none because the client had given no header.

`EngineIsQuiet` leaves the drain thread out: the end of a reopen resumes it
(omx_vdec.c:867) also when the message thread has parked it for a flush or a
close, and it then runs during that. This is what the code does: `__liClose`
(omx_vdec_aw_decoder_linux.c:782) unlocks `awMutexHandler` where it should lock it,
so nothing but parking protects the decoder's destruction from it.

**Finding** (run `vdec_stuck`): a flush that meets a change of resolution need
not conclude. The flush parks the drain thread first, then waits for the decode
thread, which waits for the drain thread. `Stuck` names all ways: the drain thread
was parked by a flush or by the way to Idle; it has exited, when a component
that quits meets a second change; or it stands still because a further change set
`bResolutionChangeFlag`, which only RESTART_PORT clears, a message that the message
thread can not take. `CommandsConclude` of run `vdec` shows there is no other, and
theorem `HangsForGood` that none of them ends.

Init, Next, Spec and vars of this module are `VdecInit`, `VdecNext`, `VdecSpec` and
`vdecVars`, because `OmxThreadProofs` extends it together with `OmxThread`.

### OmxVenc

The component from its first transition to Executing on. One round of
`ComponentThread` is a message or none, then, if the encoder is open and the
component executes, four steps: the end of the stream, the input, the buffer
taken back, the output; `mpc` is its place. `vpc` is the place of the encoding
thread. `PostAndWait` is `post_message_to_venc_and_wait`, each wait a place of its
own in `mpc`. Both ports are stopped, restarted and flushed together; their waits
for the client's buffers end in success or by their timeout, which the model need
not tell apart. The lists are sequences: a populated port has as many headers as
its array, and then the positions of omx_venc.c:2570, 2609 and 2658 wrap alike.

The encoder is a binary library: a number of frames to encode, of buffers encoded
and not taken back, and of bitstream frames. It may refuse a buffer. Frames are
copied into its buffers (`m_useAllocInputBuffer`), the path of every build but
Android's. An output header carries a bitstream frame, or SPS and PPS while the
frame waits for the next one (omx_venc.c:4135-4165); which of the two is said by a
count that the model leaves out, so that either may happen.

An open may fail in four places, and `m_encoder` says where it stands. Without an
encoder from `VideoEncCreate` or after a failed `VideoEncInit` it is NULL (`"none"`).
Without SPS and PPS (omx_venc.c:3245-3252) or without buffers (3273-3281) the
encoder is destroyed, and the pointer stays (`"dead"`): both threads go on calling
the encoder, and an Open finds it open. What these calls do is undefined. The model
lets each answer anything (`Answers`), and takes it that the process lives on, also
where Close destroys the encoder a second time. RESTART_PORT opens in two
steps, as the encoding thread finds the pointer set at 3119, before `VideoEncInit` at
3223 (`"opening"`); in an Open of the encoding thread itself the main thread waits.

`Stuck` names the waits that never end. `Enc_Idle` is answered by a call of
`VideoEncodeOneFrame` that finds no frame. There is none when a component in Pause
is sent to Idle, when an open left no encoder, or when its bitstream is full,
which only the waiting thread would empty. A destroyed encoder may or may not find
a frame: that wait is `AsksDestroyed`, and nothing is said of its end. `WaitsEnd`
shows that all other waits end, `HangsForGood` that those of `Stuck` do not.
`stepKept` and the exception of
`NothingIsCutOff` are two more places where the code does not do what one would
wish: the way to Idle gives back the header in hand and leaves the step that says
it is in hand (omx_venc.c:3403), and RESTART_PORT closes the encoder from the main
thread (omx_venc.c:3699). No line of the repository promises otherwise, so they
are exceptions of properties and not findings.

### CedarVe

A process is a file: it uses it from one thread, and `Release` is its close or
its death, at any point outside a call. DE, EN and JPEG are one algorithm on
three sets of variables, modelled once. The interrupt handler writes value and
flag in two unlocked steps, and the wait accesses them in four, `WAIT_VE_DE`
clearing the value before it takes the lock. Suspend comes when every process is
frozen outside a call.

`AnswersAreTrue` has two parts, one for each answer. Two kinds of wrong answers
remain and are named: `crossed`, a value cleared
between the handler's two writes, which needs a second core (the F1C100s has one);
and `given_up`, a flag left by an interrupt nobody waited for any more, or set by
`cedardev_release`, which the driver never takes back. A process that dies between
ENGINE_REQ and ENGINE_REL leaves its count: `ClockServesUsers` therefore says at
least, not equal, and the clock then stays on.

## Runs

| run | bounds | shows |
|---|---|---|
| `sbm` | 4 bytes, 3 slots, frames of 0, 1 and 2 bytes, margin 1, 2 time stamps | safety of the manager, refinement of the FIFO |
| `submit` | 4 bytes, 2 slots, parts of 0 to 2 bytes, one time stamp | bytes have one use, the two views of the write position agree, losses only for want of a slot, room comes back |
| `orphan` | the same, with orphan parts | the first finding |
| `fbm_shared` | 3 frames, sharing, both kinds of buffers | safety, starvation freedom and refinement of the frame manager |
| `tvd` | 3 buffers, 2 to start, sequence modulo 4 | safety, liveness and refinement of the driver; buffers given back are fresh |
| `thread` | one worker, its owner and two helpers | no post swallowed, nobody hangs, refinement of the pausable thread |
| `queue` | 3 threads, 2 nodes, 2 messages | no message without a count, all leave, refinement of the bounded FIFO |
| `port` | 3 headers, either port, flushes with the worker parked and at work | one owner per header, put-back is safe, headers come back, refinement of the header queue, but for stray and dropped headers |
| `vdec` | two frames of two sizes, 1 picture, 1 header, any 2 commands | quiet engine, pictures fit, losses and hangs only as named, workers are pausable threads |
| `vdec_stuck` | the same stream, one flush | the second finding |
| `ve` | 2 processes, 2 locks, 3 opens | answers are true but as named, clock, locks of the dead |
| `venc` | 1 header per port, 1 buffer of the encoder, room for 1 bitstream frame, any 2 commands | one owner per header, nothing is cut off, waits end but as named |

Why the bounds are enough. `sbm`: every wrap of buffer and array occurs, alone and
together, both fill up until a request is refused, frames of no bytes exist, and the margin (64 bytes in
the code) is felt; the theorems then cover every size. `submit`: two slots are
what the second add of one call needs to be refused. `fbm_shared`: three frames are one
per user with nothing left over; the
theorems cover any number. `tvd`: with two buffers to
start, a third can be in the client's hands, waiting or queued; the sequence
number wraps after four frames instead of 2^32. `thread`: the owner, the decode
thread and one more compete for one mutex; the theorems cover any number. `queue`:
a poster, a receiver and a flush at once, and a queue that is full with two.
`port`: a header in the ring, one in a message and one in the worker's hand, and a
ring that wraps in between. `vdec`: one change of resolution, one picture
to deliver and one header to deliver it in; a second command may come in each
state the first left. With three commands `START` can un-park a drain thread that
the decode thread parked (`run` resumes a parked thread); one header and one
picture make every wait of the drain thread happen. `ve`: one process that works
and one that interferes or dies; with three opens one of them comes back. `venc`:
with one of everything, every buffer is full as soon as one frame is in it, so each
retry, refusal and hang occurs; two commands make a stream, an Idle or a Pause and
a stream again. The theorems cover any numbers.

Runs check for deadlock too, but for three where the system may stop: a
component that has quit or hangs as `Stuck` says (`vdec`, `vdec_stuck`), and
processes that have all been closed for the last time (`ve`).

## Fairness

- `StreamSubmit`: a submission that began completes (weak); the decoding thread
  keeps requesting frames (weak) and decodes one now and then although it may
  give frames back for want of a picture (strong, as returning disables it again
  and again). Nothing forces the filler.
- `Fbm`: started calls go on, the renderer draws and returns, the allocator
  replaces (weak); the decoder returns each frame in the end (strong, as its own
  sharing interrupts it). Requests, flushes and display changes are not forced.
- `TvdCapture`: start, stop and the handler go on, and the decoder ends frames
  while capture is on (weak). No client call is forced.
- `OmxThread`: the worker is scheduled and its loop function returns, a method
  that has begun goes on (weak); a mutex that is free again and again is got
  (strong). Nobody is forced to call.
- `CdcMessageQueue`: a call that has begun goes on (weak, strong where it needs
  the mutex), and some thread takes a count when there is one again and again
  (strong): the message thread of omx_vdec does nothing else. No post, wait or
  flush is forced.
- `OmxPort`: the message thread is scheduled (weak). The worker polls every few
  milliseconds, so it takes a header if it works again and again (strong); and a
  header that is taken and put back again and again is given to the client at last
  (strong: room comes back, as `submit` shows). That the worker works is not
  assumed: `HeadersComeBack` speaks of ports where it does again and again. The
  client is not forced.
- `OmxVdec`: every thread is scheduled (weak), gets a mutex that is free again and
  again (strong); a component that is executing gets input. Commands and output
  headers are not forced.
- `OmxVenc`: both threads are scheduled (weak). Nothing is expected of the client
  or of the encoder, whose open may fail each time, in each of its ways.
- `CedarVe`: a call goes on (weak), a mutex that is free again and again is got
  (strong), a holder gives its lock back or is closed in the end, and suspend is
  followed by resume. No job need finish: a wait may time out.

## What is proved

`SbmStreamProofs`, for every `Size`, `MaxFrames`, `Margin`, set of lengths and
set of time stamps, under `SbmAssumption` alone. The inductive invariant `IInv`
says that the read, write and flush positions are the counts apart and that
`held` is what lies between flush and read position (`PositionsAgree`), and that
the queued frames follow one another in the byte buffer from the oldest
unflushed byte to the write address (`Contiguous`). The second is what the code
never writes down and everything depends on: with it, disjointness of frames and
of the grant is arithmetic on distances less than `Size`. From `IInv` follow
`TypeCorrect`, `NoAbort`, `GrantsHonoured`, `GrantsFree`,
`QueuedFramesDisjoint`, and `Refinement`: every step is a step of `FrameFifo` or
leaves its variables unchanged.

The same module proves `StreamSubmit` on top of it, for any such constants and any
sequence of parts, under the hypothesis `~OrphanParts`, without which the first
finding refutes it. `SInv` adds to `IInv` that the gathered frame begins at the
manager's write address (`PartialIsNext`); that its bytes fit into the room left,
that one without an address has no bytes, which is where `~OrphanParts` enters, and
that nothing is granted between the two adds (`PartialFits`). An add can then be
refused for want of a slot only, and both views of the write position move together.
From it `OneUsePerByte`,
`PartialFrameIsNext`, `FramesLostOnlyWhenFull`, and `SubmitIsFifo`, the refinement of
`FrameFifo` by the front end, between whose two adds the decoder may run.

`TvdCaptureProofs`, for every set of `Buffers`, `MinBuffers` and `SeqMod`,
under `TvdAssumption` alone. Its `IInv` adds to the
safety properties what holds at each step of start (`StartAgrees`) and stop
(`StopAgrees`) and while a stream runs (`StreamAgrees`): that the address register
is the active buffer's whenever capture is on, that the interrupt is enabled only
where the handler finds the lists consistent, that capture is on exactly while
there is an active buffer, and that a driver that is not started is `Quiet`.
Without these the safety properties are not inductive: a handler that ran in the
middle of start, say, would swap buffers not programmed yet. From it follow
`DmaStaysInOwned`, `BuffersHaveOneOwner`, `StopIsQuiet`, `StreamStaysAlive`,
`StartHasBuffer`, `NumbersHaveNoGap`, and `DriverIsQueue`: the refinement of
`CaptureQueue`, by laying the lists of videobuf2 and driver end to end (`Line`).
`DeliveredFramesAreFresh` needs `FreshInv`: an interrupt that is pending, unless one
was overrun, is of the active buffer, which is filled, and from the handler's swap to
its end the buffer it is about to give back is filled; a driver that stops or starts
has none pending (`StatusAgrees`), or the next stream's first buffer would go back
with it, empty.

`FbmProofs`, for any number of frames, with sharing or without, assuming `Quiesced`
in the theorems: the decoder is reset and kept out while the display changes, as
omx_vdec does it. The invariant says that each frame that has a buffer is in one
queue or in use (`OnePlace`), that the decoder has in common with the display only
what it shared (`SharesAgree`), and which frames may carry the mark of a new display
in each of the three parts of `FbmSetNewDispRelease` (`MarksAgree`). Lemmas say what
each way to change the queues does to the sets of frames in them: so the loops of the
flush and of the release stop at no frame before the end. Hence `BooksAlwaysAgree`,
`FramesNotLost`, `OldBuffersAreGone`, and `Refinement` of `FrameUsers`.

`OmxThreadProofs`, for any set of `Callers`. The invariant is built from the
places of the worker and of the one caller that may hold the mutex: a semaphore
is up only between its post and the wait it is meant for, `bSuspendRequest` is
set exactly from `suspend` to `resume`, and a thread that has not been created or
has been joined has no semaphore up. Hence `PostsGoOut`, and `Refinement`: the
worker is not in its loop function while the thread is suspended, which is all
`OmxVdec` uses.

Its second part is about `OmxVdec`, for any stream, number of pictures and headers,
and any commands. `VInv` says of the message thread's program that only its first
operation has begun and has its worker in the state it made (`OneUnderWay`), and
that nothing but parking comes before an operation on the decoder, whose two threads
are parked already or are still on the list (`ParkComesFirst`): this, of the part of
the program not yet carried out, is what makes `EngineIsQuiet` inductive. Of the
change of resolution it says that from the count to the reopening of the engine
there are at most as many pictures as are still counted, one of them perhaps taken
and not counted yet (`PicturesCounted`, which a quitting component breaks on
purpose), and that headers of the wrong size are there only while the drain thread is
kept away from them (`ChangeIsSeen`). Hence `EngineResetsAtRest` and
`ResolutionChangeIsClean`. `WorkersAreThreads` is the refinement of `PausableThread`
by each worker, with two threads that park the drain thread: it needs of `VInv` that
not both wait for it at once (`ParkedAreOut`). `HangsForGood` says that `Stuck` is
closed under every step. The proof corrected the model: as it stood, `changeLost` was
not set when the wait for headers had run out, and `ChangeIsClean` did not hold on
streams longer than the run's.

`CdcMessageQueueProofs`, for any finite `Threads` and `Nodes` and any `Messages`.
The invariant joins `NodesAgree`, that list and array say the same, with the
count of a flush: threads between mutex and semaphore are counted by a
cardinality, which changes by one with each step. Hence `NeverStranded`,
`ListAndArrayAgree`, `PostFindsNode` (a post that passes the test of `nCount` finds
a node), and `Refinement` of `BoundedFifo`.

`OmxPortProofs`, for any number of headers, under `PortAssumption` alone and with
every flush the code makes. The invariant has two parts. `Counted` holds in every
state: types; that ring, messages, client and worker together have no more headers than
were handed out, so that a put-back always finds room (`Tokens`); and when `flushed` and `strayed` can be set (`History`).
`InOrder` holds until a header strays: each header is in one place, write position,
read position and size of the ring agree, and the slot before the read position
still holds the header in hand unless the ring was flushed. Hence
`HeadersHaveOneOwner`, `PutBackIsSafe`, and `Refinement` of `HeaderQueue`.

`CedarVeProofs`, for any finite `Files` and any `Locks`: `ClockIsWithUsers`, from
an invariant that adds only that a suspended engine has no clock. Users are
counted by a cardinality, as files engage, relinquish and die. `WaitsAnswerTrue` needs
more, `AInv`: a lock has one holder (`LocksAgree`), so a file with a job has the unit
to itself (`JobsAreOwned`); the interrupt of a job that is done is on its way or noted
where the wait is yet to look, for each of the wait's steps (`InterruptIsNoted`); and
a flag or value that is up speaks of a job that is done (`NotesAreTrue`). `JobsAreAlone`
follows too: one job at a time, with the clock on.

`OmxVencProofs`, for any headers, sizes and commands: `NothingCutOff`. The
invariant behind it, `Handshake`, is that at most one question is open between the
threads: a command in the queue, `nWaitIdle`, or an answer in `m_msg_sem`, and only
while the main thread is at the matching wait; and that an answer to `Enc_Idle`
not yet taken means nothing is left to encode, as nobody adds a frame meanwhile.
It also gives `HangsForGood`: the encoding thread finds no command but the one that
hangs. `HeadersOwnedOnce` is by `HeaderInv`: for each header, client, hand, queue and
list hold it once altogether (`PlacedOnce`), and a header is in hand only while it
waits for a buffer of the encoder (`HandAgrees`), without which taking the next one
would forget it. None of these needs an open to succeed: an encoder that is not open
has no frames (`BuffersFit`), whatever its calls answer.

Some results are proved and not run again by the checker: `TypeOK` of each
module with proofs, `StopIsQuiet`, `StartHasBuffer`, `ListAndArrayAgree`.

Every invariant and every refinement that a run checks is also proved. Model-checked
only are the liveness properties, because the prover does not reason about fairness
and ENABLED: `RoomComesBack`, `EmptyFrameComes`, `BuffersComeBack`, `NobodyHangs`,
`MessagesLeave`, `HeadersComeBack`, `CommandsConclude`, `LockIsGiven` and `WaitsEnd`.
Two hypotheses on constants remain, and each leaves out something the code can do:
`~OrphanParts` the parts of the first finding, with which the theorems are false,
and `Quiesced` a change of the display with the decoder at work, which omx_vdec
excludes by parking its threads and another client need not.

## Not modelled

See `components` in `PROJECT.json` for the reason of each. Within the modelled
parts: the payload, cache flushes, debug dumps and logs; the TVD driver's
standard detection and format ioctls, device tree and removal; the latching of
addresses in the capture hardware, which the repository does not document; the
MJPEG scan for SOI and EOI, whose result is free in `StreamSubmit`; of omx_vdec
the states Loaded and WaitForResources, parameters, mark buffers and errors of the
engine; of the engine driver SET_REFCOUNT, ENABLE_VE, DISABLE_VE and RESET_VE,
frequency and voltage, the debug channel and the list of IOMMU buffers; of
omx_venc the states Loaded, WaitForResources and Invalid, STOP and DeInit,
parameters and the messages that change them while the encoder runs, a single
port, Android's buffers and errors of the encoder. The Android and FFmpeg decoders
behind omx_vdec are other clients of the same classes; omx_adec is not built
(`openmax/Makefile.am` builds omxcore, venc and vdec).

Most of the repository's lines are upstream programs, firmware images in C
arrays, and codec syntax; a model of them would not say anything about this board.

## Plan

1. `SbmFrame`: the frame-based manager with its splitter thread, as a second
   implementation of `FrameFifo`.
2. `OmxVdec` composed with `StreamSubmit` and `OmxPort`: the submit thread's
   put-back against a full stream buffer and a reset; `OmxVenc` with Loaded, STOP
   and DeInit.
3. `TvdCapture`: standards and formats; the preview client's loop over it.
4. `KeyBridge`: escape sequences with timeouts, keys held; the service script.
5. The ion client's list and reference count.
6. Proofs for what 1 to 5 add; of the present modules only liveness is not proved.
