------------------------------- MODULE OmxVdec -------------------------------
(***************************************************************************)
(* The threads of the video decoder component (openmax/vdec/src/omx_vdec.c  *)
(* with omx_vdec_aw_decoder_linux.c): the message thread, which carries out *)
(* the client's commands, and the submit, decode and drain threads, which   *)
(* it parks and resumes (OmxThread), and which work on the decoder and on   *)
(* the two ports.  The decode thread itself parks and resumes the drain     *)
(* thread, from a callback, around a change of resolution.                  *)
(*                                                                         *)
(* The input is a stream of frames of given sizes.  A call of the decoder   *)
(* library is one step, under the context's mutex (awMutexHandler); so is a *)
(* call of the port.  The timed waits of the loop functions only delay.     *)
(***************************************************************************)
EXTENDS Integers, Sequences

CONSTANTS
  Stream,        \* the sizes of the frames the client gives, in order
  MaxPictures,   \* pictures the frame buffer manager can hold for display
  MaxHeaders,    \* headers of the output port
  MaxCommands,   \* bound: commands the client sends
  Kinds          \* the commands it sends, of AllKinds

AllKinds == {"Flush", "Idle", "Execute", "Pause", "Disable", "Quit"}
Workers == {"submit", "decode", "drain"}

ASSUME VdecAssumption ==
  /\ Stream \in Seq(Nat) /\ Stream # <<>>
  /\ MaxPictures \in Nat \ {0} /\ MaxHeaders \in Nat \ {0} /\ MaxCommands \in Nat
  /\ Kinds \subseteq AllKinds

VARIABLES
  \* the message thread and what it is asked
  sent,          \* commands sent so far
  inbox,         \* messages not taken yet, oldest first
  todo,          \* what is left to do of the one it carries out
  \* the three worker threads: as PausableThread, and where in the loop function
  status, loop,
  \* the component
  m_state, enabled, bHadInitDecoderFlag,
  bResolutionChangeFlag, bVdrvNotifyEosFlag, bInputEosFlag,
  bFlushingPicFlag, nNeedToFlushPicNum, semFlushAllFrame,
  changeLost,    \* history: see ChangeIsClean
  \* the decoder and the output port
  submitted, decoded,   \* frames submitted and decoded
  vdecSize,             \* the size the decoder was opened for
  pictures,             \* sizes of the pictures waiting for display
  miscounted,           \* history: see ChangeIsClean
  portSize, headerSize, \* the size outDef says, the one the headers were made for
  headers               \* headers in the output port's ring

command   == <<sent, inbox, todo>>
threads   == <<status, loop>>
component == <<m_state, enabled, bHadInitDecoderFlag>>
eos       == <<bVdrvNotifyEosFlag, bInputEosFlag>>
flush     == <<bFlushingPicFlag, nNeedToFlushPicNum, semFlushAllFrame, miscounted>>
change    == <<bResolutionChangeFlag, changeLost, portSize, headerSize>>
decoder   == <<submitted, decoded, vdecSize, pictures>>
vdecVars  == <<command, threads, component, eos, flush, change, decoder, headers>>

(* Loaded to Idle to Executing is done, nothing runs yet. *)
VdecInit ==
  /\ sent = 0 /\ inbox = <<>> /\ todo = <<>>
  /\ status = [w \in Workers |-> "off"]
  /\ loop = [w \in Workers |-> "out"]
  /\ m_state = "Executing" /\ enabled = TRUE /\ bHadInitDecoderFlag = FALSE
  /\ bResolutionChangeFlag = FALSE /\ changeLost = FALSE
  /\ bVdrvNotifyEosFlag = FALSE /\ bInputEosFlag = FALSE
  /\ bFlushingPicFlag = FALSE /\ nNeedToFlushPicNum = 0 /\ semFlushAllFrame = 0
  /\ submitted = 0 /\ decoded = 0 /\ vdecSize = Stream[1] /\ pictures = <<>>
  /\ miscounted = FALSE
  /\ portSize = Stream[1] /\ headerSize = Stream[1]
  /\ headers = 0
-----------------------------------------------------------------------------
(* The message thread carries out a message as a list of operations. *)

ParkAll == << <<"park", "drain">>, <<"park", "decode">>, <<"park", "submit">> >>

\* Mutant: a flush does not park the decode thread.
FlushWithoutDecode ==
  << <<"park", "drain">>, <<"park", "submit">>, <<"flush", "decoder">>,
     <<"resume", "submit">>, <<"resume", "decode">>, <<"resume", "drain">> >>

FlushProgram ==
  ParkAll \o << <<"flush", "decoder">>, <<"resume", "submit">>, <<"resume", "decode">>,
                <<"resume", "drain">> >>

ToIdle == ParkAll \o << <<"close", "decoder">>, <<"settle", "Idle">> >>

StopPort == << <<"park", "drain">>, <<"stop", "port">>, <<"free", "port">> >>

RestartPort == << <<"populate", "port">>, <<"resume", "drain">>, <<"clear", "change">> >>

Start == << <<"run", "submit">>, <<"run", "decode">>, <<"run", "drain">> >>

Quit ==
  << <<"post", "flushed">>, <<"exit", "drain">>, <<"exit", "decode">>, <<"exit", "submit">>,
     <<"end", "thread">> >>

(* A transition the table does not have, or to the present state, is an     *)
(* error event and nothing else.                                            *)
Program(m) ==
  CASE m = "Flush"   -> FlushProgram
    [] m = "Disable" -> StopPort
    [] m = "Enable"  -> RestartPort
    [] m = "Start"   -> Start
    [] m = "Quit"    -> Quit
    [] m = "Idle"    -> IF m_state = "Idle" THEN <<>> ELSE ToIdle
    [] m = "Pause"   -> IF m_state = "Pause" THEN <<>> ELSE << <<"settle", "Pause">> >>
    [] m = "Execute" -> CASE m_state = "Idle"  -> << <<"settle", "Executing">> >>
                          [] m_state = "Pause" ->
                               << <<"flush", "ports">>, <<"settle", "Executing">> >>
                          [] OTHER -> <<>>

Doing(op, on) == todo # <<>> /\ Head(todo) = <<op, on>>
Done == todo' = Tail(todo)
DoNext(op, on) == todo' = << <<op, on>> >> \o Tail(todo)

(* SendCommand.  A command sent while another is carried out waits in the   *)
(* queue, as if it were sent when that one is done.  A port that is         *)
(* disabled is enabled again.                                               *)
Send(k) ==
  /\ k \in Kinds
  /\ sent < MaxCommands
  /\ inbox = <<>>
  /\ todo = <<>>
  /\ k = "Disable" => enabled
  /\ sent' = sent + 1
  /\ inbox' = <<k>>
  /\ UNCHANGED <<todo, threads, component, eos, flush, change, decoder, headers>>

SendEnable ==
  /\ ~enabled
  /\ inbox = <<>>
  /\ todo = <<>>
  /\ inbox' = <<"Enable">>
  /\ UNCHANGED <<sent, todo, threads, component, eos, flush, change, decoder, headers>>

TakeMessage ==
  /\ todo = <<>>
  /\ inbox # <<>>
  /\ todo' = Program(Head(inbox))
  /\ inbox' = Tail(inbox)
  /\ UNCHANGED <<sent, threads, component, eos, flush, change, decoder, headers>>

(* FillThisBuffer, and its message: a header for the output port. *)
FillThisBuffer ==
  /\ todo = <<>>
  /\ enabled
  /\ m_state \in {"Executing", "Pause"}
  /\ headers + (IF loop["drain"] = "copy" THEN 1 ELSE 0) < MaxHeaders
  /\ headers' = headers + 1
  /\ UNCHANGED <<command, threads, component, eos, flush, change, decoder>>

(* judgeThreadKeepGoing, once there is input: open the decoder, then start  *)
(* or resume the workers by a message to itself.                            *)
Prepare ==
  /\ todo = <<>>
  /\ m_state = "Executing"
  /\ enabled
  /\ ~bHadInitDecoderFlag
  /\ bHadInitDecoderFlag' = TRUE
  /\ vdecSize' = Stream[1]
  /\ inbox' = Append(inbox, "Start")
  /\ UNCHANGED <<sent, todo, threads, m_state, enabled, eos, flush, change,
                 submitted, decoded, pictures, headers>>
-----------------------------------------------------------------------------
(* suspend, resume, run and requestExitAndWait of a worker, as OmxThread    *)
(* does them.  Whoever parks a worker, or makes it exit, keeps its mutex    *)
(* until the worker has stopped; the others' calls wait.                    *)

Locked(w) == status[w] = "pausing" \/ Doing("exiting", w)

Set(w, st) == status' = [status EXCEPT ![w] = st]

(* The message thread's operations on a worker. *)
MsgPark(w) ==
  /\ Doing("park", w)
  /\ ~Locked(w)
  /\ IF status[w] = "running" THEN Set(w, "pausing") /\ DoNext("parking", w)
                              ELSE Done /\ UNCHANGED status

MsgParked(w) ==
  /\ Doing("parking", w)
  /\ loop[w] = "out"
  /\ Set(w, "parked")
  /\ Done

MsgResume(w) ==
  /\ Doing("resume", w)
  /\ ~Locked(w)
  /\ status' = [status EXCEPT ![w] = IF @ = "parked" THEN "running" ELSE @]
  /\ Done

MsgRun(w) ==
  /\ Doing("run", w)
  /\ ~Locked(w)
  /\ Set(w, "running")
  /\ Done

MsgExit(w) ==
  /\ Doing("exit", w)
  /\ ~Locked(w)
  /\ IF status[w] = "off" THEN Done /\ UNCHANGED status
                          ELSE Set(w, "running") /\ DoNext("exiting", w)

MsgExited(w) ==
  /\ Doing("exiting", w)
  /\ loop[w] = "out"
  /\ Set(w, "off")
  /\ Done

MsgOnWorker(w) ==
  /\ MsgPark(w) \/ MsgParked(w) \/ MsgResume(w) \/ MsgRun(w) \/ MsgExit(w) \/ MsgExited(w)
  /\ UNCHANGED <<sent, inbox, loop, component, eos, flush, change, decoder, headers>>

(* The client starts its stream again after a flush or a close. *)
NoData == submitted' = 0 /\ decoded' = 0 /\ pictures' = <<>> /\ UNCHANGED vdecSize

(* controlFlush of both ports: __liFlush forgets the end of the input.      *)
MsgFlush ==
  /\ Doing("flush", "decoder")
  /\ headers' = 0
  /\ bInputEosFlag' = FALSE
  /\ NoData
  /\ Done
  /\ UNCHANGED <<sent, inbox, threads, component, bVdrvNotifyEosFlag, flush, change>>

(* Executing to Idle: the ports are flushed, the decoder is destroyed. *)
MsgClose ==
  /\ Doing("close", "decoder")
  /\ headers' = 0
  /\ bHadInitDecoderFlag' = FALSE
  /\ NoData
  /\ Done
  /\ UNCHANGED <<sent, inbox, threads, m_state, enabled, eos, flush, change>>

MsgFlushPorts ==
  /\ Doing("flush", "ports")
  /\ headers' = 0
  /\ Done
  /\ UNCHANGED <<sent, inbox, threads, component, eos, flush, change, decoder>>

(* To Idle the component waits for its ports, and stays where it was when   *)
(* one of them is disabled (the wait times out).                            *)
MsgSettle(st) ==
  /\ Doing("settle", st)
  /\ m_state' = IF st = "Idle" /\ ~enabled THEN m_state ELSE st
  /\ Done
  /\ UNCHANGED <<sent, inbox, threads, enabled, bHadInitDecoderFlag, eos, flush, change,
                 decoder, headers>>

(* controlStopPort, of the output port, then its wait for the client to     *)
(* free the headers (or for the timeout).                                   *)
MsgStopPort ==
  /\ Doing("stop", "port")
  /\ headers' = 0
  /\ enabled' = FALSE
  /\ Done
  /\ UNCHANGED <<sent, inbox, threads, m_state, bHadInitDecoderFlag, eos, flush, change, decoder>>

MsgFreed ==
  /\ Doing("free", "port")
  /\ Done
  /\ UNCHANGED <<sent, inbox, threads, component, eos, flush, change, decoder, headers>>

(* controlRestartPort: the client makes headers of the size outDef says. *)
MsgPopulated ==
  /\ Doing("populate", "port")
  /\ enabled' = TRUE
  /\ headerSize' = portSize
  /\ Done
  /\ UNCHANGED <<sent, inbox, threads, m_state, bHadInitDecoderFlag, eos, flush,
                 bResolutionChangeFlag, changeLost, portSize, decoder, headers>>

(* The wait for them may run out: the port stays disabled. *)
MsgNotPopulated ==
  /\ Doing("populate", "port")
  /\ Done
  /\ UNCHANGED <<sent, inbox, threads, component, eos, flush, change, decoder, headers>>

MsgClearChange ==
  /\ Doing("clear", "change")
  /\ bResolutionChangeFlag' = FALSE
  /\ changeLost' = (portSize # headerSize)
  /\ Done
  /\ UNCHANGED <<sent, inbox, threads, component, eos, flush, portSize, headerSize, decoder,
                 headers>>

MsgPostFlushed ==
  /\ Doing("post", "flushed")
  /\ semFlushAllFrame' = 1
  /\ Done
  /\ UNCHANGED <<sent, inbox, threads, component, eos, bFlushingPicFlag, nNeedToFlushPicNum,
                 miscounted, change, decoder, headers>>

MsgOnComponent ==
  \/ MsgFlush \/ MsgClose \/ MsgFlushPorts \/ MsgStopPort \/ MsgFreed
  \/ MsgPopulated \/ MsgNotPopulated \/ MsgClearChange \/ MsgPostFlushed
  \/ \E st \in {"Idle", "Executing", "Pause"} : MsgSettle(st)
-----------------------------------------------------------------------------
\* Mutant: the drain thread goes on after it has seen a change.
ReadyDuringChange(w) ==
  /\ m_state = "Executing"
  /\ enabled
  /\ bHadInitDecoderFlag

(* What the three loop functions test before they do anything. *)
Ready(w) ==
  /\ m_state = "Executing"
  /\ enabled
  /\ bHadInitDecoderFlag
  /\ w = "drain" => ~bResolutionChangeFlag

Continue(w, point) == loop' = [loop EXCEPT ![w] = point]

(* A call that finds its thread not ready only waits, and is left out. *)
EnterLoop(w) ==
  /\ status[w] \in {"running", "pausing"}
  /\ loop[w] = "out"
  /\ Ready(w)
  /\ Continue(w, "work")
  /\ UNCHANGED <<command, status, component, eos, flush, change, decoder, headers>>

(* doSubmit: the next frame, and the end of the input with the last one. *)
Submit ==
  /\ loop["submit"] = "work"
  /\ IF submitted < Len(Stream)
     THEN /\ submitted' = submitted + 1
          /\ bInputEosFlag' = (bInputEosFlag \/ submitted' = Len(Stream))
     ELSE UNCHANGED <<submitted, bInputEosFlag>>
  /\ Continue("submit", "out")
  /\ UNCHANGED <<command, status, component, bVdrvNotifyEosFlag, flush, change,
                 decoded, vdecSize, pictures, headers>>
-----------------------------------------------------------------------------
(* The decode thread: __liDecode. *)

HasData == decoded < submitted
NextSize == Stream[decoded + 1]

DecodeFrame ==
  /\ loop["decode"] = "work"
  /\ HasData
  /\ NextSize = vdecSize
  /\ IF Len(pictures) < MaxPictures
     THEN pictures' = Append(pictures, vdecSize) /\ decoded' = decoded + 1
     ELSE UNCHANGED <<pictures, decoded>>
  /\ Continue("decode", "out")
  /\ UNCHANGED <<command, status, component, eos, flush, change, submitted, vdecSize, headers>>

(* No bitstream: with the end of the input, the end is notified each time.  *)
DecodeEnd ==
  /\ loop["decode"] = "work"
  /\ ~HasData
  /\ bVdrvNotifyEosFlag' = (bVdrvNotifyEosFlag \/ bInputEosFlag)
  /\ Continue("decode", "out")
  /\ UNCHANGED <<command, status, component, bInputEosFlag, flush, change, decoder, headers>>

(* A change of resolution: the pictures waiting are counted, the drain      *)
(* thread is asked to deliver them and awaited, without a timeout.          *)
ChangeSeen ==
  /\ loop["decode"] = "work"
  /\ HasData
  /\ NextSize # vdecSize
  /\ nNeedToFlushPicNum' = Len(pictures)
  /\ miscounted' = (loop["drain"] = "gave")
  /\ Continue("decode", "ask")
  /\ UNCHANGED <<command, status, component, eos, bFlushingPicFlag, semFlushAllFrame,
                 change, decoder, headers>>

AskFlush ==
  /\ loop["decode"] = "ask"
  /\ bFlushingPicFlag' = TRUE
  /\ Continue("decode", "await")
  /\ UNCHANGED <<command, status, component, eos, nNeedToFlushPicNum, semFlushAllFrame, miscounted,
                 change, decoder, headers>>

FlushSeen ==
  /\ loop["decode"] = "await"
  /\ semFlushAllFrame > 0
  /\ semFlushAllFrame' = semFlushAllFrame - 1
  /\ Continue("decode", "park")
  /\ UNCHANGED <<command, status, component, eos, bFlushingPicFlag, nNeedToFlushPicNum, miscounted,
                 change, decoder, headers>>

(* Then the drain thread is parked, the engine is opened again for the new  *)
(* size, and the drain thread is resumed.                                   *)
\* Mutant: the decode thread suspends itself.
ParkItself ==
  /\ loop["decode"] = "park"
  /\ ~Locked("decode")
  /\ IF status["decode"] = "running"
     THEN Set("decode", "pausing") /\ Continue("decode", "parking")
     ELSE Continue("decode", "reopen") /\ UNCHANGED status
  /\ UNCHANGED <<command, component, eos, flush, change, decoder, headers>>

ParkDrain ==
  /\ loop["decode"] = "park"
  /\ ~Locked("drain")
  /\ IF status["drain"] = "running"
     THEN Set("drain", "pausing") /\ Continue("decode", "parking")
     ELSE Continue("decode", "reopen") /\ UNCHANGED status
  /\ UNCHANGED <<command, component, eos, flush, change, decoder, headers>>

\* Mutant: suspend does not wait for the drain thread.
DrainNotAwaited ==
  /\ loop["decode"] = "parking"
  /\ Set("drain", "parked")
  /\ Continue("decode", "reopen")
  /\ UNCHANGED <<command, component, eos, flush, change, decoder, headers>>

DrainParked ==
  /\ loop["decode"] = "parking"
  /\ loop["drain"] = "out"
  /\ Set("drain", "parked")
  /\ Continue("decode", "reopen")
  /\ UNCHANGED <<command, component, eos, flush, change, decoder, headers>>

liReopenVideoEngine ==
  /\ loop["decode"] = "reopen"
  /\ vdecSize' = NextSize
  /\ pictures' = <<>>
  /\ Continue("decode", "unpark")
  /\ UNCHANGED <<command, status, component, eos, flush, change, submitted, decoded, headers>>

ResumeDrain ==
  /\ loop["decode"] = "unpark"
  /\ ~Locked("drain")
  /\ status' = [status EXCEPT !["drain"] = IF @ = "parked" THEN "running" ELSE @]
  /\ Continue("decode", "out")
  /\ UNCHANGED <<command, component, eos, flush, change, decoder, headers>>

Decode ==
  \/ DecodeFrame \/ DecodeEnd \/ ChangeSeen \/ AskFlush \/ FlushSeen
  \/ ParkDrain \/ DrainParked \/ liReopenVideoEngine \/ ResumeDrain
-----------------------------------------------------------------------------
(* The drain thread: __liDrain, then the flags. *)

DrainNothing ==
  /\ loop["drain"] = "work"
  /\ pictures # <<>> => Head(pictures) = portSize /\ headers = 0
  /\ Continue("drain", "missed")
  /\ UNCHANGED <<command, status, component, eos, flush, change, decoder, headers>>

(* liCheckResolutionChange: outDef takes the picture's size at once (and    *)
(* the client is told of it).                                               *)
DrainSeesChange ==
  /\ loop["drain"] = "work"
  /\ pictures # <<>>
  /\ Head(pictures) # portSize
  /\ portSize' = Head(pictures)
  /\ bResolutionChangeFlag' = TRUE
  /\ Continue("drain", "missed")
  /\ UNCHANGED <<command, status, component, eos, flush, changeLost, headerSize, decoder, headers>>

DrainPeek ==
  /\ loop["drain"] = "work"
  /\ pictures # <<>>
  /\ Head(pictures) = portSize
  /\ headers > 0
  /\ headers' = headers - 1
  /\ Continue("drain", "copy")
  /\ UNCHANGED <<command, status, component, eos, flush, change, decoder>>

(* RequestPicture, the copy and FillBufferDone; without a picture the       *)
(* header is not given back.                                                *)
DrainCopy ==
  /\ loop["drain"] = "copy"
  /\ IF pictures # <<>> THEN pictures' = Tail(pictures) /\ Continue("drain", "gave")
                        ELSE Continue("drain", "missed") /\ UNCHANGED pictures
  /\ UNCHANGED <<command, status, component, eos, flush, change, submitted, decoded, vdecSize,
                 headers>>

DrainGave ==
  /\ loop["drain"] = "gave"
  /\ nNeedToFlushPicNum' = nNeedToFlushPicNum - (IF bFlushingPicFlag THEN 1 ELSE 0)
  /\ Continue("drain", "out")
  /\ UNCHANGED <<command, status, component, eos, bFlushingPicFlag, semFlushAllFrame, miscounted,
                 change, decoder, headers>>

(* __liSetOutputEos marks the next header and gives it back; it reports     *)
(* success when there is none.                                              *)
SetOutputEos ==
  /\ bVdrvNotifyEosFlag
  /\ headers' = IF headers > 0 THEN headers - 1 ELSE 0
  /\ bVdrvNotifyEosFlag' = FALSE
  /\ UNCHANGED flush

\* Mutant: one picture too early.
FlushDoneEarly ==
  /\ ~bVdrvNotifyEosFlag
  /\ bFlushingPicFlag
  /\ nNeedToFlushPicNum <= 1
  /\ bFlushingPicFlag' = FALSE
  /\ semFlushAllFrame' = 1
  /\ UNCHANGED <<nNeedToFlushPicNum, miscounted, bVdrvNotifyEosFlag, headers>>

FlushDone ==
  /\ ~bVdrvNotifyEosFlag
  /\ bFlushingPicFlag
  /\ nNeedToFlushPicNum <= 0
  /\ bFlushingPicFlag' = FALSE
  /\ semFlushAllFrame' = 1
  /\ UNCHANGED <<nNeedToFlushPicNum, miscounted, bVdrvNotifyEosFlag, headers>>

(* A call that delivered nothing counts as one picture delivered. *)
FlushCount ==
  /\ ~bVdrvNotifyEosFlag
  /\ bFlushingPicFlag
  /\ nNeedToFlushPicNum > 0
  /\ nNeedToFlushPicNum' = nNeedToFlushPicNum - 1
  /\ miscounted' = (miscounted \/ pictures # <<>>)
  /\ UNCHANGED <<bFlushingPicFlag, semFlushAllFrame, bVdrvNotifyEosFlag, headers>>

DrainMissed ==
  /\ loop["drain"] = "missed"
  /\ \/ SetOutputEos \/ FlushDone \/ FlushCount
     \/ ~bVdrvNotifyEosFlag /\ ~bFlushingPicFlag /\ UNCHANGED <<flush, bVdrvNotifyEosFlag, headers>>
  /\ Continue("drain", "out")
  /\ UNCHANGED <<command, status, component, bInputEosFlag, change, decoder>>

Drain == DrainNothing \/ DrainSeesChange \/ DrainPeek \/ DrainCopy \/ DrainGave \/ DrainMissed
-----------------------------------------------------------------------------
Message == \/ TakeMessage \/ MsgOnComponent \/ \E w \in Workers : MsgOnWorker(w)
Client == SendEnable \/ \E k \in Kinds : Send(k)

VdecNext ==
  \/ Client \/ Message \/ FillThisBuffer \/ Prepare
  \/ Submit \/ Decode \/ Drain
  \/ \E w \in Workers : EnterLoop(w)

VdecSpec == VdecInit /\ [][VdecNext]_vdecVars

(* Every thread is scheduled, a worker asked to stop stops (NobodyHangs of  *)
(* OmxThread), the component gets input and headers again, and the client   *)
(* reacts to a change of the port's settings.                               *)
VdecFairness ==
  /\ WF_vdecVars(TakeMessage) /\ WF_vdecVars(MsgOnComponent) /\ WF_vdecVars(Prepare)
  /\ WF_vdecVars(Submit) /\ WF_vdecVars(Drain) /\ SF_vdecVars(Decode)
  /\ \A w \in Workers : SF_vdecVars(MsgOnWorker(w)) /\ WF_vdecVars(EnterLoop(w))

VdecFairSpec == VdecSpec /\ VdecFairness
-----------------------------------------------------------------------------
(* While the message thread resets or destroys the decoder, neither the     *)
(* submit nor the decode thread is in its loop function.                    *)
EngineIsQuiet ==
  Doing("flush", "decoder") \/ Doing("close", "decoder") =>
    loop["submit"] = "out" /\ loop["decode"] = "out"

(* The drain thread writes as many bytes as the port's present settings say *)
(* only into headers the client made for these settings.  The exception:    *)
(* RESTART_PORT clears bResolutionChangeFlag after it has resumed the drain *)
(* thread, and when its wait for the headers ran out as well, so it may     *)
(* wipe out a change (changeLost), until headers of the right size come.    *)
PicturesFit == loop["drain"] = "copy" => headerSize = portSize \/ changeLost

Quitting == todo # <<>> /\ todo[Len(todo)] = <<"end", "thread">>

(* When the engine is opened again for a new size every picture of the old  *)
(* size has been delivered, unless the drain thread counted calls that      *)
(* delivered nothing, or the component is quitting.                         *)
LostOnlyIfMiscounted ==
  loop["decode"] = "reopen" /\ pictures # <<>> => miscounted \/ Quitting

(* A change of resolution is clean on both of its sides: no picture is      *)
(* written into a header of the wrong size, none of the old size is lost.   *)
ChangeIsClean == PicturesFit /\ LostOnlyIfMiscounted

(* The only way a command does not conclude: it makes the decode thread     *)
(* park or exit, while that thread waits, without a timeout, for the drain  *)
(* thread to deliver the last pictures; and the drain thread has been       *)
(* parked or made to exit before, or waits for RESTART_PORT, a message that *)
(* can not be taken.                                                        *)
Stuck ==
  /\ Doing("parking", "decode") \/ Doing("exiting", "decode")
  /\ loop["decode"] = "await" /\ semFlushAllFrame = 0
  /\ loop["drain"] = "out"
  /\ status["drain"] \in {"parked", "off"} \/ bResolutionChangeFlag

(* It does not end: nothing the client or the threads may still do changes  *)
(* it.                                                                      *)
StuckForGood == [][Stuck => Stuck']_vdecVars

CommandsConclude == (todo # <<>>) ~> (todo = <<>> \/ Stuck \/ Doing("end", "thread"))

EveryCommandConcludes == (todo # <<>>) ~> (todo = <<>> \/ Doing("end", "thread"))

Thread(w) == INSTANCE PausableThread WITH status <- status[w], busy <- (loop[w] # "out")

(* Each worker is the pausable thread that OmxThread implements. *)
WorkersArePausable ==
  /\ \A w \in Workers : Thread(w)!Init
  /\ [][\A w \in Workers : [Thread(w)!Next]_<<status[w], loop[w] # "out">>]_threads
=============================================================================
