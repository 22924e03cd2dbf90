------------------------------- MODULE OmxVenc -------------------------------
(***************************************************************************)
(* The two threads of the video encoder component (openmax/venc/omx_venc.c): *)
(* the main thread takes the client's messages and carries headers to and   *)
(* from the encoder; the encoding thread opens, runs and closes the encoder. *)
(* The main thread gives it a command and waits for the answer on m_msg_sem *)
(* (post_message_to_venc_and_wait); what only the main thread does          *)
(* meanwhile - taking the bitstream away - does not happen.                 *)
(*                                                                         *)
(* The path of the Linux build: frames are copied into buffers of the       *)
(* encoder (m_useAllocInputBuffer).  The encoder library, which is not in   *)
(* the repository, is a queue of frames and a queue of bitstream frames,    *)
(* and each call of it is one step.  A frame is only counted.  A failed     *)
(* open may leave m_encoder at an encoder that was destroyed: what a call   *)
(* of that one does is undefined, and it may answer anything.               *)
(***************************************************************************)
EXTENDS Naturals, Sequences

CONSTANTS
  InHdrs, OutHdrs,   \* the headers of the input and of the output port
  NoHdr,             \* mInBufHdr = NULL
  AllocBufs,         \* buffers AllocInputBuffer makes
  BitRoom,           \* frames the encoder's bitstream buffer holds
  Commands,          \* the commands the client sends
  MaxCommands        \* bound: commands it sends

States    == {"Idle", "Executing", "Pause"}
AllCommands == [id : {"state"}, to : States] \cup
               [id : {"stop_port", "restart_port", "flush"}]
Kinds     == {"frame", "last", "end"}   \* a frame; a frame with EOS; EOS and no data

ASSUME VencAssumption ==
  /\ NoHdr \notin InHdrs
  /\ AllocBufs \in Nat \ {0} /\ BitRoom \in Nat \ {0} /\ MaxCommands \in Nat
  /\ Commands \subseteq AllCommands

VARIABLES
  \* the client
  sent, clientIn, clientOut,   \* commands sent, headers it has
  \* the component
  m_state, enabled, bPopulated,
  mainQ, vencQ,                \* the two message queues
  inList, outList,             \* m_sInBufList, m_sOutBufList
  mInBufHdr, mInputBufferStep, \* the header or frame in hand
  m_inBufEos,
  mpc, vpc,                    \* where the two threads are
  nWaitIdle, m_msg_sem,
  \* the encoder
  m_encoder,                   \* "none", "opening", "open" or "dead"
  toEncode, used, bits,        \* frames in it: to encode, encoded but not taken back; bitstream
  \* history
  stepKept                     \* a header given back by Idle is still in hand

client == <<sent, clientIn, clientOut>>
port   == <<m_state, enabled, bPopulated>>
hand   == <<mInBufHdr, mInputBufferStep, m_inBufEos>>
engine == <<m_encoder, toEncode, used, bits>>
venc   == <<vencQ, vpc, nWaitIdle, m_msg_sem>>
vars   == <<client, port, mainQ, inList, outList, hand, mpc, venc, engine, stepKept>>

(* After a first transition to Executing. *)
Init ==
  /\ sent = 0 /\ clientIn = InHdrs /\ clientOut = OutHdrs
  /\ m_state = "Executing" /\ enabled = TRUE /\ bPopulated = TRUE
  /\ mainQ = <<>> /\ vencQ = <<>> /\ inList = <<>> /\ outList = <<>>
  /\ mInBufHdr = NoHdr /\ mInputBufferStep = "GET_INPUTBUFFER" /\ m_inBufEos = FALSE
  /\ mpc = "loop" /\ vpc = "loop" /\ nWaitIdle = FALSE /\ m_msg_sem = 0
  /\ m_encoder = "open" /\ toEncode = 0 /\ used = 0 /\ bits = 0
  /\ stepKept = FALSE

Hdrs(s) == {s[i] : i \in DOMAIN s}
-----------------------------------------------------------------------------
(* The client.  SendCommand enables the port at once, before the main       *)
(* thread sees the message.  Both ports are stopped and restarted together. *)
SendCommand(c) ==
  /\ sent < MaxCommands
  /\ sent' = sent + 1
  /\ mainQ' = Append(mainQ, c)
  /\ enabled' = (enabled \/ c.id = "restart_port")
  /\ UNCHANGED <<clientIn, clientOut, m_state, bPopulated, inList, outList, hand, mpc, venc,
                 engine, stepKept>>

Takes == enabled /\ bPopulated /\ m_state \in {"Executing", "Pause"}

EmptyThisBuffer(h, k) ==
  /\ Takes /\ h \in clientIn
  /\ clientIn' = clientIn \ {h}
  /\ mainQ' = Append(mainQ, [id |-> "empty", hdr |-> h, kind |-> k])
  /\ UNCHANGED <<sent, clientOut, port, inList, outList, hand, mpc, venc, engine, stepKept>>

FillThisBuffer(h) ==
  /\ Takes /\ h \in clientOut
  /\ clientOut' = clientOut \ {h}
  /\ mainQ' = Append(mainQ, [id |-> "fill", hdr |-> h])
  /\ UNCHANGED <<sent, clientIn, port, inList, outList, hand, mpc, venc, engine, stepKept>>

\* FreeBuffer and UseBuffer, of all headers of both ports.
FreeBuffers ==
  /\ ~enabled /\ bPopulated
  /\ clientIn = InHdrs /\ clientOut = OutHdrs
  /\ bPopulated' = FALSE
  /\ UNCHANGED <<client, m_state, enabled, mainQ, inList, outList, hand, mpc, venc, engine, stepKept>>

UseBuffers ==
  /\ enabled /\ ~bPopulated
  /\ bPopulated' = TRUE
  /\ UNCHANGED <<client, m_state, enabled, mainQ, inList, outList, hand, mpc, venc, engine, stepKept>>

Client ==
  \/ \E c \in Commands : SendCommand(c)
  \/ \E h \in InHdrs, k \in Kinds : EmptyThisBuffer(h, k)
  \/ \E h \in OutHdrs : FillThisBuffer(h)
  \/ FreeBuffers
  \/ UseBuffers
-----------------------------------------------------------------------------
(* The main thread: processThreadCommand, then one round of the loop.       *)

PostAndWait(cmd, at) == vencQ' = Append(vencQ, cmd) /\ mpc' = at
Answered(at) == mpc = at /\ m_msg_sem > 0 /\ m_msg_sem' = m_msg_sem - 1

InHeaders(s) == {s[i].hdr : i \in DOMAIN s}

\* Mutant of FlushLists: the headers are given back and stay in the lists.
FlushCopies(extra) ==
  /\ clientIn' = clientIn \cup InHeaders(inList) \cup extra
  /\ clientOut' = clientOut \cup Hdrs(outList)
  /\ UNCHANGED <<inList, outList>>

\* flushBuffers for both lists: their headers, and those in extra, go back.
FlushLists(extra) ==
  /\ clientIn' = clientIn \cup InHeaders(inList) \cup extra
  /\ clientOut' = clientOut \cup Hdrs(outList)
  /\ inList' = <<>> /\ outList' = <<>>

ToState(s) ==
  CASE s = m_state -> \* OMX_ErrorSameState
         mpc' = "round" /\ UNCHANGED <<clientIn, clientOut, m_state, inList, outList, vencQ>>
    [] s = "Idle" /\ s # m_state ->
         /\ PostAndWait("Enc_Idle", "idleWait")
         /\ UNCHANGED <<clientIn, clientOut, m_state, inList, outList>>
    [] s = "Executing" /\ s # m_state ->
         /\ IF m_state = "Pause" THEN FlushLists({})
                                 ELSE UNCHANGED <<clientIn, clientOut, inList, outList>>
         /\ m_state' = "Executing"
         /\ PostAndWait("Open", "openWait")
    [] s = "Pause" /\ s # m_state ->
         /\ m_state' = "Pause" /\ mpc' = "round"
         /\ UNCHANGED <<clientIn, clientOut, inList, outList, vencQ>>

Carry(m) ==
  \/ /\ m.id = "state" /\ ToState(m.to)
     /\ UNCHANGED enabled
  \/ /\ m.id = "stop_port"
     /\ FlushLists({})
     /\ enabled' = FALSE /\ mpc' = "freeWait"
     /\ UNCHANGED <<m_state, vencQ>>
  \/ /\ m.id = "restart_port"
     /\ enabled' = TRUE /\ mpc' = "populateWait"
     /\ UNCHANGED <<clientIn, clientOut, m_state, inList, outList, vencQ>>
  \/ /\ m.id = "flush"
     /\ FlushLists({})
     /\ mpc' = "round"
     /\ UNCHANGED <<enabled, m_state, vencQ>>
  \/ /\ m.id = "empty"
     /\ inList' = Append(inList, [hdr |-> m.hdr, kind |-> m.kind])
     /\ mpc' = "round"
     /\ UNCHANGED <<clientIn, clientOut, enabled, m_state, outList, vencQ>>
  \/ /\ m.id = "fill"
     /\ outList' = Append(outList, m.hdr)
     /\ mpc' = "round"
     /\ UNCHANGED <<clientIn, clientOut, enabled, m_state, inList, vencQ>>

TakeMessage ==
  /\ mpc = "loop" /\ mainQ # <<>>
  /\ mainQ' = Tail(mainQ)
  /\ Carry(Head(mainQ))
  /\ UNCHANGED <<sent, bPopulated, hand, vpc, nWaitIdle, m_msg_sem, engine, stepKept>>

NoMessage ==
  /\ mpc = "loop" /\ mainQ = <<>>
  /\ mpc' = "round"
  /\ UNCHANGED <<client, port, mainQ, inList, outList, hand, venc, engine, stepKept>>

(* To Idle: the header in hand goes back, but the step that says it is in   *)
(* hand stays, and so does m_inBufEos.                                      *)
IdleAnswered ==
  /\ Answered("idleWait")
  /\ FlushLists(IF mInputBufferStep = "GET_ALLOCBUFFER" THEN {mInBufHdr} ELSE {})
  /\ stepKept' = (stepKept \/ mInputBufferStep = "GET_ALLOCBUFFER")
  /\ PostAndWait("Close", "closeWait")
  /\ UNCHANGED <<sent, port, mainQ, hand, vpc, nWaitIdle, engine>>

CloseAnswered ==
  /\ Answered("closeWait")
  /\ mpc' = "settle"
  /\ UNCHANGED <<client, port, mainQ, inList, outList, hand, vencQ, vpc, nWaitIdle, engine, stepKept>>

\* The wait for the ports, up to OMX_MAX_TIMEOUTS times: then the state stays.
Settle ==
  /\ mpc = "settle"
  /\ m_state' = IF ~enabled \/ bPopulated THEN "Idle" ELSE m_state
  /\ mpc' = "round"
  /\ UNCHANGED <<client, enabled, bPopulated, mainQ, inList, outList, hand, venc, engine, stepKept>>

OpenAnswered ==
  /\ Answered("openWait")
  /\ mpc' = "round"
  /\ UNCHANGED <<client, port, mainQ, inList, outList, hand, vencQ, vpc, nWaitIdle, engine, stepKept>>

\* The waits of STOP_PORT and RESTART_PORT end well or with a timeout.
Freed ==
  /\ mpc = "freeWait"
  /\ mpc' = "round"
  /\ UNCHANGED <<client, port, mainQ, inList, outList, hand, venc, engine, stepKept>>

(* RESTART_PORT closes and opens the encoder in the main thread, whatever   *)
(* the encoding thread is doing, and that thread finds the encoder as soon  *)
(* as it is created.                                                        *)
ReopenCloses ==
  /\ mpc = "populateWait"
  /\ m_encoder' = "none" /\ toEncode' = 0 /\ used' = 0 /\ bits' = 0
  /\ mpc' = "reopen"
  /\ UNCHANGED <<client, port, mainQ, inList, outList, hand, venc, stepKept>>

(* An encoder that cannot be created or initialised is no encoder.  One     *)
(* without SPS and PPS or without buffers is destroyed, and m_encoder still *)
(* points to it.                                                            *)
openVencDriver == \E result \in {"open", "none", "dead"} : m_encoder' = result

\* openVencDriver in two: until m_encoder is set, and from there on.
ReopenCreates ==
  /\ mpc = "reopen"
  /\ \/ m_encoder' = "opening" /\ mpc' = "init"
     \/ m_encoder' = "none" /\ mpc' = "round"
  /\ UNCHANGED <<client, port, mainQ, inList, outList, hand, venc, toEncode, used, bits, stepKept>>

ReopenInits ==
  /\ mpc = "init"
  /\ openVencDriver
  /\ mpc' = "round"
  /\ UNCHANGED <<client, port, mainQ, inList, outList, hand, venc, toEncode, used, bits, stepKept>>
-----------------------------------------------------------------------------
(* A round of ComponentThread.                                              *)

\* The answer to a question whether q: of an encoder that is not open it is any.
Answers(yes, q) == m_encoder = "open" => yes = q

Runs == m_encoder # "none" /\ m_state = "Executing" /\ enabled

EndOfInput == m_inBufEos /\ mInputBufferStep = "GET_INPUTBUFFER"

SkipRound ==
  /\ mpc = "round" /\ ~Runs
  /\ mpc' = "loop"
  /\ UNCHANGED <<client, port, mainQ, inList, outList, hand, venc, engine, stepKept>>

StartRound ==
  /\ mpc = "round" /\ Runs
  /\ IF EndOfInput THEN PostAndWait("Enc_Idle", "eosWait")
                   ELSE mpc' = "input" /\ UNCHANGED vencQ
  /\ UNCHANGED <<client, port, mainQ, inList, outList, hand, vpc, nWaitIdle, m_msg_sem,
                 engine, stepKept>>

BitsLeft == bits > 0    \* ValidBitstreamFrameNum

\* Everything is encoded and delivered: the next output header carries EOS.
EosAnswered(left) ==
  /\ Answered("eosWait")
  /\ Answers(left, BitsLeft)
  /\ IF ~left /\ outList # <<>>
     THEN /\ clientOut' = clientOut \cup {Head(outList)}
          /\ outList' = Tail(outList)
          /\ m_inBufEos' = FALSE
     ELSE UNCHANGED <<clientOut, outList, m_inBufEos>>
  /\ mpc' = "input"
  /\ UNCHANGED <<sent, clientIn, port, mainQ, inList, mInBufHdr, mInputBufferStep, vencQ, vpc,
                 nWaitIdle, engine, stepKept>>

(* dealWithInputBuffer.  A frame is copied into a buffer of the encoder,    *)
(* its header goes back, and the buffer is queued for encoding; each of     *)
(* the two calls may have to be tried again in a later round.               *)
FreeBuf == toEncode + used < AllocBufs

\* AddOneInputBuffer accepts the buffer or refuses it; only an open encoder has it then.
AddFrame(accepted) ==
  IF accepted
  THEN /\ toEncode' = IF m_encoder = "open" THEN toEncode + 1 ELSE toEncode
       /\ mInputBufferStep' = "GET_INPUTBUFFER" /\ mInBufHdr' = NoHdr
  ELSE /\ mInputBufferStep' = "ADD_BUFFER_TO_ENC" /\ mInBufHdr' = NoHdr
       /\ UNCHANGED toEncode

NoInput ==
  /\ mInputBufferStep = "GET_INPUTBUFFER" /\ inList = <<>>
  /\ UNCHANGED <<clientIn, inList, hand, toEncode>>

TakeInput(free, accepted) ==
  /\ mInputBufferStep = "GET_INPUTBUFFER" /\ inList # <<>>
  /\ inList' = Tail(inList)
  /\ m_inBufEos' = (m_inBufEos \/ Head(inList).kind # "frame")
  /\ IF Head(inList).kind # "end" /\ ~free
     THEN /\ mInBufHdr' = Head(inList).hdr
          /\ mInputBufferStep' = "GET_ALLOCBUFFER"
          /\ UNCHANGED <<clientIn, toEncode>>
     ELSE /\ clientIn' = clientIn \cup {Head(inList).hdr}
          /\ IF Head(inList).kind = "end"
             THEN UNCHANGED <<mInBufHdr, mInputBufferStep, toEncode>>
             ELSE AddFrame(accepted)

RetryInput(free, accepted) ==
  /\ mInputBufferStep # "GET_INPUTBUFFER"
  /\ \/ /\ mInputBufferStep = "GET_ALLOCBUFFER" /\ ~free
        /\ UNCHANGED <<clientIn, hand, toEncode>>
     \/ /\ mInputBufferStep = "GET_ALLOCBUFFER" /\ free
        /\ clientIn' = clientIn \cup {mInBufHdr}
        /\ AddFrame(accepted)
        /\ UNCHANGED m_inBufEos
     \/ /\ mInputBufferStep = "ADD_BUFFER_TO_ENC"
        /\ AddFrame(accepted)
        /\ UNCHANGED <<clientIn, m_inBufEos>>
  /\ UNCHANGED inList

Input(free, accepted) ==
  /\ mpc = "input"
  /\ Answers(free, FreeBuf)
  /\ NoInput \/ TakeInput(free, accepted) \/ RetryInput(free, accepted)
  /\ mpc' = "used"
  /\ UNCHANGED <<sent, clientOut, port, mainQ, outList, venc, m_encoder, used, bits,
                 stepKept>>

\* AlreadyUsedInputBuffer, ReturnOneAllocInputBuffer.
TakeBack ==
  /\ mpc = "used"
  /\ used' = IF used > 0 THEN used - 1 ELSE 0
  /\ mpc' = "output"
  /\ UNCHANGED <<client, port, mainQ, inList, outList, hand, venc, m_encoder, toEncode, bits,
                 stepKept>>

(* If there are a bitstream frame and a header, the header goes out: with   *)
(* SPS and PPS while the frame stays, as m_frameCountForCSD says, or with   *)
(* the frame.  The count is left out: either may happen.                    *)
Output(left, config) ==
  /\ mpc = "output"
  /\ Answers(left, BitsLeft)
  /\ IF left /\ outList # <<>>
     THEN /\ clientOut' = clientOut \cup {Head(outList)}
          /\ outList' = Tail(outList)
          /\ bits' = IF config \/ m_encoder # "open" THEN bits ELSE bits - 1
     ELSE UNCHANGED <<clientOut, outList, bits>>
  /\ mpc' = "loop"
  /\ UNCHANGED <<sent, clientIn, port, mainQ, inList, hand, venc, m_encoder, toEncode, used, stepKept>>

Main ==
  \/ TakeMessage \/ NoMessage
  \/ IdleAnswered \/ CloseAnswered \/ Settle \/ OpenAnswered
  \/ Freed \/ ReopenCloses \/ ReopenCreates \/ ReopenInits
  \/ SkipRound \/ StartRound
  \/ \E left \in BOOLEAN : EosAnswered(left)
  \/ \E free, accepted \in BOOLEAN : Input(free, accepted)
  \/ TakeBack
  \/ \E left, config \in BOOLEAN : Output(left, config)
-----------------------------------------------------------------------------
(* The encoding thread.                                                     *)
Answer == m_msg_sem' = m_msg_sem + 1
NoAnswer == UNCHANGED m_msg_sem

VencCommand ==
  /\ vpc = "loop" /\ vencQ # <<>>
  /\ vencQ' = Tail(vencQ)
  /\ vpc' = "test"
  /\ \/ /\ Head(vencQ) = "Open"
        /\ IF m_encoder = "none" THEN openVencDriver ELSE UNCHANGED m_encoder
        /\ Answer
        /\ UNCHANGED <<nWaitIdle, toEncode, used, bits>>
     \/ /\ Head(vencQ) = "Close"
        /\ m_encoder' = "none" /\ toEncode' = 0 /\ used' = 0 /\ bits' = 0
        /\ Answer
        /\ UNCHANGED nWaitIdle
     \/ /\ Head(vencQ) = "Enc_Idle"
        /\ nWaitIdle' = TRUE
        /\ NoAnswer
        /\ UNCHANGED engine
  /\ UNCHANGED <<client, port, mainQ, inList, outList, hand, mpc, stepKept>>

VencTest ==
  /\ vpc = "test" \/ (vpc = "loop" /\ vencQ = <<>>)
  /\ vpc' = IF m_state = "Executing" /\ m_encoder # "none" THEN "encode" ELSE "loop"
  /\ UNCHANGED <<client, port, mainQ, inList, outList, hand, mpc, vencQ, nWaitIdle, m_msg_sem,
                 engine, stepKept>>

\* Mutants of NoFrame: any result will do; the bitstream must be taken away too.
AnyResult     == TRUE
NoFrameNoBits == toEncode = 0 /\ bits = 0

\* VideoEncodeOneFrame; Enc_Idle is answered when it finds no frame.
NoFrame == toEncode = 0
Full    == toEncode > 0 /\ bits = BitRoom

VencEncode(noFrame) ==
  /\ vpc = "encode"
  /\ Answers(noFrame, NoFrame)
  /\ IF m_encoder = "open" /\ toEncode > 0 /\ ~Full
     THEN toEncode' = toEncode - 1 /\ used' = used + 1 /\ bits' = bits + 1
     ELSE UNCHANGED <<toEncode, used, bits>>
  /\ IF nWaitIdle /\ noFrame
     THEN nWaitIdle' = FALSE /\ Answer
     ELSE UNCHANGED nWaitIdle /\ NoAnswer
  /\ vpc' = "loop"
  /\ UNCHANGED <<client, port, mainQ, inList, outList, hand, mpc, vencQ, m_encoder, stepKept>>

Venc == VencCommand \/ VencTest \/ \E noFrame \in BOOLEAN : VencEncode(noFrame)

Next == Client \/ Main \/ Venc

(* Both threads run for ever.  The client owes nothing, and an open or an   *)
(* AddOneInputBuffer may fail again and again.                              *)
Spec == Init /\ [][Next]_vars /\ WF_vars(Main) /\ WF_vars(Venc)
-----------------------------------------------------------------------------
Messages ==
  AllCommands \cup [id : {"empty"}, hdr : InHdrs, kind : Kinds] \cup [id : {"fill"}, hdr : OutHdrs]
Entries  == [hdr : InHdrs, kind : Kinds]
VencCommands == {"Open", "Close", "Enc_Idle"}

TypeOK ==
  /\ sent \in 0 .. MaxCommands /\ clientIn \subseteq InHdrs /\ clientOut \subseteq OutHdrs
  /\ m_state \in States /\ enabled \in BOOLEAN /\ bPopulated \in BOOLEAN
  /\ mainQ \in Seq(Messages) /\ vencQ \in Seq(VencCommands)
  /\ inList \in Seq(Entries) /\ outList \in Seq(OutHdrs)
  /\ mInBufHdr \in InHdrs \cup {NoHdr} /\ m_inBufEos \in BOOLEAN
  /\ mInputBufferStep \in {"GET_INPUTBUFFER", "GET_ALLOCBUFFER", "ADD_BUFFER_TO_ENC"}
  /\ mpc \in {"loop", "round", "idleWait", "closeWait", "settle", "openWait", "freeWait",
              "populateWait", "reopen", "init", "eosWait", "input", "used", "output"}
  /\ vpc \in {"loop", "test", "encode"}
  /\ nWaitIdle \in BOOLEAN /\ m_msg_sem \in 0 .. 1
  /\ m_encoder \in {"none", "opening", "open", "dead"}
  /\ toEncode \in 0 .. AllocBufs /\ used \in 0 .. AllocBufs /\ bits \in 0 .. BitRoom
  /\ stepKept \in BOOLEAN

One(S) == \E x \in S : S = {x}

Places(h, at, id, list) ==
  {<<"at", a>> : a \in at}
  \cup {<<"message", i>> : i \in {j \in DOMAIN mainQ : mainQ[j].id = id /\ mainQ[j].hdr = h}}
  \cup {<<"list", i>> : i \in {j \in DOMAIN list : list[j] = h}}

PlacesIn(h) ==
  Places(h, (IF h \in clientIn THEN {"client"} ELSE {}) \cup
            (IF mInBufHdr = h THEN {"hand"} ELSE {}),
         "empty", [i \in DOMAIN inList |-> inList[i].hdr])

PlacesOut(h) == Places(h, IF h \in clientOut THEN {"client"} ELSE {}, "fill", outList)

\* A header of either port is in one place: with the client, in a message on its
\* way, in its list, or in the main thread's hand while it waits for a buffer of the
\* encoder.  It is given back once for each time it was sent.  The exception is a
\* header in hand at a transition to Idle: it is given back there and, since the
\* step stays, again in the next stream.
HeadersHaveOneOwner ==
  /\ \A h \in InHdrs : One(PlacesIn(h)) \/ stepKept
  /\ \A h \in OutHdrs : One(PlacesOut(h))

CutsNothing ==
  /\ m_encoder = "open" /\ m_encoder' # "open" =>
       mpc = "populateWait" \/ (toEncode = 0 /\ vpc # "encode")
  /\ m_inBufEos /\ ~m_inBufEos' =>
       toEncode = 0 /\ bits = 0 /\ mInputBufferStep = "GET_INPUTBUFFER"

\* The encoder is closed at rest - every frame it took is encoded and no call is in
\* it - and the header that says EOS follows every frame taken before: nothing is
\* left in the encoder or its bitstream.  Only RESTART_PORT closes the encoder
\* without asking.
NothingIsCutOff == [][CutsNothing]_vars

\* The main thread's waits for the encoding thread end, but for Enc_Idle, which is
\* answered by a call of the encoder that finds no frame: there is no such call in
\* another state than Executing or without an encoder, and none while the bitstream
\* is full, which only the waiting thread could empty.  After a failed open that left
\* m_encoder at a destroyed encoder, nothing is said of that wait.
Waits == mpc \in {"idleWait", "closeWait", "openWait", "eosWait"}
Stuck ==
  /\ mpc \in {"idleWait", "eosWait"} /\ m_msg_sem = 0
  /\ Full \/ (vpc # "encode" /\ (m_state # "Executing" \/ m_encoder = "none"))

\* Such a wait does not end, whatever the client sends.
StuckForGood == [][Stuck => Stuck']_vars

AsksDestroyed == mpc \in {"idleWait", "eosWait"} /\ m_encoder = "dead"

WaitsEnd == Waits ~> ~Waits \/ Stuck \/ AsksDestroyed
=============================================================================
