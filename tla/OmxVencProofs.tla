---------------------------- MODULE OmxVencProofs ----------------------------
(***************************************************************************)
(* What holds of OmxVenc for every number of headers, buffers and commands: *)
(* its types, that nothing is cut off, and that every header has one owner.  *)
(* The first invariant is the handshake of the two threads: one question is *)
(* open at a time, it is in one place, and the answer to Enc_Idle says that *)
(* there is no frame left to encode.  The second says where each header is. *)
(***************************************************************************)
EXTENDS OmxVenc, SequenceTheorems, TLAPS

\* No question is open.
Quiet == vencQ = <<>> /\ m_msg_sem = 0 /\ ~nWaitIdle

\* The question q is on its way, or was answered.
Asked(q)  == vencQ = <<q>> /\ m_msg_sem = 0 /\ ~nWaitIdle
Settled   == vencQ = <<>> /\ m_msg_sem = 1 /\ ~nWaitIdle
IsWaiting == vencQ = <<>> /\ m_msg_sem = 0 /\ nWaitIdle

Handshake ==
  /\ mpc \notin {"idleWait", "closeWait", "openWait", "eosWait"} => Quiet
  /\ mpc \in {"idleWait", "eosWait"} =>
       Asked("Enc_Idle") \/ IsWaiting \/ (Settled /\ toEncode = 0)
  /\ mpc = "closeWait" => (Asked("Close") /\ toEncode = 0) \/ Settled
  /\ mpc = "openWait" => Asked("Open") \/ Settled
  /\ mpc = "reopen" => m_encoder = "none"
  /\ mpc = "init" => m_encoder = "opening"

\* The buffers of the encoder that are in use leave room for one in hand, and an
\* encoder that is not open has nothing.
BuffersFit ==
  /\ m_encoder # "open" => toEncode = 0 /\ used = 0 /\ bits = 0
  /\ toEncode + used <= AllocBufs
  /\ mInputBufferStep = "ADD_BUFFER_TO_ENC" => toEncode + used < AllocBufs
  /\ mInputBufferStep = "GET_ALLOCBUFFER" => mInBufHdr \in InHdrs
  /\ mpc = "eosWait" => m_inBufEos /\ mInputBufferStep = "GET_INPUTBUFFER"

IInv == TypeOK /\ Handshake /\ BuffersFit

\* A list that is empty, one that a header joins and one that loses its first.
LEMMA Lists ==
  ASSUME NEW S
  PROVE  /\ <<>> \in Seq(S)
         /\ \A s \in Seq(S), e \in S : Append(s, e) \in Seq(S)
         /\ \A s \in Seq(S) : s # <<>> => Head(s) \in S /\ Tail(s) \in Seq(S)
         /\ \A s \in Seq(S) : \A i \in DOMAIN s : s[i] \in S
  OBVIOUS

\* The invariant holds at first.
LEMMA InitIInv == Init => IInv
<1> SUFFICES ASSUME Init PROVE IInv
  OBVIOUS
<1>1. TypeOK
  <2>1. /\ mainQ \in Seq(Messages) /\ vencQ \in Seq(VencCommands)
        /\ inList \in Seq(Entries) /\ outList \in Seq(OutHdrs)
    BY Lists DEF Init
  <2>2. /\ sent \in 0 .. MaxCommands /\ toEncode \in 0 .. AllocBufs /\ used \in 0 .. AllocBufs
        /\ bits \in 0 .. BitRoom /\ m_msg_sem \in 0 .. 1
    BY VencAssumption DEF Init
  <2>3. /\ m_state \in States /\ mInBufHdr \in InHdrs \cup {NoHdr}
        /\ clientIn \subseteq InHdrs /\ clientOut \subseteq OutHdrs
        /\ mInputBufferStep \in {"GET_INPUTBUFFER", "GET_ALLOCBUFFER", "ADD_BUFFER_TO_ENC"}
        /\ mpc = "loop" /\ vpc = "loop" /\ m_encoder = "open"
        /\ enabled = TRUE /\ bPopulated = TRUE /\ m_inBufEos = FALSE /\ nWaitIdle = FALSE
        /\ stepKept = FALSE
    BY DEF Init, States
  <2> QED
    BY <2>1, <2>2, <2>3 DEF TypeOK
<1>2. Handshake /\ BuffersFit
  BY VencAssumption DEF Init, Handshake, BuffersFit, Quiet
<1> QED
  BY <1>1, <1>2 DEF IInv

\* The commands of the main thread: what Append and Tail do to a queue of one.
LEMMA OneCommand ==
  ASSUME NEW c
  PROVE  Append(<<>>, c) = <<c>> /\ Head(<<c>>) = c /\ Tail(<<c>>) = <<>> /\ <<c>> # <<>>
  OBVIOUS

\* The headers of the lists are headers.
LEMMA ListsHoldHeaders ==
  ASSUME TypeOK
  PROVE  InHeaders(inList) \subseteq InHdrs /\ Hdrs(outList) \subseteq OutHdrs
<1>1. \A i \in DOMAIN inList : inList[i] \in Entries
  BY Lists DEF TypeOK
<1>2. \A i \in DOMAIN outList : outList[i] \in OutHdrs
  BY Lists DEF TypeOK
<1> QED
  BY <1>1, <1>2 DEF InHeaders, Hdrs, Entries

\* The client's calls touch neither the handshake nor the encoder.
Calls ==
  /\ UNCHANGED <<m_state, inList, outList, hand, mpc, venc, engine, stepKept>>
  /\ sent' \in 0 .. MaxCommands
  /\ clientIn' \subseteq InHdrs /\ clientOut' \subseteq OutHdrs
  /\ enabled' \in BOOLEAN /\ bPopulated' \in BOOLEAN
  /\ mainQ' \in Seq(Messages)

LEMMA ClientCalls ==
  ASSUME IInv, Client
  PROVE  Calls
<1> USE DEF IInv, TypeOK, client, port, Calls
<1>1. ASSUME NEW c \in Commands, SendCommand(c) PROVE Calls
  <2>1. c \in Messages /\ mainQ' \in Seq(Messages)
    BY <1>1, VencAssumption, Lists DEF SendCommand, Messages
  <2> QED
    BY <1>1, <2>1, VencAssumption DEF SendCommand
<1>2. ASSUME NEW h \in InHdrs, NEW k \in Kinds, EmptyThisBuffer(h, k) PROVE Calls
  <2>1. [id |-> "empty", hdr |-> h, kind |-> k] \in Messages
    BY DEF Messages
  <2>2. mainQ' \in Seq(Messages)
    BY <1>2, <2>1, Lists DEF EmptyThisBuffer
  <2> QED
    BY <1>2, <2>2 DEF EmptyThisBuffer
<1>3. ASSUME NEW h \in OutHdrs, FillThisBuffer(h) PROVE Calls
  <2>1. [id |-> "fill", hdr |-> h] \in Messages
    BY DEF Messages
  <2>2. mainQ' \in Seq(Messages)
    BY <1>3, <2>1, Lists DEF FillThisBuffer
  <2> QED
    BY <1>3, <2>2 DEF FillThisBuffer
<1>4. CASE FreeBuffers
  BY <1>4 DEF FreeBuffers
<1>5. CASE UseBuffers
  BY <1>5 DEF UseBuffers
<1> QED
  BY <1>1, <1>2, <1>3, <1>4, <1>5 DEF Client

LEMMA ClientIInv ==
  ASSUME IInv, Client
  PROVE  IInv'
<1>1. Calls
  BY ClientCalls
<1>2. TypeOK'
  BY <1>1 DEF Calls, IInv, TypeOK, hand, venc, engine
<1>3. Handshake' /\ BuffersFit'
  BY <1>1 DEF Calls, IInv, Handshake, BuffersFit, Quiet, Asked, Settled, IsWaiting,
     hand, venc, engine
<1> QED
  BY <1>2, <1>3 DEF IInv

\* What a message is, by its id.
LEMMA MessageKinds ==
  ASSUME NEW m \in Messages
  PROVE  /\ m.id \in {"state", "stop_port", "restart_port", "flush", "empty", "fill"}
         /\ m.id = "state" => m.to \in States
         /\ m.id = "empty" => [hdr |-> m.hdr, kind |-> m.kind] \in Entries
         /\ m.id = "fill" => m.hdr \in OutHdrs
<1>1. CASE m \in [id : {"state"}, to : States]
  BY <1>1
<1>2. CASE m \in [id : {"stop_port", "restart_port", "flush"}]
  BY <1>2
<1>3. CASE m \in [id : {"empty"}, hdr : InHdrs, kind : Kinds]
  BY <1>3 DEF Entries
<1>4. CASE m \in [id : {"fill"}, hdr : OutHdrs]
  BY <1>4
<1> QED
  BY <1>1, <1>2, <1>3, <1>4 DEF Messages, AllCommands

\* A message is carried out: the state, the lists, and at most one question.
Carried ==
  /\ clientIn' \subseteq InHdrs /\ clientOut' \subseteq OutHdrs
  /\ enabled' \in BOOLEAN /\ m_state' \in States
  /\ inList' \in Seq(Entries) /\ outList' \in Seq(OutHdrs)
  /\ \/ mpc' \in {"round", "freeWait", "populateWait"} /\ vencQ' = vencQ
     \/ mpc' = "idleWait" /\ vencQ' = Append(vencQ, "Enc_Idle")
     \/ mpc' = "openWait" /\ vencQ' = Append(vencQ, "Open")

LEMMA FlushKeepsTypes ==
  ASSUME TypeOK, FlushLists({})
  PROVE  /\ clientIn' \subseteq InHdrs /\ clientOut' \subseteq OutHdrs
         /\ inList' \in Seq(Entries) /\ outList' \in Seq(OutHdrs)
  BY ListsHoldHeaders, Lists DEF FlushLists, TypeOK

LEMMA ToStateCarries ==
  ASSUME TypeOK, NEW s \in States, ToState(s), UNCHANGED enabled
  PROVE  Carried
<1> USE DEF TypeOK, Carried, States
<1>1. CASE s = m_state
  BY <1>1 DEF ToState
<1>2. CASE s = "Idle" /\ s # m_state
  BY <1>2 DEF ToState, PostAndWait
<1>3. CASE s = "Executing" /\ s # m_state
  <2>1. CASE m_state = "Pause"
    BY <1>3, <2>1, FlushKeepsTypes DEF ToState, PostAndWait
  <2>2. CASE m_state # "Pause"
    BY <1>3, <2>2 DEF ToState, PostAndWait
  <2> QED
    BY <2>1, <2>2
<1>4. CASE s = "Pause" /\ s # m_state
  BY <1>4 DEF ToState
<1> QED
  BY <1>1, <1>2, <1>3, <1>4

LEMMA CarryCarries ==
  ASSUME TypeOK, NEW m \in Messages, Carry(m)
  PROVE  Carried
<1>1. CASE m.id = "state" /\ ToState(m.to) /\ UNCHANGED enabled
  BY <1>1, MessageKinds, ToStateCarries
<1>2. CASE m.id \in {"stop_port", "flush"}
  BY <1>2, FlushKeepsTypes DEF Carry, Carried, TypeOK
<1>3. CASE m.id = "restart_port"
  BY <1>3 DEF Carry, Carried, TypeOK
<1>4. CASE m.id = "empty"
  <2>1. inList' \in Seq(Entries)
    <3>1. inList' = Append(inList, [hdr |-> m.hdr, kind |-> m.kind])
      BY <1>4 DEF Carry
    <3>2. [hdr |-> m.hdr, kind |-> m.kind] \in Entries
      BY <1>4, MessageKinds
    <3> QED
      BY <3>1, <3>2, Lists DEF TypeOK
  <2> QED
    BY <1>4, <2>1 DEF Carry, Carried, TypeOK
<1>5. CASE m.id = "fill"
  <2>1. outList' \in Seq(OutHdrs)
    <3>1. outList' = Append(outList, m.hdr)
      BY <1>5 DEF Carry
    <3>2. m.hdr \in OutHdrs
      BY <1>5, MessageKinds
    <3> QED
      BY <3>1, <3>2, Lists DEF TypeOK
  <2> QED
    BY <1>5, <2>1 DEF Carry, Carried, TypeOK
<1> QED
  BY <1>1, <1>2, <1>3, <1>4, <1>5 DEF Carry

LEMMA TakeMessageIInv ==
  ASSUME IInv, TakeMessage
  PROVE  IInv'
<1>1. Head(mainQ) \in Messages /\ mainQ' \in Seq(Messages)
  BY Lists DEF IInv, TypeOK, TakeMessage
<1>2. Carried
  BY <1>1, CarryCarries DEF IInv, TakeMessage
<1>3. Quiet /\ UNCHANGED <<sent, bPopulated, hand, vpc, nWaitIdle, m_msg_sem, engine, stepKept>>
  BY DEF IInv, Handshake, TakeMessage
<1>4. vencQ' \in {<<>>, <<"Enc_Idle">>, <<"Open">>}
  BY <1>2, <1>3, OneCommand DEF Carried, Quiet
<1>5. TypeOK'
  <2>1. vencQ' \in Seq(VencCommands)
    <3>1. \A c \in VencCommands : <<c>> \in Seq(VencCommands)
      OBVIOUS
    <3> QED
      BY <1>4, <3>1, Lists DEF VencCommands
  <2>2. mpc' \in {"round", "freeWait", "populateWait", "idleWait", "openWait"}
    BY <1>2 DEF Carried
  <2> QED
    BY <1>1, <1>2, <1>3, <2>1, <2>2 DEF Carried, IInv, TypeOK, hand, engine
<1>6. Handshake'
  BY <1>2, <1>3, OneCommand DEF Carried, Handshake, Quiet, Asked, Settled, IsWaiting
<1>7. BuffersFit'
  BY <1>2, <1>3 DEF Carried, IInv, BuffersFit, hand, engine
<1> QED
  BY <1>5, <1>6, <1>7 DEF IInv

\* The steps of the main thread that take an answer.
LEMMA AnsweredIInv ==
  ASSUME IInv, IdleAnswered \/ CloseAnswered \/ OpenAnswered
  PROVE  IInv'
<1>1. CASE IdleAnswered
  <2>1. Settled /\ toEncode = 0
    BY <1>1 DEF IInv, Handshake, IdleAnswered, Answered, Asked, IsWaiting
  <2>2. vencQ' = <<"Close">> /\ m_msg_sem' = 0 /\ mpc' = "closeWait"
    BY <1>1, <2>1, OneCommand DEF IdleAnswered, Answered, PostAndWait, Settled
  <2>3. /\ clientIn' \subseteq InHdrs /\ clientOut' \subseteq OutHdrs
        /\ inList' \in Seq(Entries) /\ outList' \in Seq(OutHdrs)
    BY <1>1, ListsHoldHeaders, Lists DEF IInv, TypeOK, BuffersFit, IdleAnswered, FlushLists
  <2>4. TypeOK'
    <3>1. vencQ' \in Seq(VencCommands)
      <4>1. \A c \in VencCommands : <<c>> \in Seq(VencCommands)
        OBVIOUS
      <4> QED
        BY <2>2, <4>1 DEF VencCommands
    <3> QED
      BY <1>1, <2>2, <2>3, <3>1 DEF IInv, TypeOK, IdleAnswered, port, hand, engine
  <2>5. Handshake' /\ BuffersFit'
    BY <1>1, <2>1, <2>2 DEF IInv, Handshake, BuffersFit, Asked, Settled, IdleAnswered,
       hand, engine
  <2> QED
    BY <2>4, <2>5 DEF IInv
<1>2. CASE CloseAnswered \/ OpenAnswered
  <2>1. Settled
    BY <1>2 DEF IInv, Handshake, CloseAnswered, OpenAnswered, Answered, Asked, TypeOK
  <2>2. /\ mpc' \in {"settle", "round"} /\ m_msg_sem' = 0
        /\ UNCHANGED <<client, port, mainQ, inList, outList, hand, vencQ, vpc, nWaitIdle, engine,
                       stepKept>>
    BY <1>2, <2>1 DEF CloseAnswered, OpenAnswered, Answered, Settled
  <2>3. TypeOK'
    BY <2>2 DEF IInv, TypeOK, client, port, hand, engine
  <2>4. Handshake' /\ BuffersFit'
    BY <2>1, <2>2 DEF IInv, Handshake, BuffersFit, Quiet, Settled, hand, engine
  <2> QED
    BY <2>3, <2>4 DEF IInv
<1> QED
  BY <1>1, <1>2

\* Its steps that wait for nobody.
LEMMA PlainIInv ==
  ASSUME IInv, NoMessage \/ Settle \/ Freed \/ SkipRound
  PROVE  IInv'
<1>1. /\ UNCHANGED <<client, enabled, bPopulated, mainQ, inList, outList, hand, venc, engine,
                     stepKept>>
      /\ m_state' \in {m_state, "Idle"} /\ mpc' \in {"round", "loop"} /\ Quiet
  BY DEF IInv, TypeOK, Handshake, NoMessage, Settle, Freed, SkipRound, port
<1>2. TypeOK'
  BY <1>1 DEF IInv, TypeOK, States, client, hand, venc, engine
<1>3. Handshake' /\ BuffersFit'
  BY <1>1 DEF IInv, Handshake, BuffersFit, Quiet, hand, venc, engine
<1> QED
  BY <1>2, <1>3 DEF IInv

LEMMA ReopenIInv ==
  ASSUME IInv, ReopenCloses \/ ReopenCreates \/ ReopenInits
  PROVE  IInv'
<1>1. /\ UNCHANGED <<client, port, mainQ, inList, outList, hand, venc, stepKept>>
      /\ mpc' \in {"reopen", "init", "round"} /\ Quiet
      /\ m_encoder' \in {"none", "opening", "open", "dead"}
      /\ mpc' = "reopen" => m_encoder' = "none"
      /\ mpc' = "init" => m_encoder' = "opening"
      /\ toEncode' = 0 /\ used' = 0 /\ bits' = 0
  BY DEF IInv, Handshake, BuffersFit, ReopenCloses, ReopenCreates, ReopenInits, openVencDriver
<1>2. TypeOK'
  BY <1>1, VencAssumption DEF IInv, TypeOK, client, port, hand, venc
<1>3. Handshake' /\ BuffersFit'
  BY <1>1, VencAssumption DEF IInv, Handshake, BuffersFit, Quiet, hand, venc
<1> QED
  BY <1>2, <1>3 DEF IInv

LEMMA StartRoundIInv ==
  ASSUME IInv, StartRound
  PROVE  IInv'
<1>1. /\ UNCHANGED <<client, port, mainQ, inList, outList, hand, vpc, nWaitIdle, m_msg_sem,
                     engine, stepKept>>
      /\ Quiet
  BY DEF IInv, Handshake, StartRound
<1>2. CASE EndOfInput
  <2>1. vencQ' = <<"Enc_Idle">> /\ mpc' = "eosWait"
    BY <1>1, <1>2, OneCommand DEF StartRound, PostAndWait, Quiet
  <2>2. TypeOK'
    <3>1. vencQ' \in Seq(VencCommands)
      <4>1. \A c \in VencCommands : <<c>> \in Seq(VencCommands)
        OBVIOUS
      <4> QED
        BY <2>1, <4>1 DEF VencCommands
    <3> QED
      BY <1>1, <2>1, <3>1 DEF IInv, TypeOK, client, port, hand, engine
  <2>3. Handshake' /\ BuffersFit'
    BY <1>1, <1>2, <2>1 DEF IInv, Handshake, BuffersFit, Quiet, Asked, EndOfInput, hand, engine
  <2> QED
    BY <2>2, <2>3 DEF IInv
<1>3. CASE ~EndOfInput
  <2>1. vencQ' = vencQ /\ mpc' = "input"
    BY <1>3 DEF StartRound
  <2>2. TypeOK'
    BY <1>1, <2>1 DEF IInv, TypeOK, client, port, hand, engine
  <2>3. Handshake' /\ BuffersFit'
    BY <1>1, <2>1 DEF IInv, Handshake, BuffersFit, Quiet, hand, engine
  <2> QED
    BY <2>2, <2>3 DEF IInv
<1> QED
  BY <1>2, <1>3

\* The steps that give an output header.
LEMMA GiveIInv ==
  ASSUME IInv, NEW left \in BOOLEAN, NEW config \in BOOLEAN,
         EosAnswered(left) \/ Output(left, config)
  PROVE  IInv'
<1>1. clientOut' \subseteq OutHdrs /\ outList' \in Seq(OutHdrs)
  <2>1. outList # <<>> => Head(outList) \in OutHdrs /\ Tail(outList) \in Seq(OutHdrs)
    BY Lists DEF IInv, TypeOK
  <2> QED
    BY <2>1 DEF IInv, TypeOK, EosAnswered, Output
<1>2. CASE EosAnswered(left)
  <2>1. Settled /\ toEncode = 0
    BY <1>2 DEF IInv, Handshake, EosAnswered, Answered, Asked, IsWaiting
  <2>2. /\ m_msg_sem' = 0 /\ mpc' = "input" /\ m_inBufEos' \in BOOLEAN
        /\ UNCHANGED <<sent, clientIn, port, mainQ, inList, mInBufHdr, mInputBufferStep, vencQ, vpc,
                       nWaitIdle, engine, stepKept>>
    <3>1. m_msg_sem' = 0
      BY <1>2, <2>1 DEF EosAnswered, Answered, Settled
    <3>2. m_inBufEos' \in BOOLEAN
      <4>1. m_inBufEos' = FALSE \/ m_inBufEos' = m_inBufEos
        BY <1>2 DEF EosAnswered
      <4> QED
        BY <4>1 DEF IInv, TypeOK
    <3> QED
      BY <1>2, <3>1, <3>2 DEF EosAnswered
  <2>3. TypeOK'
    BY <1>1, <2>2 DEF IInv, TypeOK, port, engine
  <2>4. Handshake' /\ BuffersFit'
    BY <2>1, <2>2 DEF IInv, Handshake, BuffersFit, Quiet, Settled, engine
  <2> QED
    BY <2>3, <2>4 DEF IInv
<1>3. CASE Output(left, config)
  <2>1. /\ Quiet /\ mpc' = "loop"
        /\ UNCHANGED <<sent, clientIn, port, mainQ, inList, hand, venc, m_encoder, toEncode, used,
                       stepKept>>
    BY <1>3 DEF Output, IInv, Handshake
  <2>2. bits' \in 0 .. BitRoom /\ (m_encoder # "open" => bits' = bits)
    <3>1. bits \in 0 .. BitRoom /\ (bits > 0 => bits - 1 \in 0 .. BitRoom)
      BY VencAssumption DEF IInv, TypeOK
    <3>2. m_encoder = "open" /\ left => bits > 0
      BY <1>3 DEF Output, Answers, BitsLeft
    <3>3. bits' = bits \/ (m_encoder = "open" /\ left /\ bits' = bits - 1)
      BY <1>3 DEF Output
    <3> QED
      BY <3>1, <3>2, <3>3
  <2>3. TypeOK'
    BY <1>1, <2>1, <2>2 DEF IInv, TypeOK, port, hand, venc
  <2>4. Handshake' /\ BuffersFit'
    BY <2>1, <2>2 DEF IInv, Handshake, BuffersFit, Quiet, hand, venc
  <2> QED
    BY <2>3, <2>4 DEF IInv
<1> QED
  BY <1>2, <1>3

\* A sum with a smaller part keeps its bounds.
LEMMA SumBound ==
  ASSUME NEW a \in Nat, NEW b \in Nat, NEW c \in Nat, NEW n \in Nat, c <= b
  PROVE  (a + b <= n => a + c <= n) /\ (a + b < n => a + c < n)
  OBVIOUS

LEMMA TakeBackIInv ==
  ASSUME IInv, TakeBack
  PROVE  IInv'
<1>1. /\ Quiet /\ mpc' = "output" /\ used' \in 0 .. AllocBufs /\ used' <= used
      /\ UNCHANGED <<client, port, mainQ, inList, outList, hand, venc, m_encoder, toEncode, bits,
                     stepKept>>
  BY VencAssumption DEF TakeBack, IInv, TypeOK, Handshake
<1>2. TypeOK'
  BY <1>1 DEF IInv, TypeOK, client, port, hand, venc
<1>3. Handshake'
  BY <1>1 DEF Handshake, Quiet, venc
<1>4. BuffersFit'
  <2>1. /\ toEncode \in Nat /\ used \in Nat /\ used' \in Nat
        /\ toEncode' = toEncode /\ used' <= used
    <3>1. \A i \in 0 .. AllocBufs : i \in Nat
      BY VencAssumption
    <3> QED
      BY <1>1, <3>1 DEF IInv, TypeOK
  <2>2. mpc' = "output" /\ UNCHANGED hand
    BY <1>1
  <2>3. /\ mInputBufferStep' = "GET_ALLOCBUFFER" => mInBufHdr' \in InHdrs
        /\ mpc' # "eosWait"
    BY <2>2 DEF IInv, BuffersFit, hand
  <2>4. /\ toEncode' + used' <= AllocBufs
        /\ mInputBufferStep' = "ADD_BUFFER_TO_ENC" => toEncode' + used' < AllocBufs
    <3>1. /\ toEncode + used <= AllocBufs /\ mInputBufferStep' = mInputBufferStep
          /\ mInputBufferStep = "ADD_BUFFER_TO_ENC" => toEncode + used < AllocBufs
      BY <2>2 DEF IInv, BuffersFit, hand
    <3>2. AllocBufs \in Nat
      BY VencAssumption
    <3> QED
      BY <2>1, <3>1, <3>2, SumBound
  <2>5. m_encoder' # "open" => toEncode' = 0 /\ used' = 0 /\ bits' = 0
    BY <2>1, <1>1 DEF IInv, BuffersFit
  <2> QED
    BY <2>3, <2>4, <2>5 DEF BuffersFit
<1> QED
  BY <1>2, <1>3, <1>4 DEF IInv

\* A frame taken: it is in the encoder, in hand, or there was none.
LEMMA InputIInv ==
  ASSUME IInv, NEW free \in BOOLEAN, NEW accepted \in BOOLEAN, Input(free, accepted)
  PROVE  IInv'
<1> DEFINE Fits ==
      /\ toEncode' \in 0 .. AllocBufs /\ toEncode' + used <= AllocBufs
      /\ mInputBufferStep' \in {"GET_INPUTBUFFER", "GET_ALLOCBUFFER", "ADD_BUFFER_TO_ENC"}
      /\ mInBufHdr' \in InHdrs \cup {NoHdr}
      /\ mInputBufferStep' = "ADD_BUFFER_TO_ENC" => toEncode' + used < AllocBufs
      /\ mInputBufferStep' = "GET_ALLOCBUFFER" => mInBufHdr' \in InHdrs
      /\ m_inBufEos' \in BOOLEAN
      /\ m_encoder # "open" => toEncode' = 0
      /\ clientIn' \subseteq InHdrs /\ inList' \in Seq(Entries)
<1>0. free => toEncode + used < AllocBufs
  <2>1. m_encoder # "open" => toEncode = 0 /\ used = 0
    BY DEF IInv, BuffersFit
  <2>2. m_encoder = "open" /\ free => toEncode + used < AllocBufs
    BY DEF Input, Answers, FreeBuf
  <2> QED
    BY <2>1, <2>2, VencAssumption
<1>1. ASSUME toEncode + used < AllocBufs, AddFrame(accepted)
      PROVE  /\ toEncode' \in 0 .. AllocBufs /\ toEncode' + used <= AllocBufs
             /\ mInputBufferStep' \in {"GET_INPUTBUFFER", "ADD_BUFFER_TO_ENC"}
             /\ mInBufHdr' \in InHdrs \cup {NoHdr}
             /\ mInputBufferStep' = "ADD_BUFFER_TO_ENC" => toEncode' + used < AllocBufs
             /\ m_encoder # "open" => toEncode' = 0
  <2>1. /\ toEncode' \in {toEncode, toEncode + 1}
        /\ m_encoder # "open" => toEncode' = toEncode
        /\ mInputBufferStep' = "ADD_BUFFER_TO_ENC" => toEncode' = toEncode
        /\ mInputBufferStep' \in {"GET_INPUTBUFFER", "ADD_BUFFER_TO_ENC"}
        /\ mInBufHdr' = NoHdr
    BY <1>1 DEF AddFrame
  <2>2. toEncode \in 0 .. AllocBufs /\ used \in 0 .. AllocBufs
    BY DEF IInv, TypeOK
  <2>3. toEncode' \in 0 .. AllocBufs /\ toEncode' + used <= AllocBufs
    <3>1. CASE toEncode' = toEncode
      BY <1>1, <2>2, <3>1, VencAssumption
    <3>2. CASE toEncode' = toEncode + 1
      BY <1>1, <2>2, <3>2, VencAssumption
    <3> QED
      BY <2>1, <3>1, <3>2
  <2>4. m_encoder # "open" => toEncode' = 0
    BY <2>1 DEF IInv, BuffersFit
  <2>5. mInputBufferStep' = "ADD_BUFFER_TO_ENC" => toEncode' + used < AllocBufs
    BY <1>1, <2>1
  <2> QED
    BY <2>1, <2>3, <2>4, <2>5
<1>2. ASSUME NoInput PROVE Fits
  BY <1>2 DEF NoInput, IInv, TypeOK, BuffersFit, hand
<1>3. ASSUME TakeInput(free, accepted) PROVE Fits
  <2>1. Head(inList) \in Entries /\ Tail(inList) \in Seq(Entries)
    BY <1>3, Lists DEF TakeInput, IInv, TypeOK
  <2>2. /\ Head(inList).hdr \in InHdrs
        /\ inList' = Tail(inList) /\ m_inBufEos' \in BOOLEAN /\ clientIn' \subseteq InHdrs
    BY <1>3, <2>1 DEF TakeInput, Entries, IInv, TypeOK
  <2>3. CASE Head(inList).kind # "end" /\ ~free
    BY <1>3, <2>1, <2>2, <2>3 DEF TakeInput, IInv, TypeOK, BuffersFit
  <2>4. CASE Head(inList).kind = "end"
    BY <1>3, <2>1, <2>2, <2>4 DEF TakeInput, IInv, TypeOK, BuffersFit
  <2>5. CASE Head(inList).kind # "end" /\ free
    BY <1>0, <1>1, <1>3, <2>1, <2>2, <2>5 DEF TakeInput
  <2> QED
    BY <2>3, <2>4, <2>5
<1>4. ASSUME RetryInput(free, accepted) PROVE Fits
  <2>1. clientIn' \subseteq InHdrs /\ inList' \in Seq(Entries) /\ m_inBufEos' \in BOOLEAN
    BY <1>4 DEF RetryInput, IInv, TypeOK, BuffersFit, hand
  <2>2. CASE mInputBufferStep = "GET_ALLOCBUFFER" /\ ~free
    BY <1>4, <2>1, <2>2 DEF RetryInput, IInv, TypeOK, BuffersFit, hand
  <2>3. CASE AddFrame(accepted) /\ toEncode + used < AllocBufs
    BY <1>1, <2>1, <2>3
  <2> QED
    BY <1>0, <1>4, <2>2, <2>3 DEF RetryInput, IInv, BuffersFit
<1>5. Fits
  BY <1>2, <1>3, <1>4 DEF Input
<1>6. /\ Quiet /\ mpc' = "used"
      /\ UNCHANGED <<sent, clientOut, port, mainQ, outList, venc, m_encoder, used, bits, stepKept>>
  BY DEF Input, IInv, Handshake
<1>7. TypeOK'
  BY <1>5, <1>6 DEF IInv, TypeOK, port, venc
<1>8. Handshake' /\ BuffersFit'
  BY <1>5, <1>6 DEF IInv, Handshake, BuffersFit, Quiet, venc
<1> QED
  BY <1>7, <1>8 DEF IInv

\* The encoding thread takes the one command there is, and answers once.
LEMMA VencIInv ==
  ASSUME IInv, Venc
  PROVE  IInv'
<1>1. CASE VencCommand
  <2>1. /\ UNCHANGED <<client, port, mainQ, inList, outList, hand, mpc, stepKept>>
        /\ vpc' = "test" /\ m_msg_sem = 0 /\ ~nWaitIdle /\ vencQ' = <<>>
    BY <1>1, OneCommand DEF VencCommand, IInv, Handshake, Quiet, Asked, Settled, IsWaiting, TypeOK
  <2>2. CASE Head(vencQ) = "Open"
    <3>1. Asked("Open") /\ mpc = "openWait"
      BY <1>1, <2>2, OneCommand
      DEF VencCommand, IInv, Handshake, Quiet, Asked, Settled, IsWaiting, TypeOK
    <3>2. /\ m_encoder' \in {"none", "opening", "open", "dead"} /\ m_msg_sem' = 1
          /\ m_encoder' = m_encoder \/ m_encoder = "none"
          /\ UNCHANGED <<nWaitIdle, toEncode, used, bits>>
      BY <1>1, <2>1, <2>2 DEF VencCommand, openVencDriver, Answer, IInv, TypeOK
    <3>3. TypeOK'
      BY <2>1, <3>2, Lists DEF IInv, TypeOK, client, port, hand
    <3>4. Handshake' /\ BuffersFit'
      BY <2>1, <3>1, <3>2 DEF IInv, Handshake, BuffersFit, Settled, hand
    <3> QED
      BY <3>3, <3>4 DEF IInv
  <2>3. CASE Head(vencQ) = "Close"
    <3>1. Asked("Close") /\ mpc = "closeWait"
      BY <1>1, <2>3, OneCommand
      DEF VencCommand, IInv, Handshake, Quiet, Asked, Settled, IsWaiting, TypeOK
    <3>2. /\ m_encoder' = "none" /\ m_msg_sem' = 1 /\ nWaitIdle' = nWaitIdle
          /\ toEncode' = 0 /\ used' = 0 /\ bits' = 0
      BY <1>1, <2>1, <2>3 DEF VencCommand, Answer, NoAnswer
    <3>3. TypeOK'
      BY <2>1, <3>2, Lists, VencAssumption DEF IInv, TypeOK, client, port, hand
    <3>4. Handshake' /\ BuffersFit'
      BY <2>1, <3>1, <3>2, VencAssumption DEF IInv, Handshake, BuffersFit, Settled, hand
    <3> QED
      BY <3>3, <3>4 DEF IInv
  <2>4. CASE Head(vencQ) = "Enc_Idle"
    <3>1. Asked("Enc_Idle") /\ mpc \in {"idleWait", "eosWait"}
      BY <1>1, <2>4, OneCommand
      DEF VencCommand, IInv, Handshake, Quiet, Asked, Settled, IsWaiting, TypeOK
    <3>2. nWaitIdle' = TRUE /\ m_msg_sem' = m_msg_sem /\ UNCHANGED engine
      BY <1>1, <2>4 DEF VencCommand, NoAnswer
    <3>3. TypeOK'
      BY <2>1, <3>2, Lists DEF IInv, TypeOK, client, port, hand, engine
    <3>4. Handshake' /\ BuffersFit'
      BY <2>1, <3>1, <3>2 DEF IInv, Handshake, BuffersFit, IsWaiting, hand, engine
    <3> QED
      BY <3>3, <3>4 DEF IInv
  <2> QED
    BY <1>1, <2>2, <2>3, <2>4 DEF VencCommand
<1>2. CASE VencTest
  <2>1. /\ UNCHANGED <<client, port, mainQ, inList, outList, hand, mpc, vencQ, nWaitIdle, m_msg_sem,
                       engine, stepKept>>
        /\ vpc' \in {"encode", "loop"}
    BY <1>2 DEF VencTest
  <2>2. TypeOK'
    BY <2>1 DEF IInv, TypeOK, client, port, hand, engine
  <2>3. Handshake' /\ BuffersFit'
    BY <2>1 DEF IInv, Handshake, BuffersFit, Quiet, Asked, Settled, IsWaiting, hand, engine
  <2> QED
    BY <2>2, <2>3 DEF IInv
<1>3. ASSUME NEW noFrame \in BOOLEAN, VencEncode(noFrame) PROVE IInv'
  <2>1. /\ UNCHANGED <<client, port, mainQ, inList, outList, hand, mpc, vencQ, m_encoder, stepKept>>
        /\ vpc' = "loop"
    BY <1>3 DEF VencEncode
  <2>2. /\ toEncode' \in 0 .. AllocBufs /\ used' \in 0 .. AllocBufs /\ bits' \in 0 .. BitRoom
        /\ toEncode' + used' = toEncode + used
        /\ toEncode = 0 => toEncode' = 0
        /\ m_encoder # "open" => toEncode' = 0 /\ used' = 0 /\ bits' = 0
    BY <1>3, VencAssumption DEF VencEncode, Full, IInv, TypeOK, BuffersFit
  <2>3. CASE nWaitIdle /\ noFrame
    <3>0. toEncode = 0
      <4>1. CASE m_encoder = "open"
        BY <1>3, <2>3, <4>1 DEF VencEncode, Answers, NoFrame
      <4>2. CASE m_encoder # "open"
        BY <4>2 DEF IInv, BuffersFit
      <4> QED
        BY <4>1, <4>2
    <3>1. IsWaiting /\ mpc \in {"idleWait", "eosWait"}
      BY <2>3 DEF IInv, Handshake, Quiet, Asked, Settled, IsWaiting, TypeOK
    <3>2. nWaitIdle' = FALSE /\ m_msg_sem' = 1
      BY <1>3, <2>3, <3>1 DEF VencEncode, Answer, IsWaiting
    <3>3. TypeOK'
      <4>1. nWaitIdle' \in BOOLEAN
        BY <3>2
      <4>2. m_msg_sem' \in 0 .. 1
        BY <3>2
      <4> QED
        BY <2>1, <2>2, <4>1, <4>2 DEF IInv, TypeOK, client, port, hand
    <3>4. Handshake' /\ BuffersFit'
      BY <2>1, <2>2, <3>0, <3>1, <3>2 DEF IInv, Handshake, BuffersFit, Settled, IsWaiting, hand
    <3> QED
      BY <3>3, <3>4 DEF IInv
  <2>4. CASE ~(nWaitIdle /\ noFrame)
    <3>1. UNCHANGED <<nWaitIdle, m_msg_sem>>
      BY <1>3, <2>4 DEF VencEncode, NoAnswer
    <3>2. TypeOK'
      BY <2>1, <2>2, <3>1 DEF IInv, TypeOK, client, port, hand
    <3>3. Handshake' /\ BuffersFit'
      BY <2>1, <2>2, <3>1 DEF IInv, Handshake, BuffersFit, Quiet, Asked, Settled, IsWaiting, hand
    <3> QED
      BY <3>2, <3>3 DEF IInv
  <2> QED
    BY <2>3, <2>4
<1> QED
  BY <1>1, <1>2, <1>3 DEF Venc

LEMMA NextIInv == IInv /\ [Next]_vars => IInv'
<1> SUFFICES ASSUME IInv, [Next]_vars PROVE IInv'
  OBVIOUS
<1>1. CASE Client
  BY <1>1, ClientIInv
<1>2. CASE Main
  BY <1>2, TakeMessageIInv, AnsweredIInv, PlainIInv, ReopenIInv, StartRoundIInv, GiveIInv,
     InputIInv, TakeBackIInv DEF Main
<1>3. CASE Venc
  BY <1>3, VencIInv
<1>4. CASE UNCHANGED vars
  BY <1>4 DEF IInv, TypeOK, Handshake, BuffersFit, Quiet, Asked, Settled, IsWaiting, vars,
     client, port, hand, venc, engine
<1> QED
  BY <1>1, <1>2, <1>3, <1>4 DEF Next

\* Every state of OmxVenc satisfies the invariant.
LEMMA Invariance == Spec => []IInv
<1> QED
  BY InitIInv, NextIInv, PTL DEF Spec

\* The variables of the component keep their types: of the semaphore, never more
\* than one answer; of the encoder's buffers, never more than it has
\* (post_message_to_venc_and_wait, dealWithInputBuffer).
THEOREM TypeCorrect == Spec => []TypeOK
<1>1. IInv => TypeOK
  BY DEF IInv
<1> QED
  BY <1>1, Invariance, PTL

\* One step.
LEMMA StepCutsNothing == IInv /\ [Next]_vars => CutsNothing
<1> SUFFICES ASSUME IInv, [Next]_vars PROVE CutsNothing
  OBVIOUS
<1>1. CASE UNCHANGED <<m_encoder, m_inBufEos>>
  BY <1>1 DEF CutsNothing
<1>2. ASSUME NEW left \in BOOLEAN, EosAnswered(left) PROVE CutsNothing
  <2>1. toEncode = 0 /\ mInputBufferStep = "GET_INPUTBUFFER" /\ m_encoder' = m_encoder
    BY <1>2 DEF IInv, Handshake, BuffersFit, EosAnswered, Answered, Asked, IsWaiting, engine
  <2>2. m_inBufEos' = m_inBufEos \/ bits = 0
    <3>1. CASE left
      BY <1>2, <3>1 DEF EosAnswered
    <3>2. CASE ~left /\ m_encoder = "open"
      <4>1. ~(bits > 0)
        BY <1>2, <3>2 DEF EosAnswered, Answers, BitsLeft
      <4> QED
        BY <4>1, VencAssumption DEF IInv, TypeOK
    <3>3. CASE m_encoder # "open"
      BY <3>3 DEF IInv, BuffersFit
    <3> QED
      BY <3>1, <3>2, <3>3
  <2> QED
    BY <2>1, <2>2 DEF CutsNothing
<1>3. CASE ReopenCloses
  BY <1>3 DEF ReopenCloses, CutsNothing, hand
<1>4. CASE ReopenCreates \/ ReopenInits
  <2>1. m_inBufEos' = m_inBufEos
    BY <1>4 DEF ReopenCreates, ReopenInits, hand
  <2>2. m_encoder # "open"
    BY <1>4 DEF ReopenCreates, ReopenInits, IInv, Handshake
  <2> QED
    BY <2>1, <2>2 DEF CutsNothing
<1>5. CASE \E free, accepted \in BOOLEAN : Input(free, accepted)
  BY <1>5 DEF Input, NoInput, TakeInput, RetryInput, CutsNothing, hand, IInv, TypeOK
<1>6. CASE VencCommand
  <2>1. m_inBufEos' = m_inBufEos /\ vpc = "loop"
    BY <1>6 DEF VencCommand, hand
  <2>2. CASE Head(vencQ) = "Close"
    <3>1. toEncode = 0
      BY <1>6, <2>2, OneCommand
      DEF VencCommand, IInv, Handshake, Quiet, Asked, Settled, IsWaiting, TypeOK
    <3> QED
      BY <2>1, <3>1 DEF CutsNothing
  <2>3. CASE Head(vencQ) # "Close"
    BY <1>6, <2>1, <2>3 DEF VencCommand, CutsNothing, engine
  <2> QED
    BY <2>2, <2>3
<1>7. CASE Client
  <2>1. Calls
    BY <1>7, ClientCalls
  <2> QED
    BY <1>1, <2>1 DEF Calls, hand, engine
<1> QED
  <2>1. CASE TakeMessage \/ NoMessage \/ IdleAnswered \/ CloseAnswered \/ Settle \/ OpenAnswered
               \/ Freed
    BY <1>1, <2>1 DEF TakeMessage, NoMessage, IdleAnswered, CloseAnswered, Settle, OpenAnswered,
       Freed, hand, engine
  <2>2. CASE \/ SkipRound \/ StartRound \/ TakeBack \/ VencTest
             \/ \E left, config \in BOOLEAN : Output(left, config)
             \/ \E noFrame \in BOOLEAN : VencEncode(noFrame)
    BY <1>1, <2>2 DEF SkipRound, StartRound, TakeBack, Output, VencTest, VencEncode, hand, engine
  <2>3. CASE UNCHANGED vars
    BY <1>1, <2>3 DEF vars, hand, engine
  <2> QED
    BY <1>2, <1>3, <1>4, <1>5, <1>6, <1>7, <2>1, <2>2, <2>3 DEF Next, Main, Venc

\* With any number of headers and buffers the encoder is closed at rest, and the
\* header that says EOS comes after everything taken before it.
THEOREM NothingCutOff == Spec => NothingIsCutOff
<1>1. IInv /\ [Next]_vars => [CutsNothing]_vars
  BY StepCutsNothing
<1>2. Spec => [][CutsNothing]_vars
  BY <1>1, Invariance, PTL DEF Spec
<1> QED
  BY <1>2 DEF NothingIsCutOff

\* A wait for Enc_Idle that no call of the encoder can answer any more never ends:
\* the main thread, which waits, alone changes the state and takes the bitstream
\* away, and the encoding thread finds only this question in its queue.
THEOREM HangsForGood == Spec => StuckForGood
<1>1. ASSUME IInv, [Next]_vars, Stuck PROVE Stuck'
  <2>1. /\ mpc \in {"idleWait", "eosWait"} /\ m_msg_sem = 0
        /\ Full \/ (vpc # "encode" /\ (m_state # "Executing" \/ m_encoder = "none"))
    BY <1>1 DEF Stuck
  <2>2. vencQ # <<>> => Head(vencQ) = "Enc_Idle"
    BY <1>1, <2>1, OneCommand DEF IInv, Handshake, Asked, Settled, IsWaiting
  <2>3. ~Main
    BY <2>1
    DEF Main, TakeMessage, NoMessage, IdleAnswered, CloseAnswered, Settle, OpenAnswered, Freed,
        ReopenCloses, ReopenCreates, ReopenInits, SkipRound, StartRound, EosAnswered, Input, TakeBack, Output,
        Answered
  <2>4. CASE Client \/ UNCHANGED vars
    <3>1. UNCHANGED <<mpc, venc, engine, m_state>>
      BY <2>4
      DEF Client, SendCommand, EmptyThisBuffer, FillThisBuffer, FreeBuffers, UseBuffers, vars, port
    <3> QED
      BY <2>1, <3>1 DEF Stuck, Full, venc, engine
  <2>5. CASE VencCommand
    <3>1. /\ vpc' = "test" /\ UNCHANGED <<mpc, m_state, m_msg_sem, engine>>
      BY <2>2, <2>5 DEF VencCommand, NoAnswer, port
    <3> QED
      BY <2>1, <2>5, <3>1 DEF VencCommand, Stuck, Full, engine
  <2>6. CASE VencTest
    <3>1. /\ UNCHANGED <<mpc, m_state, m_msg_sem, engine>>
          /\ vpc' = IF m_state = "Executing" /\ m_encoder # "none" THEN "encode" ELSE "loop"
      BY <2>6 DEF VencTest, port
    <3> QED
      BY <2>1, <3>1 DEF Stuck, Full, engine
  <2>7. ASSUME NEW noFrame \in BOOLEAN, VencEncode(noFrame) PROVE Stuck'
    <3>1. Full
      BY <2>1, <2>7 DEF VencEncode
    <3>2. toEncode # 0 /\ m_encoder = "open"
      BY <1>1, <3>1 DEF Full, IInv, TypeOK, BuffersFit
    <3>3. ~noFrame
      BY <2>7, <3>2 DEF VencEncode, Answers, NoFrame
    <3>4. UNCHANGED <<mpc, m_msg_sem, toEncode, bits>>
      BY <2>7, <3>1, <3>3 DEF VencEncode, NoAnswer
    <3> QED
      BY <2>1, <3>1, <3>4 DEF Stuck, Full
  <2> QED
    BY <1>1, <2>3, <2>4, <2>5, <2>6, <2>7 DEF Next, Venc
<1>2. Spec => [][Stuck => Stuck']_vars
  <2>1. IInv /\ [Next]_vars => [Stuck => Stuck']_vars
    BY <1>1
  <2> QED
    BY <2>1, Invariance, PTL DEF Spec
<1> QED
  BY <1>2 DEF StuckForGood
-----------------------------------------------------------------------------
(***************************************************************************)
(* Where the headers are.  A sequence has W at the positions Pos(s, W); it *)
(* holds W when there is one, and holds it once when there is no other.    *)
(***************************************************************************)
Pos(s, W)   == {i \in DOMAIN s : s[i] \in W}
Holds(s, W) == Pos(s, W) # {}
Once(s, W)  == \A i, j \in Pos(s, W) : i = j

\* The header h is with the client, which has cl, in the hand hd, in a message of the
\* queue q, where M is what a message about it may be, or in the list l, as one of W.
PlacedOnce(h, cl, hd, q, M, l, W) ==
  /\ Once(q, M) /\ Once(l, W)
  /\ h \in cl \/ h \in hd \/ Holds(q, M) \/ Holds(l, W)
  /\ h \in cl => h \notin hd /\ ~Holds(q, M) /\ ~Holds(l, W)
  /\ h \in hd => ~Holds(q, M) /\ ~Holds(l, W)
  /\ Holds(q, M) => ~Holds(l, W)

MessagesOf(id, h) == {m \in Messages : m.id = id /\ m.hdr = h}
EntriesOf(h) == {e \in Entries : e.hdr = h}

InPlaces(h)  == PlacedOnce(h, clientIn, {mInBufHdr}, mainQ, MessagesOf("empty", h), inList, EntriesOf(h))
OutPlaces(h) == PlacedOnce(h, clientOut, {}, mainQ, MessagesOf("fill", h), outList, {h})

\* Only a header that waits for a buffer of the encoder is in hand.
HandAgrees == mInBufHdr # NoHdr => mInputBufferStep = "GET_ALLOCBUFFER"

InputAgrees  == stepKept \/ (HandAgrees /\ \A h \in InHdrs : InPlaces(h))
OutputAgrees == \A h \in OutHdrs : OutPlaces(h)

HeaderInv == IInv /\ InputAgrees /\ OutputAgrees

LEMMA NothingHeld ==
  ASSUME NEW W
  PROVE  Once(<<>>, W) /\ ~Holds(<<>>, W)
  BY DEF Once, Holds, Pos

LEMMA HoldsAppend ==
  ASSUME NEW S, NEW s \in Seq(S), NEW e \in S, NEW W, Once(s, W)
  PROVE  /\ Holds(Append(s, e), W) <=> Holds(s, W) \/ e \in W
         /\ Holds(s, W) => (e \notin W => Once(Append(s, e), W))
         /\ ~Holds(s, W) => Once(Append(s, e), W)
<1> DEFINE t == Append(s, e)
           n == Len(s)
<1>1. /\ n \in Nat /\ DOMAIN s = 1 .. n /\ DOMAIN t = 1 .. n + 1
      /\ t[n + 1] = e /\ \A i \in 1 .. n : t[i] = s[i]
  OBVIOUS
<1> HIDE DEF t, n
<1>2. \A i : i \in 1 .. n + 1 <=> i \in 1 .. n \/ i = n + 1
  BY <1>1
<1>3. \A i : i \in Pos(t, W) <=> i \in Pos(s, W) \/ (i = n + 1 /\ e \in W)
  BY <1>1, <1>2 DEF Pos
<1>4. Holds(t, W) <=> Holds(s, W) \/ e \in W
  BY <1>3 DEF Holds
<1>5. ASSUME ~Holds(s, W) \/ e \notin W PROVE Once(t, W)
  BY <1>3, <1>5 DEF Once, Holds
<1> QED
  BY <1>4, <1>5 DEF t

LEMMA HoldsTail ==
  ASSUME NEW S, NEW s \in Seq(S), s # <<>>, NEW W, Once(s, W)
  PROVE  /\ Once(Tail(s), W)
         /\ Holds(s, W) <=> Holds(Tail(s), W) \/ Head(s) \in W
         /\ ~(Holds(Tail(s), W) /\ Head(s) \in W)
<1> DEFINE t == Tail(s)
           n == Len(s)
<1>1. /\ n \in Nat \ {0} /\ DOMAIN s = 1 .. n /\ DOMAIN t = 1 .. n - 1
      /\ Head(s) = s[1] /\ \A i \in 1 .. n - 1 : t[i] = s[i + 1]
  OBVIOUS
<1> HIDE DEF t, n
<1>2. \A i \in 1 .. n - 1 : i + 1 \in 1 .. n /\ i + 1 # 1
  BY <1>1
<1>3. \A i \in 1 .. n : i = 1 \/ (i - 1 \in 1 .. n - 1 /\ (i - 1) + 1 = i)
  BY <1>1
<1>4. 1 \in 1 .. n
  BY <1>1
<1>5. \A i \in Pos(t, W) : i \in 1 .. n - 1 /\ i + 1 \in Pos(s, W) /\ i + 1 # 1
  BY <1>1, <1>2 DEF Pos
<1>6. Head(s) \in W <=> 1 \in Pos(s, W)
  BY <1>1, <1>4 DEF Pos
<1>7. \A i \in Pos(s, W) : i = 1 \/ i - 1 \in Pos(t, W)
  BY <1>1, <1>3 DEF Pos
<1>8. Once(t, W)
  <2> SUFFICES ASSUME NEW i \in Pos(t, W), NEW j \in Pos(t, W) PROVE i = j
    BY DEF Once
  <2>1. i + 1 = j + 1 /\ i \in Int /\ j \in Int
    BY <1>5 DEF Once
  <2> QED
    BY <2>1
<1>9. Holds(s, W) <=> Holds(t, W) \/ Head(s) \in W
  BY <1>5, <1>6, <1>7 DEF Holds
<1>10. ~(Holds(t, W) /\ Head(s) \in W)
  BY <1>5, <1>6 DEF Holds, Once
<1> QED
  BY <1>8, <1>9, <1>10 DEF t

\* The moves of a header, each from one place to another: the client sends it, ...
LEMMA Send ==
  ASSUME NEW S, NEW h, NEW cl, NEW hd, NEW q \in Seq(S), NEW M, NEW l, NEW W,
         PlacedOnce(h, cl, hd, q, M, l, W),
         NEW m \in S, NEW g \in cl, m \in M <=> g = h
  PROVE  PlacedOnce(h, cl \ {g}, hd, Append(q, m), M, l, W)
<1>1. Once(q, M)
  BY DEF PlacedOnce
<1>2. g = h => ~Holds(q, M)
  BY DEF PlacedOnce
<1>3. /\ Holds(Append(q, m), M) <=> Holds(q, M) \/ m \in M
      /\ Once(Append(q, m), M)
  BY <1>1, <1>2, HoldsAppend
<1> QED
  BY <1>3 DEF PlacedOnce

\* ... other messages are sent and taken, ...
LEMMA SendOther ==
  ASSUME NEW S, NEW h, NEW cl, NEW hd, NEW q \in Seq(S), NEW M, NEW l, NEW W,
         PlacedOnce(h, cl, hd, q, M, l, W), NEW m \in S, m \notin M
  PROVE  PlacedOnce(h, cl, hd, Append(q, m), M, l, W)
<1>1. Once(q, M)
  BY DEF PlacedOnce
<1>2. (Holds(Append(q, m), M) <=> Holds(q, M)) /\ Once(Append(q, m), M)
  BY <1>1, HoldsAppend
<1> QED
  BY <1>2 DEF PlacedOnce

LEMMA TakeOther ==
  ASSUME NEW S, NEW h, NEW cl, NEW hd, NEW q \in Seq(S), NEW M, NEW l, NEW W,
         PlacedOnce(h, cl, hd, q, M, l, W), q # <<>>, Head(q) \notin M
  PROVE  PlacedOnce(h, cl, hd, Tail(q), M, l, W)
<1>1. Once(q, M)
  BY DEF PlacedOnce
<1>2. (Holds(Tail(q), M) <=> Holds(q, M)) /\ Once(Tail(q), M)
  BY <1>1, HoldsTail
<1> QED
  BY <1>2 DEF PlacedOnce

\* ... its message is taken and the header listed, ...
LEMMA TakeAndList ==
  ASSUME NEW S, NEW T, NEW h, NEW cl, NEW hd, NEW q \in Seq(S), NEW M, NEW l \in Seq(T), NEW W,
         PlacedOnce(h, cl, hd, q, M, l, W), q # <<>>,
         NEW e \in T, Head(q) \in M <=> e \in W
  PROVE  PlacedOnce(h, cl, hd, Tail(q), M, Append(l, e), W)
<1>1. Once(q, M) /\ Once(l, W)
  BY DEF PlacedOnce
<1>2. /\ Holds(q, M) <=> Holds(Tail(q), M) \/ Head(q) \in M
      /\ ~(Holds(Tail(q), M) /\ Head(q) \in M) /\ Once(Tail(q), M)
  BY <1>1, HoldsTail
<1>3. e \in W => ~Holds(l, W)
  BY <1>2 DEF PlacedOnce
<1>4. (Holds(Append(l, e), W) <=> Holds(l, W) \/ e \in W) /\ Once(Append(l, e), W)
  BY <1>1, <1>3, HoldsAppend
<1> QED
  BY <1>2, <1>4 DEF PlacedOnce

\* ... the list is flushed, ...
LEMMA FlushAll ==
  ASSUME NEW h, NEW cl, NEW hd, NEW q, NEW M, NEW l, NEW W,
         PlacedOnce(h, cl, hd, q, M, l, W),
         NEW back, h \in back <=> Holds(l, W)
  PROVE  PlacedOnce(h, cl \cup back, hd, q, M, <<>>, W)
BY NothingHeld DEF PlacedOnce

\* ... the first of the list goes to the client, ...
LEMMA GiveFirst ==
  ASSUME NEW T, NEW h, NEW cl, NEW hd, NEW q, NEW M, NEW l \in Seq(T), NEW W,
         PlacedOnce(h, cl, hd, q, M, l, W), l # <<>>,
         NEW g, Head(l) \in W <=> g = h
  PROVE  PlacedOnce(h, cl \cup {g}, hd, q, M, Tail(l), W)
<1>1. Once(l, W)
  BY DEF PlacedOnce
<1>2. /\ Holds(l, W) <=> Holds(Tail(l), W) \/ Head(l) \in W
      /\ ~(Holds(Tail(l), W) /\ Head(l) \in W) /\ Once(Tail(l), W)
  BY <1>1, HoldsTail
<1> QED
  BY <1>2 DEF PlacedOnce

\* ... or into the hand, if that is empty, ...
LEMMA GrabFirst ==
  ASSUME NEW T, NEW h, NEW cl, NEW hd, NEW q, NEW M, NEW l \in Seq(T), NEW W,
         PlacedOnce(h, cl, hd, q, M, l, W), l # <<>>, h \notin hd,
         NEW g, Head(l) \in W <=> g = h
  PROVE  PlacedOnce(h, cl, {g}, q, M, Tail(l), W)
<1>1. Once(l, W)
  BY DEF PlacedOnce
<1>2. /\ Holds(l, W) <=> Holds(Tail(l), W) \/ Head(l) \in W
      /\ ~(Holds(Tail(l), W) /\ Head(l) \in W) /\ Once(Tail(l), W)
  BY <1>1, HoldsTail
<1> QED
  BY <1>2 DEF PlacedOnce

\* ... and from there to the client.
LEMMA GiveHand ==
  ASSUME NEW h, NEW cl, NEW g, NEW q, NEW M, NEW l, NEW W,
         PlacedOnce(h, cl, {g}, q, M, l, W), NEW none, h # none
  PROVE  PlacedOnce(h, cl \cup {g}, {none}, q, M, l, W)
BY DEF PlacedOnce

\* The headers that a list gives back are those it holds.
LEMMA ListsGiveAll ==
  ASSUME TypeOK
  PROVE  /\ \A h : h \in InHeaders(inList) <=> Holds(inList, EntriesOf(h))
         /\ \A h : h \in Hdrs(outList) <=> Holds(outList, {h})
<1>1. \A i \in DOMAIN inList : inList[i] \in Entries
  BY Lists DEF TypeOK
<1>2. \A h, i : i \in Pos(inList, EntriesOf(h)) <=> i \in DOMAIN inList /\ inList[i].hdr = h
  BY <1>1 DEF Pos, EntriesOf
<1>3. \A h, i : i \in Pos(outList, {h}) <=> i \in DOMAIN outList /\ outList[i] = h
  BY DEF Pos
<1>4. \A h : h \in InHeaders(inList) <=> Holds(inList, EntriesOf(h))
  BY <1>2 DEF Holds, InHeaders
<1>5. \A h : h \in Hdrs(outList) <=> Holds(outList, {h})
  BY <1>3 DEF Holds, Hdrs
<1> QED
  BY <1>4, <1>5

LEMMA InitHeaders == Init => InputAgrees /\ OutputAgrees
<1> SUFFICES ASSUME Init PROVE InputAgrees /\ OutputAgrees
  OBVIOUS
<1>1. /\ clientIn = InHdrs /\ clientOut = OutHdrs /\ mainQ = <<>> /\ inList = <<>> /\ outList = <<>>
      /\ mInBufHdr = NoHdr
  BY DEF Init
<1>2. \A h \in InHdrs : InPlaces(h)
  BY <1>1, NothingHeld, VencAssumption DEF InPlaces, PlacedOnce
<1>3. \A h \in OutHdrs : OutPlaces(h)
  BY <1>1, NothingHeld DEF OutPlaces, PlacedOnce
<1> QED
  BY <1>1, <1>2, <1>3 DEF InputAgrees, OutputAgrees, HandAgrees

\* A step that moves no header.
LEMMA SamePlaces ==
  ASSUME HeaderInv,
         UNCHANGED <<clientIn, clientOut, mainQ, inList, outList, mInBufHdr, mInputBufferStep, stepKept>>
  PROVE  InputAgrees' /\ OutputAgrees'
  BY DEF HeaderInv, InputAgrees, OutputAgrees, HandAgrees, InPlaces, OutPlaces

LEMMA ClientHeaders ==
  ASSUME HeaderInv, Client
  PROVE  InputAgrees' /\ OutputAgrees'
<1> USE DEF hand
<1>0. mainQ \in Seq(Messages)
  BY DEF HeaderInv, IInv, TypeOK
<1>1. ASSUME NEW c \in Commands, SendCommand(c) PROVE InputAgrees' /\ OutputAgrees'
  <2>1. /\ mainQ' = Append(mainQ, c)
        /\ UNCHANGED <<clientIn, clientOut, inList, outList, mInBufHdr, mInputBufferStep, stepKept>>
    BY <1>1 DEF SendCommand
  <2>2. c \in AllCommands
    BY VencAssumption
  <2>3. c \in Messages /\ c.id # "empty" /\ c.id # "fill"
    BY <2>2 DEF Messages, AllCommands
  <2>4. \A h : c \notin MessagesOf("empty", h) /\ c \notin MessagesOf("fill", h)
    BY <2>3 DEF MessagesOf
  <2>5. ASSUME NEW h, InPlaces(h) PROVE InPlaces(h)'
    BY <1>0, <2>1, <2>3, <2>4, <2>5, SendOther DEF InPlaces
  <2>6. ASSUME NEW h, OutPlaces(h) PROVE OutPlaces(h)'
    BY <1>0, <2>1, <2>3, <2>4, <2>6, SendOther DEF OutPlaces
  <2> QED
    BY <2>1, <2>5, <2>6 DEF HeaderInv, InputAgrees, OutputAgrees, HandAgrees
<1>2. ASSUME NEW g \in InHdrs, NEW k \in Kinds, EmptyThisBuffer(g, k)
      PROVE  InputAgrees' /\ OutputAgrees'
  <2> DEFINE m == [id |-> "empty", hdr |-> g, kind |-> k]
  <2>1. /\ mainQ' = Append(mainQ, m) /\ g \in clientIn /\ clientIn' = clientIn \ {g}
        /\ UNCHANGED <<clientOut, inList, outList, mInBufHdr, mInputBufferStep, stepKept>>
    BY <1>2 DEF EmptyThisBuffer
  <2>2. m \in Messages /\ m.id = "empty" /\ m.hdr = g
    BY DEF Messages
  <2> HIDE DEF m
  <2>3. \A h : (m \in MessagesOf("empty", h) <=> g = h) /\ m \notin MessagesOf("fill", h)
    BY <2>2 DEF MessagesOf
  <2>4. ASSUME NEW h, InPlaces(h) PROVE InPlaces(h)'
    BY <1>0, <2>1, <2>2, <2>3, <2>4, Send DEF InPlaces
  <2>5. ASSUME NEW h, OutPlaces(h) PROVE OutPlaces(h)'
    BY <1>0, <2>1, <2>2, <2>3, <2>5, SendOther DEF OutPlaces
  <2> QED
    BY <2>1, <2>4, <2>5 DEF HeaderInv, InputAgrees, OutputAgrees, HandAgrees
<1>3. ASSUME NEW g \in OutHdrs, FillThisBuffer(g) PROVE InputAgrees' /\ OutputAgrees'
  <2> DEFINE m == [id |-> "fill", hdr |-> g]
  <2>1. /\ mainQ' = Append(mainQ, m) /\ g \in clientOut /\ clientOut' = clientOut \ {g}
        /\ UNCHANGED <<clientIn, inList, outList, mInBufHdr, mInputBufferStep, stepKept>>
    BY <1>3 DEF FillThisBuffer
  <2>2. m \in Messages /\ m.id = "fill" /\ m.hdr = g
    BY DEF Messages
  <2> HIDE DEF m
  <2>3. \A h : (m \in MessagesOf("fill", h) <=> g = h) /\ m \notin MessagesOf("empty", h)
    BY <2>2 DEF MessagesOf
  <2>4. ASSUME NEW h, InPlaces(h) PROVE InPlaces(h)'
    BY <1>0, <2>1, <2>2, <2>3, <2>4, SendOther DEF InPlaces
  <2>5. ASSUME NEW h, OutPlaces(h) PROVE OutPlaces(h)'
    BY <1>0, <2>1, <2>2, <2>3, <2>5, Send DEF OutPlaces
  <2> QED
    BY <2>1, <2>4, <2>5 DEF HeaderInv, InputAgrees, OutputAgrees, HandAgrees
<1>4. CASE FreeBuffers \/ UseBuffers
  BY <1>4, SamePlaces DEF FreeBuffers, UseBuffers, client
<1> QED
  BY <1>1, <1>2, <1>3, <1>4 DEF Client

\* What a message does to the headers.
Moved(m) ==
  \/ m.id \notin {"empty", "fill"} /\ UNCHANGED <<clientIn, clientOut, inList, outList>>
  \/ m.id \notin {"empty", "fill"} /\ FlushLists({})
  \/ /\ m.id = "empty" /\ inList' = Append(inList, [hdr |-> m.hdr, kind |-> m.kind])
     /\ UNCHANGED <<clientIn, clientOut, outList>>
  \/ /\ m.id = "fill" /\ outList' = Append(outList, m.hdr)
     /\ UNCHANGED <<clientIn, clientOut, inList>>

LEMMA CarryMoves ==
  ASSUME TypeOK, NEW m \in Messages, Carry(m)
  PROVE  Moved(m)
<1>1. CASE m.id = "state" /\ ToState(m.to)
  <2>1. m.to \in States
    BY <1>1, MessageKinds
  <2>2. CASE m.to = m_state
    BY <1>1, <2>2 DEF ToState, Moved
  <2>3. CASE m.to = "Idle" /\ m.to # m_state
    BY <1>1, <2>3 DEF ToState, Moved
  <2>4. CASE m.to = "Executing" /\ m.to # m_state
    BY <1>1, <2>4 DEF ToState, Moved
  <2>5. CASE m.to = "Pause" /\ m.to # m_state
    BY <1>1, <2>5 DEF ToState, Moved
  <2> QED
    BY <2>1, <2>2, <2>3, <2>4, <2>5 DEF States
<1>2. CASE m.id \in {"stop_port", "flush", "restart_port"}
  BY <1>2 DEF Carry, Moved
<1>3. CASE m.id = "empty"
  BY <1>3 DEF Carry, Moved
<1>4. CASE m.id = "fill"
  BY <1>4 DEF Carry, Moved
<1> QED
  BY <1>1, <1>2, <1>3, <1>4 DEF Carry

LEMMA TakeMessageHeaders ==
  ASSUME HeaderInv, TakeMessage
  PROVE  InputAgrees' /\ OutputAgrees'
<1> USE DEF hand
<1> DEFINE m == Head(mainQ)
<1>1. /\ mainQ \in Seq(Messages) /\ mainQ # <<>> /\ m \in Messages /\ mainQ' = Tail(mainQ)
      /\ UNCHANGED <<mInBufHdr, mInputBufferStep, stepKept>>
      /\ TypeOK /\ inList \in Seq(Entries) /\ outList \in Seq(OutHdrs)
  BY Lists DEF HeaderInv, IInv, TypeOK, TakeMessage
<1>2. Moved(m)
  BY <1>1, CarryMoves DEF TakeMessage
<1> HIDE DEF m
<1>3. /\ m.id # "empty" => \A h : m \notin MessagesOf("empty", h)
      /\ m.id # "fill" => \A h : m \notin MessagesOf("fill", h)
  BY DEF MessagesOf
<1>4. SUFFICES /\ \A h \in InHdrs : InPlaces(h) => InPlaces(h)'
               /\ \A h \in OutHdrs : OutPlaces(h) => OutPlaces(h)'
  BY <1>1 DEF HeaderInv, InputAgrees, OutputAgrees, HandAgrees
<1>5. CASE m.id \notin {"empty", "fill"} /\ UNCHANGED <<clientIn, clientOut, inList, outList>>
  BY <1>1, <1>3, <1>5, TakeOther DEF InPlaces, OutPlaces, m
<1>6. CASE m.id \notin {"empty", "fill"} /\ FlushLists({})
  <2>1. /\ clientIn' = clientIn \cup InHeaders(inList) /\ clientOut' = clientOut \cup Hdrs(outList)
        /\ inList' = <<>> /\ outList' = <<>>
    BY <1>6 DEF FlushLists
  <2>2. ASSUME NEW h \in InHdrs, InPlaces(h) PROVE InPlaces(h)'
    <3>1. PlacedOnce(h, clientIn, {mInBufHdr}, Tail(mainQ), MessagesOf("empty", h), inList,
                     EntriesOf(h))
      BY <1>1, <1>3, <1>6, <2>2, TakeOther DEF InPlaces, m
    <3>2. PlacedOnce(h, clientIn \cup InHeaders(inList), {mInBufHdr}, Tail(mainQ),
                     MessagesOf("empty", h), <<>>, EntriesOf(h))
      BY <1>1, <3>1, ListsGiveAll, FlushAll
    <3> QED
      BY <1>1, <2>1, <3>2 DEF InPlaces
  <2>3. ASSUME NEW h \in OutHdrs, OutPlaces(h) PROVE OutPlaces(h)'
    <3>1. PlacedOnce(h, clientOut, {}, Tail(mainQ), MessagesOf("fill", h), outList, {h})
      BY <1>1, <1>3, <1>6, <2>3, TakeOther DEF OutPlaces, m
    <3>2. PlacedOnce(h, clientOut \cup Hdrs(outList), {}, Tail(mainQ), MessagesOf("fill", h), <<>>,
                     {h})
      BY <1>1, <3>1, ListsGiveAll, FlushAll
    <3> QED
      BY <1>1, <2>1, <3>2 DEF OutPlaces
  <2> QED
    BY <2>2, <2>3
<1>7. CASE /\ m.id = "empty" /\ inList' = Append(inList, [hdr |-> m.hdr, kind |-> m.kind])
           /\ UNCHANGED <<clientIn, clientOut, outList>>
  <2> DEFINE e == [hdr |-> m.hdr, kind |-> m.kind]
  <2>1. e \in Entries /\ e.hdr = m.hdr /\ inList' = Append(inList, e)
    BY <1>1, <1>7, MessageKinds
  <2> HIDE DEF e
  <2>2. \A h : m \in MessagesOf("empty", h) <=> e \in EntriesOf(h)
    BY <1>1, <1>7, <2>1 DEF MessagesOf, EntriesOf
  <2>3. ASSUME NEW h \in InHdrs, InPlaces(h) PROVE InPlaces(h)'
    BY <1>1, <1>7, <2>1, <2>2, <2>3, TakeAndList DEF InPlaces, m
  <2>4. ASSUME NEW h \in OutHdrs, OutPlaces(h) PROVE OutPlaces(h)'
    BY <1>1, <1>3, <1>7, <2>4, TakeOther DEF OutPlaces, m
  <2> QED
    BY <2>3, <2>4
<1>8. CASE /\ m.id = "fill" /\ outList' = Append(outList, m.hdr)
           /\ UNCHANGED <<clientIn, clientOut, inList>>
  <2> DEFINE e == m.hdr
  <2>1. e \in OutHdrs /\ outList' = Append(outList, e)
    BY <1>1, <1>8, MessageKinds
  <2>2. \A h : m \in MessagesOf("fill", h) <=> e \in {h}
    BY <1>1, <1>8 DEF MessagesOf
  <2> HIDE DEF e
  <2>3. ASSUME NEW h \in InHdrs, InPlaces(h) PROVE InPlaces(h)'
    BY <1>1, <1>3, <1>8, <2>3, TakeOther DEF InPlaces, m
  <2>4. ASSUME NEW h \in OutHdrs, OutPlaces(h) PROVE OutPlaces(h)'
    BY <1>1, <1>8, <2>1, <2>2, <2>4, TakeAndList DEF OutPlaces, m
  <2> QED
    BY <2>3, <2>4
<1> QED
  BY <1>2, <1>5, <1>6, <1>7, <1>8 DEF Moved

\* The flush on the way to Idle, and the header in hand with it.
LEMMA IdleHeaders ==
  ASSUME HeaderInv, IdleAnswered
  PROVE  InputAgrees' /\ OutputAgrees'
<1> DEFINE extra == IF mInputBufferStep = "GET_ALLOCBUFFER" THEN {mInBufHdr} ELSE {}
<1>1. /\ TypeOK /\ UNCHANGED <<mainQ, mInBufHdr, mInputBufferStep>>
      /\ stepKept' = (stepKept \/ mInputBufferStep = "GET_ALLOCBUFFER")
      /\ clientIn' = clientIn \cup InHeaders(inList) \cup extra
      /\ clientOut' = clientOut \cup Hdrs(outList) /\ inList' = <<>> /\ outList' = <<>>
  BY DEF HeaderInv, IInv, IdleAnswered, FlushLists, hand
<1>2. ASSUME NEW h \in InHdrs, InPlaces(h), mInputBufferStep # "GET_ALLOCBUFFER"
      PROVE  InPlaces(h)'
  <2>1. clientIn' = clientIn \cup InHeaders(inList)
    BY <1>1, <1>2
  <2>2. PlacedOnce(h, clientIn \cup InHeaders(inList), {mInBufHdr}, mainQ, MessagesOf("empty", h),
                   <<>>, EntriesOf(h))
    BY <1>1, <1>2, ListsGiveAll, FlushAll DEF InPlaces
  <2> QED
    BY <1>1, <2>1, <2>2 DEF InPlaces
<1>3. InputAgrees'
  <2>1. CASE mInputBufferStep = "GET_ALLOCBUFFER"
    BY <1>1, <2>1 DEF InputAgrees
  <2>2. CASE stepKept
    BY <1>1, <2>2 DEF InputAgrees
  <2>3. CASE ~stepKept /\ mInputBufferStep # "GET_ALLOCBUFFER"
    BY <1>1, <1>2, <2>3 DEF HeaderInv, InputAgrees, HandAgrees
  <2> QED
    BY <2>1, <2>2, <2>3
<1>4. ASSUME NEW h \in OutHdrs, OutPlaces(h) PROVE OutPlaces(h)'
  <2>1. PlacedOnce(h, clientOut \cup Hdrs(outList), {}, mainQ, MessagesOf("fill", h), <<>>, {h})
    BY <1>1, <1>4, ListsGiveAll, FlushAll DEF OutPlaces
  <2> QED
    BY <1>1, <2>1 DEF OutPlaces
<1> QED
  BY <1>3, <1>4 DEF HeaderInv, OutputAgrees

\* The steps that give an output header.
LEMMA GiveHeaders ==
  ASSUME HeaderInv, NEW left \in BOOLEAN, NEW config \in BOOLEAN,
         EosAnswered(left) \/ Output(left, config)
  PROVE  InputAgrees' /\ OutputAgrees'
<1>1. outList \in Seq(OutHdrs)
  BY DEF HeaderInv, IInv, TypeOK
<1>2. UNCHANGED <<clientIn, mainQ, inList, mInBufHdr, mInputBufferStep, stepKept>>
  BY DEF EosAnswered, Output, hand
<1>3. \/ UNCHANGED <<clientOut, outList>>
      \/ /\ outList # <<>> /\ outList' = Tail(outList)
         /\ clientOut' = clientOut \cup {Head(outList)}
  BY DEF EosAnswered, Output
<1>4. ASSUME NEW h \in OutHdrs, OutPlaces(h), outList # <<>>, outList' = Tail(outList),
             clientOut' = clientOut \cup {Head(outList)}
      PROVE  OutPlaces(h)'
  <2>1. Head(outList) \in {h} <=> Head(outList) = h
    OBVIOUS
  <2>2. PlacedOnce(h, clientOut \cup {Head(outList)}, {}, mainQ, MessagesOf("fill", h),
                   Tail(outList), {h})
    BY <1>1, <1>4, <2>1, GiveFirst DEF OutPlaces
  <2> QED
    BY <1>2, <1>4, <2>2 DEF OutPlaces
<1>5. InputAgrees'
  BY <1>2 DEF HeaderInv, InputAgrees, HandAgrees, InPlaces
<1>6. OutputAgrees'
  <2>1. CASE UNCHANGED <<clientOut, outList>>
    BY <1>2, <2>1 DEF HeaderInv, OutputAgrees, OutPlaces
  <2>2. CASE /\ outList # <<>> /\ outList' = Tail(outList)
             /\ clientOut' = clientOut \cup {Head(outList)}
    BY <1>4, <2>2 DEF HeaderInv, OutputAgrees
  <2> QED
    BY <1>3, <2>1, <2>2
<1> QED
  BY <1>5, <1>6

\* Once a header that was given back stays in hand, nothing is said of the inputs.
LEMMA InputHeaders ==
  ASSUME HeaderInv, NEW free \in BOOLEAN, NEW accepted \in BOOLEAN, Input(free, accepted)
  PROVE  InputAgrees' /\ OutputAgrees'
<1>1. /\ UNCHANGED <<clientOut, mainQ, outList, stepKept>> /\ inList \in Seq(Entries)
      /\ mInputBufferStep \in {"GET_INPUTBUFFER", "GET_ALLOCBUFFER", "ADD_BUFFER_TO_ENC"}
  BY DEF HeaderInv, IInv, TypeOK, Input
<1>2. OutputAgrees'
  BY <1>1 DEF HeaderInv, OutputAgrees, OutPlaces
<1>3. ASSUME ~stepKept PROVE InputAgrees'
  <2>1. HandAgrees /\ \A h \in InHdrs : InPlaces(h) /\ h # NoHdr
    BY <1>3, VencAssumption DEF HeaderInv, InputAgrees
  <2>2. SUFFICES HandAgrees' /\ \A h \in InHdrs : InPlaces(h)'
    BY DEF InputAgrees
  <2>3. CASE UNCHANGED <<clientIn, inList, mInBufHdr, mInputBufferStep>>
    BY <1>1, <2>1, <2>3 DEF HandAgrees, InPlaces
  <2>4. CASE TakeInput(free, accepted)
    <3> DEFINE g == Head(inList).hdr
    <3>1. /\ mInputBufferStep = "GET_INPUTBUFFER" /\ mInBufHdr = NoHdr /\ inList # <<>>
          /\ inList' = Tail(inList)
      BY <2>1, <2>4 DEF TakeInput, HandAgrees
    <3>2. Head(inList) \in Entries
      BY <1>1, <3>1, Lists
    <3>3. \A h : Head(inList) \in EntriesOf(h) <=> g = h
      BY <3>2 DEF EntriesOf
    <3>4. CASE mInBufHdr' = g /\ mInputBufferStep' = "GET_ALLOCBUFFER" /\ clientIn' = clientIn
      <4>1. ASSUME NEW h \in InHdrs PROVE InPlaces(h)'
        <5>1. h \notin {mInBufHdr} /\ InPlaces(h)
          BY <2>1, <3>1
        <5>2. PlacedOnce(h, clientIn, {g}, mainQ, MessagesOf("empty", h), Tail(inList), EntriesOf(h))
          <6> HIDE DEF g
          <6> QED
            BY <1>1, <3>1, <3>3, <5>1, GrabFirst DEF InPlaces
        <5> HIDE DEF g
        <5> QED
          BY <1>1, <3>1, <3>4, <5>2 DEF InPlaces
      <4> QED
        BY <3>4, <4>1 DEF HandAgrees
    <3>5. CASE clientIn' = clientIn \cup {g} /\ mInBufHdr' = NoHdr
      <4>1. ASSUME NEW h \in InHdrs PROVE InPlaces(h)'
        <5>1. InPlaces(h)
          BY <2>1
        <5>2. PlacedOnce(h, clientIn \cup {g}, {mInBufHdr}, mainQ, MessagesOf("empty", h),
                         Tail(inList), EntriesOf(h))
          <6> HIDE DEF g
          <6> QED
            BY <1>1, <3>1, <3>3, <5>1, GiveFirst DEF InPlaces
        <5> HIDE DEF g
        <5> QED
          BY <1>1, <3>1, <3>5, <5>2 DEF InPlaces
      <4> QED
        BY <3>5, <4>1 DEF HandAgrees
    <3> QED
      BY <2>4, <3>1, <3>4, <3>5 DEF TakeInput, AddFrame
  <2>5. CASE RetryInput(free, accepted)
    <3>1. inList' = inList
      BY <2>5 DEF RetryInput
    <3>2. CASE mInputBufferStep = "GET_ALLOCBUFFER" /\ free
      <4>1. clientIn' = clientIn \cup {mInBufHdr} /\ mInBufHdr' = NoHdr
        BY <2>5, <3>2 DEF RetryInput, AddFrame
      <4>2. ASSUME NEW h \in InHdrs PROVE InPlaces(h)'
        <5>1. PlacedOnce(h, clientIn \cup {mInBufHdr}, {NoHdr}, mainQ, MessagesOf("empty", h),
                         inList, EntriesOf(h))
          BY <2>1, GiveHand DEF InPlaces
        <5> QED
          BY <1>1, <3>1, <4>1, <5>1 DEF InPlaces
      <4> QED
        BY <4>1, <4>2 DEF HandAgrees
    <3>3. CASE mInputBufferStep = "ADD_BUFFER_TO_ENC"
      <4>1. clientIn' = clientIn /\ mInBufHdr' = NoHdr /\ mInBufHdr = NoHdr
        BY <2>1, <2>5, <3>3 DEF RetryInput, AddFrame, HandAgrees
      <4> QED
        BY <1>1, <2>1, <3>1, <4>1 DEF HandAgrees, InPlaces
    <3>4. CASE mInputBufferStep = "GET_ALLOCBUFFER" /\ ~free
      BY <2>3, <2>5, <3>4 DEF RetryInput, hand
    <3> QED
      BY <1>1, <2>5, <3>2, <3>3, <3>4 DEF RetryInput
  <2>6. CASE NoInput
    BY <2>3, <2>6 DEF NoInput, hand
  <2> QED
    BY <2>4, <2>5, <2>6 DEF Input
<1>4. ASSUME stepKept PROVE InputAgrees'
  BY <1>1, <1>4 DEF InputAgrees
<1> QED
  BY <1>2, <1>3, <1>4

LEMMA NextHeaderInv == HeaderInv /\ [Next]_vars => HeaderInv'
<1> SUFFICES ASSUME HeaderInv, [Next]_vars PROVE HeaderInv'
  OBVIOUS
<1>1. IInv'
  BY NextIInv DEF HeaderInv
<1>2. InputAgrees' /\ OutputAgrees'
  <2>1. CASE Client
    BY <2>1, ClientHeaders
  <2>2. CASE TakeMessage
    BY <2>2, TakeMessageHeaders
  <2>3. CASE IdleAnswered
    BY <2>3, IdleHeaders
  <2>4. CASE \/ \E left \in BOOLEAN : EosAnswered(left)
             \/ \E left, config \in BOOLEAN : Output(left, config)
    BY <2>4, GiveHeaders
  <2>5. CASE \E free, accepted \in BOOLEAN : Input(free, accepted)
    BY <2>5, InputHeaders
  <2>6. CASE NoMessage \/ CloseAnswered \/ Settle \/ OpenAnswered \/ Freed \/ ReopenCloses
             \/ ReopenCreates \/ ReopenInits \/ SkipRound \/ StartRound \/ TakeBack
    BY <2>6, SamePlaces
    DEF NoMessage, CloseAnswered, Settle, OpenAnswered, Freed, ReopenCloses,
        ReopenCreates, ReopenInits, SkipRound, StartRound, TakeBack, client, hand
  <2>7. CASE Venc
    BY <2>7, SamePlaces DEF Venc, VencCommand, VencTest, VencEncode, client, hand
  <2>8. CASE UNCHANGED vars
    BY <2>8, SamePlaces DEF vars, client, hand
  <2> QED
    BY <2>1, <2>2, <2>3, <2>4, <2>5, <2>6, <2>7, <2>8 DEF Next, Main
<1> QED
  BY <1>1, <1>2 DEF HeaderInv

LEMMA HeaderInvariance == Spec => []HeaderInv
<1>1. Init => HeaderInv
  BY InitIInv, InitHeaders DEF HeaderInv
<1> QED
  BY <1>1, NextHeaderInv, PTL DEF Spec

\* Exactly one place, as the property counts the places.
LEMMA OnePlace ==
  ASSUME NEW h, NEW cl, NEW hd, NEW q, NEW M, NEW l, NEW W, PlacedOnce(h, cl, hd, q, M, l, W)
  PROVE  One({<<"at", a>> : a \in (IF h \in cl THEN {"client"} ELSE {}) \cup
                                  (IF h \in hd THEN {"hand"} ELSE {})}
             \cup {<<"message", i>> : i \in Pos(q, M)} \cup {<<"list", i>> : i \in Pos(l, W)})
<1> DEFINE at == (IF h \in cl THEN {"client"} ELSE {}) \cup (IF h \in hd THEN {"hand"} ELSE {})
           P  == {<<"at", a>> : a \in at} \cup {<<"message", i>> : i \in Pos(q, M)}
                 \cup {<<"list", i>> : i \in Pos(l, W)}
<1>1. CASE h \in cl
  <2>1. at = {"client"} /\ Pos(q, M) = {} /\ Pos(l, W) = {}
    BY <1>1 DEF PlacedOnce, Holds
  <2> HIDE DEF at
  <2>2. P = {<<"at", "client">>}
    BY <2>1
  <2> QED
    BY <2>2 DEF One, at
<1>2. CASE h \in hd
  <2>1. at = {"hand"} /\ Pos(q, M) = {} /\ Pos(l, W) = {}
    BY <1>2 DEF PlacedOnce, Holds
  <2> HIDE DEF at
  <2>2. P = {<<"at", "hand">>}
    BY <2>1
  <2> QED
    BY <2>2 DEF One, at
<1>3. CASE Holds(q, M)
  <2>1. at = {} /\ Pos(l, W) = {}
    BY <1>3 DEF PlacedOnce, Holds
  <2>2. PICK i : Pos(q, M) = {i}
    BY <1>3 DEF PlacedOnce, Holds, Once
  <2> HIDE DEF at
  <2>3. P = {<<"message", i>>}
    BY <2>1, <2>2
  <2> QED
    BY <2>3 DEF One, at
<1>4. CASE Holds(l, W)
  <2>1. at = {} /\ Pos(q, M) = {}
    BY <1>4 DEF PlacedOnce, Holds
  <2>2. PICK i : Pos(l, W) = {i}
    BY <1>4 DEF PlacedOnce, Holds, Once
  <2> HIDE DEF at
  <2>3. P = {<<"list", i>>}
    BY <2>1, <2>2
  <2> QED
    BY <2>3 DEF One, at
<1> QED
  BY <1>1, <1>2, <1>3, <1>4 DEF PlacedOnce

LEMMA HeaderInvOneOwner == HeaderInv => HeadersHaveOneOwner
<1> SUFFICES ASSUME HeaderInv PROVE HeadersHaveOneOwner
  OBVIOUS
<1>1. TypeOK
  BY DEF HeaderInv, IInv
<1>2. /\ \A i \in DOMAIN mainQ : mainQ[i] \in Messages
      /\ \A i \in DOMAIN inList : inList[i] \in Entries
  BY <1>1, Lists DEF TypeOK
<1>3. \A h : /\ {j \in DOMAIN mainQ : mainQ[j].id = "empty" /\ mainQ[j].hdr = h}
                  = Pos(mainQ, MessagesOf("empty", h))
             /\ {j \in DOMAIN mainQ : mainQ[j].id = "fill" /\ mainQ[j].hdr = h}
                  = Pos(mainQ, MessagesOf("fill", h))
  BY <1>2 DEF Pos, MessagesOf
<1>4. ASSUME NEW h \in InHdrs, InPlaces(h) PROVE One(PlacesIn(h))
  <2> DEFINE hdrs == [i \in DOMAIN inList |-> inList[i].hdr]
  <2>1. {j \in DOMAIN hdrs : hdrs[j] = h} = Pos(inList, EntriesOf(h))
    BY <1>2 DEF Pos, EntriesOf
  <2>2. (IF mInBufHdr = h THEN {"hand"} ELSE {}) = (IF h \in {mInBufHdr} THEN {"hand"} ELSE {})
    OBVIOUS
  <2> HIDE DEF hdrs
  <2>3. PlacesIn(h) = {<<"at", a>> : a \in (IF h \in clientIn THEN {"client"} ELSE {}) \cup
                                           (IF h \in {mInBufHdr} THEN {"hand"} ELSE {})}
                      \cup {<<"message", i>> : i \in Pos(mainQ, MessagesOf("empty", h))}
                      \cup {<<"list", i>> : i \in Pos(inList, EntriesOf(h))}
    BY <1>3, <2>1, <2>2 DEF PlacesIn, Places, hdrs
  <2> QED
    BY <1>4, <2>3, OnePlace DEF InPlaces
<1>5. ASSUME NEW h \in OutHdrs, OutPlaces(h) PROVE One(PlacesOut(h))
  <2>1. {j \in DOMAIN outList : outList[j] = h} = Pos(outList, {h})
    BY DEF Pos
  <2>2. (IF h \in clientOut THEN {"client"} ELSE {})
          = (IF h \in clientOut THEN {"client"} ELSE {}) \cup (IF h \in {} THEN {"hand"} ELSE {})
    OBVIOUS
  <2>3. PlacesOut(h) = {<<"at", a>> : a \in (IF h \in clientOut THEN {"client"} ELSE {}) \cup
                                            (IF h \in {} THEN {"hand"} ELSE {})}
                       \cup {<<"message", i>> : i \in Pos(mainQ, MessagesOf("fill", h))}
                       \cup {<<"list", i>> : i \in Pos(outList, {h})}
    BY <1>3, <2>1, <2>2 DEF PlacesOut, Places
  <2> QED
    BY <1>5, <2>3, OnePlace DEF OutPlaces
<1> QED
  BY <1>4, <1>5 DEF HeaderInv, InputAgrees, OutputAgrees, HeadersHaveOneOwner

\* With any number of headers and buffers, a header is given back once for each time
\* it was sent, and is nowhere twice on the way there and back - until a transition to
\* Idle finds an input header in hand (flushBuffers, dealWithInputBuffer).
THEOREM HeadersOwnedOnce == Spec => []HeadersHaveOneOwner
<1> QED
  BY HeaderInvariance, HeaderInvOneOwner, PTL
=============================================================================
