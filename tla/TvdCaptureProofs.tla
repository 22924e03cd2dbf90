-------------------------- MODULE TvdCaptureProofs --------------------------
(* The TVD capture driver keeps its inductive invariant, whatever the number  *)
(* of buffers, the minimum to start with and the width of the sequence        *)
(* number, and whether or not a frame can complete inside the handler.        *)
EXTENDS TvdCapture, SequenceTheorems, TLAPS

-----------------------------------------------------------------------------
(* Queues of buffers. *)

LEMMA InAppend ==
  ASSUME NEW S, NEW s \in Seq(S), NEW b \in S, NEW x
  PROVE  In(x, Append(s, b)) <=> In(x, s) \/ x = b
<1>1. /\ DOMAIN Append(s, b) = 1 .. Len(s) + 1 /\ DOMAIN s = 1 .. Len(s) /\ Len(s) \in Nat
      /\ Append(s, b)[Len(s) + 1] = b
      /\ \A i \in 1 .. Len(s) : Append(s, b)[i] = s[i]
  OBVIOUS
<1>2. \A i \in 1 .. Len(s) + 1 : i \in 1 .. Len(s) \/ i = Len(s) + 1
  BY <1>1
<1>3. 1 .. Len(s) \subseteq 1 .. Len(s) + 1 /\ Len(s) + 1 \in 1 .. Len(s) + 1
  BY <1>1
<1> QED
  BY <1>1, <1>2, <1>3 DEF In

LEMMA NoDuplicatesAppend ==
  ASSUME NEW S, NEW s \in Seq(S), NEW b \in S, NoDuplicates(s), ~In(b, s)
  PROVE  NoDuplicates(Append(s, b))
<1>1. /\ DOMAIN Append(s, b) = 1 .. Len(s) + 1 /\ DOMAIN s = 1 .. Len(s) /\ Len(s) \in Nat
      /\ Append(s, b)[Len(s) + 1] = b
      /\ \A i \in 1 .. Len(s) : Append(s, b)[i] = s[i]
  OBVIOUS
<1>2. \A i \in 1 .. Len(s) + 1 : i \in 1 .. Len(s) \/ i = Len(s) + 1
  BY <1>1
<1>3. \A i \in 1 .. Len(s) : s[i] # b
  BY <1>1 DEF In
<1> QED
  BY <1>1, <1>2, <1>3 DEF NoDuplicates

\* The head of a queue without duplicates is not in its tail.
LEMMA HeadAndTail ==
  ASSUME NEW S, NEW s \in Seq(S), s # <<>>
  PROVE  /\ Head(s) \in S /\ Tail(s) \in Seq(S)
         /\ \A x : In(x, s) <=> x = Head(s) \/ In(x, Tail(s))
         /\ NoDuplicates(s) => NoDuplicates(Tail(s)) /\ ~In(Head(s), Tail(s))
<1>1. /\ Len(s) \in Nat \ {0} /\ DOMAIN s = 1 .. Len(s)
      /\ Head(s) = s[1] /\ s[1] \in S
      /\ Tail(s) \in Seq(S) /\ DOMAIN Tail(s) = 1 .. Len(s) - 1
      /\ \A i \in 1 .. Len(s) - 1 : Tail(s)[i] = s[i + 1] /\ i + 1 \in 1 .. Len(s) /\ i + 1 # 1
  OBVIOUS
<1>2. \A i \in 1 .. Len(s) : i = 1 \/ (i - 1 \in 1 .. Len(s) - 1 /\ (i - 1) + 1 = i)
  BY <1>1
<1>3. ASSUME NEW x PROVE In(x, s) <=> x = Head(s) \/ In(x, Tail(s))
  <2>1. ASSUME NEW i \in 1 .. Len(s), s[i] = x
        PROVE  x = Head(s) \/ In(x, Tail(s))
    <3>1. CASE i = 1
      BY <1>1, <2>1, <3>1
    <3>2. CASE i # 1
      <4>1. i - 1 \in DOMAIN Tail(s) /\ Tail(s)[i - 1] = x
        BY <1>1, <1>2, <2>1, <3>2
      <4> QED
        BY <4>1 DEF In
    <3> QED
      BY <3>1, <3>2
  <2>2. x = Head(s) \/ In(x, Tail(s)) => In(x, s)
    BY <1>1 DEF In
  <2> QED
    BY <1>1, <2>1, <2>2 DEF In
<1>4. ASSUME NoDuplicates(s) PROVE NoDuplicates(Tail(s)) /\ ~In(Head(s), Tail(s))
  <2>1. \A i, j \in 1 .. Len(s) - 1 : i + 1 = j + 1 => i = j
    BY <1>1
  <2> QED
    BY <1>1, <1>4, <2>1 DEF NoDuplicates, In
<1> QED
  BY <1>1, <1>3, <1>4

LEMMA EmptyQueue == NoDuplicates(<<>>) /\ \A x : ~In(x, <<>>)
  BY DEF NoDuplicates, In

LEMMA AllUsers == [b \in Buffers |-> "user"] \in [Buffers -> Owners]
  BY DEF Owners

LEMMA NoBufIsNotQueued ==
  ASSUME TypeOK
  PROVE  ~In(NoBuf, queued_bufs) /\ ~In(NoBuf, vqueue)
  BY TvdAssumption DEF TypeOK, In

-----------------------------------------------------------------------------
(* The initial states. *)

LEMMA InitIInv == Init => IInv
<1> SUFFICES ASSUME Init PROVE IInv
  OBVIOUS
<1>1. TypeOK
  <2>1. owner \in [Buffers -> Owners]
    BY AllUsers DEF Init
  <2>2. filled \in [Buffers -> BOOLEAN] /\ overrun \in BOOLEAN
    BY DEF Init
  <2>3. 0 \in 0 .. SeqMod - 1
    BY TvdAssumption
  <2>4. /\ vqueue \in Seq(Buffers) /\ queued_bufs \in Seq(Buffers)
        /\ doneList \in Seq([buf : Buffers, seq : 0 .. SeqMod - 1])
    BY DEF Init
  <2> QED
    BY <2>1, <2>2, <2>3, <2>4 DEF Init, TypeOK
<1>2. OneOwner
  BY EmptyQueue, TvdAssumption DEF Init, OneOwner
<1>3. OneDelivery /\ SequenceHasNoGap /\ SequenceAgrees
  BY DEF Init, OneDelivery, SequenceHasNoGap, SequenceAgrees
<1>4. StartAgrees /\ StopAgrees /\ StreamAgrees
  BY DEF Init, StartAgrees, StopAgrees, StreamAgrees, StartSteps, StopSteps, Quiet
<1> QED
  BY <1>1, <1>2, <1>3, <1>4 DEF IInv

-----------------------------------------------------------------------------
(* The client's calls. *)

LEMMA ReqBufsIInv ==
  ASSUME IInv, ReqBufs
  PROVE  IInv'
<1>1. TypeOK'
  BY DEF IInv, ReqBufs, TypeOK, tvd, regs, irq
<1>2. OneOwner' /\ OneDelivery' /\ SequenceHasNoGap' /\ SequenceAgrees'
  BY DEF IInv, ReqBufs, OneOwner, OneDelivery, SequenceHasNoGap, SequenceAgrees, tvd, irq
<1>3. StartAgrees' /\ StopAgrees' /\ StreamAgrees'
  BY DEF IInv, ReqBufs, StartAgrees, StopAgrees, StreamAgrees, Quiet, Live, tvd, regs, irq
<1> QED
  BY <1>1, <1>2, <1>3 DEF IInv

LEMMA FreeBufsIInv ==
  ASSUME IInv, FreeBufs
  PROVE  IInv'
<1>1. /\ ~started /\ pc = "idle" /\ doneList = <<>>
      /\ active = NoBuf /\ irqDone = NoBuf /\ queued_bufs = <<>>
  BY DEF IInv, FreeBufs, ThreadAt, StreamAgrees, Quiet
<1>2. TypeOK'
  <2>1. owner' \in [Buffers -> Owners]
    BY AllUsers DEF FreeBufs
  <2>2. vqueue' \in Seq(Buffers)
    BY DEF FreeBufs
  <2>3. allocated' \in BOOLEAN
    BY DEF FreeBufs
  <2> QED
    BY <2>1, <2>2, <2>3 DEF IInv, FreeBufs, TypeOK, tvd, regs, irq
<1>3. OneOwner'
  BY <1>1, EmptyQueue, TvdAssumption DEF FreeBufs, OneOwner, tvd, irq
<1>4. OneDelivery' /\ SequenceHasNoGap' /\ SequenceAgrees'
  BY <1>1 DEF FreeBufs, OneDelivery, SequenceHasNoGap, SequenceAgrees
<1>5. StartAgrees' /\ StopAgrees' /\ StreamAgrees'
  BY <1>1 DEF IInv, FreeBufs, StartAgrees, StopAgrees, StreamAgrees, Quiet, Live, tvd, regs, irq
<1> QED
  BY <1>2, <1>3, <1>4, <1>5 DEF IInv

\* Every buffer in q goes to a driver that has none.
LEMMA HandOverIInv ==
  ASSUME IInv, ThreadAt("idle"), ~started,
         NEW q \in Seq(Buffers), q # <<>>, HandOver(q),
         NoDuplicates(q),
         \A b \in Buffers : owner[b] = "queued" => In(b, q),
         allocated' \in BOOLEAN, vbStreaming', UNCHANGED <<doneList, irq>>,
         filled' \in [Buffers -> BOOLEAN] /\ overrun' \in BOOLEAN
  PROVE  IInv'
<1>1. /\ pc = "idle" /\ irqPc = "none" /\ irqDone = NoBuf
      /\ active = NoBuf /\ queued_bufs = <<>> /\ doneList = <<>>
      /\ ~captureEn /\ ~intEnable
  BY DEF IInv, ThreadAt, StreamAgrees, Quiet
<1>2. queued_bufs' = q
  BY <1>1 DEF HandOver
<1>3. TypeOK'
  BY <1>2 DEF IInv, HandOver, TypeOK, Owners, StartSteps, regs, irq
<1>4. OneOwner'
  <2>1. \A b \in Buffers : owner[b] # "driver"
    BY <1>1, EmptyQueue, TvdAssumption DEF IInv, OneOwner
  <2>2. \A b \in Buffers : owner'[b] = "driver" <=> In(b, q)
    BY <2>1 DEF HandOver
  <2>3. \A b \in Buffers : owner'[b] # "queued"
    BY DEF HandOver
  <2>4. ~In(NoBuf, q)
    BY TvdAssumption DEF In
  <2>5. active' = NoBuf /\ irqDone' = NoBuf /\ vqueue' = <<>>
    BY <1>1 DEF HandOver, irq
  <2> QED
    BY <1>2, <2>2, <2>3, <2>4, <2>5, EmptyQueue, TvdAssumption DEF OneOwner
<1>5. OneDelivery'
  <2>1. \A b \in Buffers : owner[b] # "done"
    BY <1>1 DEF IInv, OneDelivery
  <2> QED
    BY <1>1, <2>1 DEF HandOver, OneDelivery
<1>6. SequenceHasNoGap' /\ SequenceAgrees'
  BY <1>1 DEF SequenceHasNoGap, SequenceAgrees
<1>7. StartAgrees' /\ StopAgrees' /\ StreamAgrees'
  BY <1>1, <1>2 DEF HandOver, StartAgrees, StopAgrees, StreamAgrees, StartSteps, StopSteps, regs, irq
<1> QED
  BY <1>3, <1>4, <1>5, <1>6, <1>7 DEF IInv

LEMMA DQBufIInv ==
  ASSUME IInv, DQBuf
  PROVE  IInv'
<1> DEFINE b == Head(doneList).buf
<1>1. /\ pc = "idle" /\ doneList # <<>>
      /\ doneList \in Seq([buf : Buffers, seq : 0 .. SeqMod - 1])
  BY DEF IInv, TypeOK, DQBuf, ThreadAt
<1>2. /\ Len(doneList) \in Nat \ {0} /\ DOMAIN doneList = 1 .. Len(doneList)
      /\ Head(doneList) = doneList[1] /\ doneList[1] \in [buf : Buffers, seq : 0 .. SeqMod - 1]
      /\ doneList' = Tail(doneList)
      /\ doneList' \in Seq([buf : Buffers, seq : 0 .. SeqMod - 1])
      /\ Len(doneList') = Len(doneList) - 1 /\ DOMAIN doneList' = 1 .. Len(doneList) - 1
      /\ \A i \in 1 .. Len(doneList) - 1 :
           /\ doneList'[i] = doneList[i + 1] /\ i + 1 \in 1 .. Len(doneList) /\ i + 1 # 1
  <2> DEFINE S == [buf : Buffers, seq : 0 .. SeqMod - 1]
  <2> HIDE DEF S
  <2>1. doneList \in Seq(S) /\ doneList # <<>> /\ doneList' = Tail(doneList)
    BY <1>1 DEF S, DQBuf
  <2>2. Head(doneList) = doneList[1] /\ doneList[1] \in S /\ doneList' \in Seq(S)
    BY <2>1
  <2>3. /\ Len(doneList) \in Nat \ {0} /\ DOMAIN doneList = 1 .. Len(doneList)
        /\ Len(doneList') = Len(doneList) - 1 /\ DOMAIN doneList' = 1 .. Len(doneList) - 1
    BY <2>1
  <2>4. \A i \in 1 .. Len(doneList) - 1 :
          /\ doneList'[i] = doneList[i + 1] /\ i + 1 \in 1 .. Len(doneList) /\ i + 1 # 1
    BY <2>1, <2>3
  <2> QED
    BY <2>1, <2>2, <2>3, <2>4 DEF S
<1>3. b \in Buffers /\ owner[b] = "done"
  BY <1>1, <1>2 DEF IInv, OneDelivery
<1>4. TypeOK'
  <2>1. owner' \in [Buffers -> Owners]
    BY <1>3 DEF IInv, TypeOK, DQBuf, Owners
  <2> QED
    BY <1>2, <2>1 DEF IInv, DQBuf, TypeOK, tvd, regs, irq
<1>5. OneOwner'
  BY <1>3 DEF IInv, TypeOK, OneOwner, DQBuf, tvd, irq
<1>6. OneDelivery'
  <2>1. ASSUME NEW i \in DOMAIN doneList', NEW j \in DOMAIN doneList',
               doneList'[i].buf = doneList'[j].buf
        PROVE  i = j
    <3>1. i + 1 = j + 1
      BY <1>1, <1>2, <2>1 DEF IInv, OneDelivery
    <3> QED
      BY <1>2, <2>1, <3>1
  <2>2. ASSUME NEW c \in Buffers
        PROVE  owner'[c] = "done" <=> \E i \in DOMAIN doneList' : doneList'[i].buf = c
    <3>1. CASE c = b
      <4>1. owner'[c] = "user"
        BY <1>3, <3>1 DEF IInv, TypeOK, DQBuf
      <4>2. \A i \in DOMAIN doneList' : doneList'[i].buf # c
        BY <1>1, <1>2, <3>1 DEF IInv, OneDelivery
      <4> QED
        BY <4>1, <4>2
    <3>2. CASE c # b
      <4>1. owner'[c] = owner[c]
        BY <3>2 DEF IInv, TypeOK, DQBuf
      <4>2. owner[c] = "done" <=> \E i \in DOMAIN doneList : doneList[i].buf = c
        BY <1>1 DEF IInv, OneDelivery
      <4>3. ASSUME NEW i \in DOMAIN doneList, doneList[i].buf = c
            PROVE  \E j \in DOMAIN doneList' : doneList'[j].buf = c
        <5>1. i - 1 \in DOMAIN doneList' /\ (i - 1) + 1 = i
          BY <1>2, <3>2, <4>3
        <5> QED
          BY <1>2, <4>3, <5>1
      <4>4. ASSUME NEW i \in DOMAIN doneList', doneList'[i].buf = c
            PROVE  \E j \in DOMAIN doneList : doneList[j].buf = c
        BY <1>2, <4>4
      <4> QED
        BY <4>1, <4>2, <4>3, <4>4
    <3> QED
      BY <3>1, <3>2
  <2> QED
    BY <2>1, <2>2 DEF OneDelivery
<1>7. SequenceHasNoGap' /\ SequenceAgrees'
  <2>1. ASSUME NEW i \in 1 .. Len(doneList') - 1
        PROVE  doneList'[i + 1].seq = (doneList'[i].seq + 1) % SeqMod
    <3>1. i \in 1 .. Len(doneList) - 1 /\ i + 1 \in 1 .. Len(doneList) - 1
      BY <1>2
    <3> QED
      BY <1>2, <3>1 DEF IInv, SequenceHasNoGap
  <2>2. doneList' # <<>> => doneList'[Len(doneList')] = doneList[Len(doneList)]
    BY <1>2
  <2> QED
    BY <1>1, <2>1, <2>2 DEF IInv, SequenceHasNoGap, SequenceAgrees, DQBuf, tvd
<1>8. StartAgrees' /\ StopAgrees' /\ StreamAgrees'
  BY <1>1 DEF IInv, DQBuf, StartAgrees, StopAgrees, StreamAgrees, StartSteps, StopSteps,
              Quiet, Live, tvd, regs, irq
<1> QED
  BY <1>4, <1>5, <1>6, <1>7, <1>8 DEF IInv

LEMMA StreamOnIInv ==
  ASSUME IInv, StreamOn
  PROVE  IInv'
<1>1. pc = "idle" /\ irqPc = "none" /\ ~vbStreaming /\ ~started
  BY DEF IInv, StreamOn, ThreadAt, StreamAgrees
<1>2. CASE EnoughBuffers(Len(vqueue))
  <2>1. vqueue \in Seq(Buffers) /\ vqueue # <<>>
    BY <1>2, TvdAssumption DEF IInv, TypeOK, EnoughBuffers
  <2>2. NoDuplicates(vqueue) /\ \A b \in Buffers : owner[b] = "queued" => In(b, vqueue)
    BY DEF IInv, OneOwner
  <2>3. filled' \in [Buffers -> BOOLEAN] /\ overrun' \in BOOLEAN /\ allocated' \in BOOLEAN
    BY DEF IInv, TypeOK, StreamOn
  <2>4. HandOver(vqueue) /\ vbStreaming' /\ UNCHANGED <<doneList, irq>>
    BY <1>2 DEF StreamOn
  <2> QED
    BY <1>1, <2>1, <2>2, <2>3, <2>4, HandOverIInv DEF StreamOn
<1>3. CASE ~EnoughBuffers(Len(vqueue))
  <2>1. TypeOK'
    BY <1>3 DEF IInv, StreamOn, TypeOK, tvd, regs, irq
  <2>2. OneOwner' /\ OneDelivery' /\ SequenceHasNoGap' /\ SequenceAgrees'
    BY <1>3 DEF IInv, StreamOn, OneOwner, OneDelivery, SequenceHasNoGap, SequenceAgrees, tvd, irq
  <2>3. StartAgrees' /\ StopAgrees' /\ StreamAgrees'
    BY <1>1, <1>3 DEF IInv, StreamOn, StartAgrees, StopAgrees, StreamAgrees, Quiet, Live,
                      tvd, regs, irq
  <2> QED
    BY <2>1, <2>2, <2>3 DEF IInv
<1> QED
  BY <1>2, <1>3

LEMMA StreamOffIInv ==
  ASSUME IInv, StreamOff
  PROVE  IInv'
<1>1. pc = "idle" /\ irqPc = "none"
  BY DEF StreamOff, ThreadAt
<1>2. TypeOK'
  BY DEF IInv, StreamOff, TypeOK, StopSteps, vb2, tvd, regs, irq
<1>3. OneOwner' /\ OneDelivery' /\ SequenceHasNoGap' /\ SequenceAgrees'
  BY <1>1 DEF IInv, StreamOff, OneOwner, OneDelivery, SequenceHasNoGap, SequenceAgrees,
              vb2, tvd, irq
<1>4. StartAgrees' /\ StopAgrees' /\ StreamAgrees'
  BY <1>1 DEF IInv, StreamOff, StartAgrees, StopAgrees, StreamAgrees, StartSteps, StopSteps,
              Quiet, Live, vb2, tvd, regs, irq
<1> QED
  BY <1>2, <1>3, <1>4 DEF IInv

LEMMA QBufIInv ==
  ASSUME IInv, NEW b \in Buffers, QBuf(b)
  PROVE  IInv'
<1>1. /\ pc = "idle" /\ irqPc = "none" /\ irqDone = NoBuf /\ owner[b] = "user"
      /\ filled' \in [Buffers -> BOOLEAN] /\ overrun' \in BOOLEAN
      /\ vqueue \in Seq(Buffers) /\ queued_bufs \in Seq(Buffers) /\ owner \in [Buffers -> Owners]
  BY DEF IInv, TypeOK, QBuf, ThreadAt, StreamAgrees
<1>2. b # NoBuf /\ ~In(b, queued_bufs) /\ ~In(b, vqueue) /\ b # active
  BY <1>1, TvdAssumption DEF IInv, OneOwner
<1>3. /\ NoDuplicates(queued_bufs) /\ NoDuplicates(vqueue)
      /\ ~In(NoBuf, queued_bufs) /\ ~In(NoBuf, vqueue) /\ ~In(active, queued_bufs)
  BY NoBufIsNotQueued DEF IInv, OneOwner
<1>4. ASSUME owner' = [owner EXCEPT ![b] = "driver"] \/ owner' = [owner EXCEPT ![b] = "queued"],
             UNCHANGED <<doneList, pc, sequence>>
      PROVE  OneDelivery' /\ SequenceHasNoGap' /\ SequenceAgrees'
  <2>1. \A c \in Buffers : owner'[c] = "done" <=> owner[c] = "done"
    BY <1>1, <1>4
  <2> QED
    BY <1>4, <2>1 DEF IInv, OneDelivery, SequenceHasNoGap, SequenceAgrees
<1>5. CASE started /\ BufQueue(b) /\ owner' = [owner EXCEPT ![b] = "driver"]
             /\ UNCHANGED <<vqueue, started, sequence, streaming, intStatus, intEnable, pc>>
             /\ UNCHANGED <<doneList, allocated, vbStreaming, irq>>
  <2>1. streaming /\ intEnable /\ doneList' = doneList
    BY <1>1, <1>5 DEF IInv, StreamAgrees, Live
  <2>2. \A c \in Buffers : owner'[c] = IF c = b THEN "driver" ELSE owner[c]
    BY <1>1, <1>5
  <2>3. CASE active = NoBuf
    <3>1. queued_bufs = <<>>
      BY <1>1, <1>5, <2>3 DEF IInv, StreamAgrees, Live
    <3>2. /\ active' = b /\ queued_bufs' = <<>> /\ addr' = b /\ captureEn' = TRUE
      <4>1. Head(Append(<<>>, b)) = b /\ Tail(Append(<<>>, b)) = <<>>
        OBVIOUS
      <4> QED
        BY <1>5, <2>1, <2>3, <3>1, <4>1 DEF BufQueue
    <3>3. TypeOK'
      <4>1. owner' \in [Buffers -> Owners]
        BY <1>1, <1>5 DEF Owners
      <4> QED
        BY <1>1, <1>5, <3>2, <4>1 DEF IInv, TypeOK, irq
    <3>4. OneOwner'
      <4>1. \A c \in Buffers : owner'[c] = "driver" <=> c = b
        BY <1>1, <2>2, <2>3, <3>1, EmptyQueue, TvdAssumption DEF IInv, OneOwner
      <4>2. \A c \in Buffers : owner'[c] = "queued" <=> In(c, vqueue)
        BY <1>1, <1>2, <2>2 DEF IInv, OneOwner
      <4> QED
        BY <1>1, <1>2, <1>3, <1>5, <3>2, <4>1, <4>2, EmptyQueue, TvdAssumption DEF OneOwner, irq
    <3>5. StartAgrees' /\ StopAgrees' /\ StreamAgrees'
      BY <1>1, <1>2, <1>5, <2>1, <3>2 DEF IInv, StartAgrees, StopAgrees, StreamAgrees, StartSteps,
         StopSteps, Quiet, Live, irq
    <3> QED
      BY <1>4, <1>5, <2>1, <3>3, <3>4, <3>5 DEF IInv
  <2>4. CASE active # NoBuf
    <3>1. queued_bufs' = Append(queued_bufs, b) /\ UNCHANGED <<active, addr, captureEn>>
      BY <1>5, <2>1, <2>4 DEF BufQueue
    <3>2. \A x : In(x, queued_bufs') <=> In(x, queued_bufs) \/ x = b
      BY <1>1, <3>1, InAppend
    <3>3. NoDuplicates(queued_bufs') /\ queued_bufs' \in Seq(Buffers)
      BY <1>1, <1>2, <1>3, <3>1, NoDuplicatesAppend
    <3>4. TypeOK'
      <4>1. owner' \in [Buffers -> Owners]
        BY <1>1, <1>5 DEF Owners
      <4> QED
        BY <1>1, <1>5, <3>1, <3>3, <4>1 DEF IInv, TypeOK, irq
    <3>5. OneOwner'
      <4>1. \A c \in Buffers : owner'[c] = "driver" <=> c = active \/ In(c, queued_bufs')
        BY <1>1, <2>2, <3>2, TvdAssumption DEF IInv, OneOwner
      <4>2. \A c \in Buffers : owner'[c] = "queued" <=> In(c, vqueue)
        BY <1>1, <1>2, <2>2 DEF IInv, OneOwner
      <4>3. ~In(active, queued_bufs') /\ ~In(NoBuf, queued_bufs')
        BY <1>2, <1>3, <3>2
      <4> QED
        BY <1>1, <1>3, <1>5, <2>4, <3>1, <3>3, <4>1, <4>2, <4>3, TvdAssumption DEF OneOwner, irq
    <3>6. StartAgrees' /\ StopAgrees' /\ StreamAgrees'
      BY <1>1, <1>5, <2>1, <2>4, <3>1 DEF IInv, StartAgrees, StopAgrees, StreamAgrees, StartSteps,
         StopSteps, Quiet, Live, irq
    <3> QED
      BY <1>4, <1>5, <2>1, <3>4, <3>5, <3>6 DEF IInv
  <2> QED
    BY <2>3, <2>4
<1>6. CASE ~started /\ vbStreaming /\ HandOver(Append(vqueue, b))
             /\ UNCHANGED <<doneList, allocated, vbStreaming, irq>>
  <2> DEFINE q == Append(vqueue, b)
  <2>1. q \in Seq(Buffers) /\ q # <<>> /\ NoDuplicates(q)
    <3>1. NoDuplicates(q)
      BY <1>1, <1>2, <1>3, NoDuplicatesAppend
    <3>2. q \in Seq(Buffers)
      BY <1>1
    <3>3. Len(q) = Len(vqueue) + 1 /\ Len(vqueue) \in Nat
      BY <1>1
    <3> QED
      BY <3>1, <3>2, <3>3
  <2>2. \A c \in Buffers : owner[c] = "queued" => In(c, q)
    BY <1>1, InAppend DEF IInv, OneOwner
  <2>3. ThreadAt("idle") /\ allocated' \in BOOLEAN /\ vbStreaming'
    BY <1>6 DEF QBuf, IInv, TypeOK
  <2>4. HandOver(q) /\ UNCHANGED <<doneList, irq>>
    BY <1>6
  <2> HIDE DEF q
  <2> QED
    BY <1>1, <1>6, <2>1, <2>2, <2>3, <2>4, HandOverIInv
<1>7. CASE ~started /\ vqueue' = Append(vqueue, b) /\ owner' = [owner EXCEPT ![b] = "queued"]
             /\ UNCHANGED <<started, tvd, regs, pc>>
             /\ UNCHANGED <<doneList, allocated, vbStreaming, irq>>
  <2>1. \A c \in Buffers : owner'[c] = IF c = b THEN "queued" ELSE owner[c]
    BY <1>1, <1>7
  <2>2. \A x : In(x, vqueue') <=> In(x, vqueue) \/ x = b
    BY <1>1, <1>7, InAppend
  <2>3. NoDuplicates(vqueue') /\ vqueue' \in Seq(Buffers)
    BY <1>1, <1>2, <1>3, <1>7, NoDuplicatesAppend
  <2>4. TypeOK'
    <3>1. owner' \in [Buffers -> Owners]
      BY <1>1, <1>7 DEF Owners
    <3> QED
      BY <1>1, <1>7, <2>3, <3>1 DEF IInv, TypeOK, tvd, regs, irq
  <2>5. OneOwner'
    <3>1. \A c \in Buffers : owner'[c] = "driver" <=> owner[c] = "driver"
      BY <1>1, <2>1
    <3>2. \A c \in Buffers : owner'[c] = "queued" <=> In(c, vqueue')
      BY <2>1, <2>2 DEF IInv, OneOwner
    <3> QED
      BY <1>7, <2>3, <3>1, <3>2 DEF IInv, OneOwner, tvd, irq
  <2>6. OneDelivery' /\ SequenceHasNoGap' /\ SequenceAgrees'
    BY <1>4, <1>7 DEF tvd
  <2>7. StartAgrees' /\ StopAgrees' /\ StreamAgrees'
    BY <1>1, <1>7 DEF IInv, StartAgrees, StopAgrees, StreamAgrees, StartSteps, StopSteps,
       Quiet, Live, tvd, regs, irq
  <2> QED
    BY <2>4, <2>5, <2>6, <2>7 DEF IInv
<1> QED
  BY <1>5, <1>6, <1>7 DEF QBuf

-----------------------------------------------------------------------------
(* Starting and stopping. *)

LEMMA StartIInv ==
  ASSUME IInv, Start
  PROVE  IInv'
<1>1. irqDone = NoBuf
  BY DEF IInv, StreamAgrees, Start, StartLocked, StartClearStatus, StartProgram, StartEnableInt,
         StartCapture, ThreadAt
<1>2. CASE StartLocked
  <2>1. /\ pc = "st_lock" /\ irqPc = "none" /\ active = NoBuf /\ queued_bufs # <<>>
        /\ queued_bufs \in Seq(Buffers) /\ doneList = <<>> /\ started
    BY <1>2 DEF IInv, TypeOK, StartAgrees, StartLocked, ThreadAt, StartSteps
  <2>2. /\ active' = Head(queued_bufs) /\ active' \in Buffers
        /\ queued_bufs' = Tail(queued_bufs) /\ queued_bufs' \in Seq(Buffers)
        /\ \A x : In(x, queued_bufs) <=> x = active' \/ In(x, queued_bufs')
        /\ NoDuplicates(queued_bufs') /\ ~In(active', queued_bufs')
    <3>1. NoDuplicates(queued_bufs)
      BY DEF IInv, OneOwner
    <3> QED
      BY <1>2, <2>1, <3>1, HeadAndTail DEF StartLocked
  <2>3. TypeOK'
    <3>1. 0 \in 0 .. SeqMod - 1
      BY TvdAssumption
    <3> QED
      BY <1>2, <2>2, <3>1 DEF IInv, TypeOK, StartLocked, StartSteps, vb2, regs, irq
  <2>4. OneOwner'
    <3>1. \A c \in Buffers : owner'[c] = "driver" <=> c = active' \/ In(c, queued_bufs')
      BY <1>1, <1>2, <2>1, <2>2, TvdAssumption DEF IInv, OneOwner, StartLocked, vb2
    <3>2. ~In(NoBuf, queued_bufs')
      BY <2>2, NoBufIsNotQueued DEF IInv
    <3>3. irqDone' = NoBuf /\ vqueue' = vqueue /\ owner' = owner
      BY <1>1, <1>2 DEF StartLocked, vb2, irq
    <3> QED
      BY <2>2, <3>1, <3>2, <3>3, TvdAssumption DEF IInv, OneOwner
  <2>5. OneDelivery' /\ SequenceHasNoGap' /\ SequenceAgrees'
    BY <1>2, <2>1 DEF IInv, OneDelivery, SequenceHasNoGap, SequenceAgrees, StartLocked, vb2
  <2>6. StartAgrees' /\ StopAgrees' /\ StreamAgrees'
    BY <1>2, <2>1, <2>2, TvdAssumption DEF IInv, StartLocked, StartAgrees, StopAgrees, StreamAgrees,
       StartSteps, StopSteps, Quiet, Live, vb2, regs, irq
  <2> QED
    BY <2>3, <2>4, <2>5, <2>6 DEF IInv
<1>3. CASE StartClearStatus \/ StartProgram \/ StartEnableInt \/ StartCapture
  <2>1. TypeOK'
    <3>1. /\ UNCHANGED <<vb2, tvd, irq, filled, overrun>>
          /\ captureEn' \in BOOLEAN /\ addr' \in Buffers \cup {NoBuf}
          /\ intStatus' \in BOOLEAN /\ intEnable' \in BOOLEAN
          /\ pc' \in {"idle"} \cup StartSteps
      BY <1>3 DEF IInv, TypeOK, StartClearStatus, StartProgram, StartEnableInt, StartCapture,
         StartSteps, tvd
    <3> QED
      BY <3>1 DEF IInv, TypeOK, vb2, tvd, irq
  <2>2. OneOwner' /\ OneDelivery' /\ SequenceHasNoGap' /\ SequenceAgrees'
    BY <1>3 DEF IInv, OneOwner, OneDelivery, SequenceHasNoGap, SequenceAgrees, ThreadAt,
       StartClearStatus, StartProgram, StartEnableInt, StartCapture, vb2, tvd, irq
  <2>3. StartAgrees' /\ StopAgrees' /\ StreamAgrees'
    BY <1>3 DEF IInv, StartAgrees, StopAgrees, StreamAgrees, StartSteps, StopSteps, Quiet, Live,
       ThreadAt, StartClearStatus, StartProgram, StartEnableInt, StartCapture, vb2, tvd, irq
  <2> QED
    BY <2>1, <2>2, <2>3 DEF IInv
<1> QED
  BY <1>2, <1>3 DEF Start

LEMMA StopIInv ==
  ASSUME IInv, Stop
  PROVE  IInv'
<1>1. CASE StopFlag \/ StopDisableInt \/ StopCapture \/ StopClearStatus
  <2>1. TypeOK'
    <3>1. /\ UNCHANGED <<vb2, queued_bufs, active, sequence, addr, irq, filled, overrun>>
          /\ streaming' \in BOOLEAN /\ captureEn' \in BOOLEAN
          /\ intStatus' \in BOOLEAN /\ intEnable' \in BOOLEAN
          /\ pc' \in StopSteps
      BY <1>1 DEF IInv, TypeOK, StopFlag, StopDisableInt, StopCapture, StopClearStatus,
         StopSteps, tvd, regs
    <3> QED
      BY <3>1 DEF IInv, TypeOK, vb2, irq
  <2>2. OneOwner' /\ OneDelivery' /\ SequenceHasNoGap' /\ SequenceAgrees'
    BY <1>1 DEF IInv, OneOwner, OneDelivery, SequenceHasNoGap, SequenceAgrees, ThreadAt,
       StopFlag, StopDisableInt, StopCapture, StopClearStatus, vb2, tvd, irq
  <2>3. StartAgrees' /\ StopAgrees' /\ StreamAgrees'
    BY <1>1 DEF IInv, StartAgrees, StopAgrees, StreamAgrees, StartSteps, StopSteps, Quiet, Live,
       ThreadAt, StopFlag, StopDisableInt, StopCapture, StopClearStatus, vb2, tvd, regs, irq
  <2> QED
    BY <2>1, <2>2, <2>3 DEF IInv
<1>2. CASE ReturnAllBuffers
  <2>1. /\ pc = "sp_return" /\ irqPc = "none" /\ irqDone = NoBuf /\ started
        /\ ~captureEn /\ ~intEnable /\ ~streaming
    BY <1>2 DEF IInv, StopAgrees, StreamAgrees, StopSteps, ReturnAllBuffers, ThreadAt
  <2>2. TypeOK'
    <3>1. owner' \in [Buffers -> Owners]
      BY <1>2 DEF IInv, TypeOK, ReturnAllBuffers, Owners
    <3>2. queued_bufs' \in Seq(Buffers)
      BY <1>2 DEF ReturnAllBuffers
    <3> QED
      BY <1>2, <3>1, <3>2 DEF IInv, TypeOK, ReturnAllBuffers, StopSteps, regs, irq
  <2>3. OneOwner'
    <3>1. \A c \in Buffers : owner'[c] # "driver"
      BY <1>2, <2>1, TvdAssumption DEF IInv, OneOwner, ReturnAllBuffers
    <3>2. \A c \in Buffers : owner'[c] = "queued" <=> owner[c] = "queued"
      BY <1>2 DEF IInv, OneOwner, ReturnAllBuffers
    <3>3. active' = NoBuf /\ irqDone' = NoBuf /\ queued_bufs' = <<>> /\ vqueue' = vqueue
      BY <1>2, <2>1 DEF ReturnAllBuffers, irq
    <3> QED
      BY <3>1, <3>2, <3>3, EmptyQueue, TvdAssumption DEF IInv, OneOwner
  <2>4. OneDelivery' /\ SequenceHasNoGap' /\ SequenceAgrees'
    BY <1>2 DEF IInv, OneDelivery, SequenceHasNoGap, SequenceAgrees, ReturnAllBuffers
  <2>5. StartAgrees' /\ StopAgrees' /\ StreamAgrees'
    BY <1>2, <2>1 DEF IInv, ReturnAllBuffers, StartAgrees, StopAgrees, StreamAgrees,
       StartSteps, StopSteps, Quiet, Live, regs, irq
  <2> QED
    BY <2>2, <2>3, <2>4, <2>5 DEF IInv
<1>3. CASE QueueCancel
  <2>1. /\ irqDone = NoBuf /\ active = NoBuf /\ queued_bufs = <<>> /\ irqPc = "none"
        /\ ~captureEn /\ ~intEnable /\ ~streaming
    BY <1>3 DEF IInv, StopAgrees, StreamAgrees, Quiet, QueueCancel, ThreadAt
  <2>2. TypeOK'
    <3>1. owner' \in [Buffers -> Owners]
      BY <1>3, AllUsers DEF QueueCancel
    <3>2. /\ vqueue' \in Seq(Buffers)
          /\ doneList' \in Seq([buf : Buffers, seq : 0 .. SeqMod - 1])
      BY <1>3 DEF QueueCancel
    <3> QED
      BY <1>3, <3>1, <3>2 DEF IInv, TypeOK, QueueCancel, tvd, regs, irq
  <2>3. OneOwner'
    BY <1>3, <2>1, EmptyQueue, TvdAssumption DEF OneOwner, QueueCancel, tvd, irq
  <2>4. OneDelivery' /\ SequenceHasNoGap' /\ SequenceAgrees'
    BY <1>3 DEF OneDelivery, SequenceHasNoGap, SequenceAgrees, QueueCancel
  <2>5. StartAgrees' /\ StopAgrees' /\ StreamAgrees'
    BY <1>3, <2>1 DEF QueueCancel, StartAgrees, StopAgrees, StreamAgrees,
       StartSteps, StopSteps, Quiet, Live, tvd, regs, irq
  <2> QED
    BY <2>2, <2>3, <2>4, <2>5 DEF IInv
<1> QED
  BY <1>1, <1>2, <1>3 DEF Stop

-----------------------------------------------------------------------------
(* The interrupt and the decoder. *)

\* The handler runs only while a stream does.
LEMMA HandlerInStream ==
  ASSUME IInv, irqPc # "none" \/ (intEnable /\ intStatus)
  PROVE  started /\ pc \in {"idle", "sp_flag", "sp_disable"} /\ Live
  BY DEF IInv, TypeOK, StartAgrees, StopAgrees, StreamAgrees, StartSteps, StopSteps, Quiet

LEMMA IrqIInv ==
  ASSUME IInv, Irq
  PROVE  IInv'
<1>1. started /\ pc \in {"idle", "sp_flag", "sp_disable"} /\ Live
  <2>1. irqPc # "none" \/ (intEnable /\ intStatus)
    BY DEF Irq, IrqAck, IrqSwap, IrqDone
  <2> QED
    BY <2>1, HandlerInStream
<1>2. CASE IrqAck
  <2>1. TypeOK'
    BY <1>2 DEF IInv, TypeOK, IrqAck, vb2, tvd
  <2>2. OneOwner' /\ OneDelivery' /\ SequenceHasNoGap' /\ SequenceAgrees'
    BY <1>2 DEF IInv, OneOwner, OneDelivery, SequenceHasNoGap, SequenceAgrees, IrqAck, vb2, tvd
  <2>3. StartAgrees' /\ StopAgrees' /\ StreamAgrees'
    BY <1>1, <1>2 DEF IInv, IrqAck, StartAgrees, StopAgrees, StreamAgrees, StartSteps, StopSteps,
       Quiet, Live, vb2, tvd
  <2> QED
    BY <2>1, <2>2, <2>3 DEF IInv
<1>3. CASE IrqSwap
  <2>1. irqPc = "swap" /\ irqDone = NoBuf /\ irqDone' = active /\ irqPc' = "done"
    BY <1>3 DEF IInv, StreamAgrees, IrqSwap
  <2>2. OneDelivery' /\ SequenceHasNoGap' /\ SequenceAgrees'
    BY <1>3 DEF IInv, OneDelivery, SequenceHasNoGap, SequenceAgrees, IrqSwap, vb2
  <2>3. ~In(NoBuf, queued_bufs) /\ ~In(active, queued_bufs) /\ NoDuplicates(queued_bufs)
    BY NoBufIsNotQueued DEF IInv, OneOwner
  <2>4. \A c \in Buffers : owner[c] = "driver" <=> c = active \/ In(c, queued_bufs)
    BY <2>1, TvdAssumption DEF IInv, OneOwner
  <2>5. CASE queued_bufs # <<>>
    <3>1. /\ active' = Head(queued_bufs) /\ queued_bufs' = Tail(queued_bufs)
          /\ addr' = active' /\ captureEn' = TRUE
      BY <1>3, <2>5 DEF IrqSwap
    <3>2. /\ active' \in Buffers /\ queued_bufs' \in Seq(Buffers)
          /\ \A x : In(x, queued_bufs) <=> x = active' \/ In(x, queued_bufs')
          /\ NoDuplicates(queued_bufs') /\ ~In(active', queued_bufs')
      <4>1. queued_bufs \in Seq(Buffers)
        BY DEF IInv, TypeOK
      <4> QED
        BY <2>3, <2>5, <3>1, <4>1, HeadAndTail
    <3>3. TypeOK'
      BY <1>3, <2>1, <3>1, <3>2 DEF IInv, TypeOK, IrqSwap, vb2
    <3>4. OneOwner'
      <4>1. \A c \in Buffers :
              owner'[c] = "driver" <=> c = active' \/ c = irqDone' \/ In(c, queued_bufs')
        BY <1>3, <2>1, <2>4, <3>2 DEF IrqSwap, vb2
      <4>2. ~In(irqDone', queued_bufs') /\ active' # irqDone'
        BY <2>1, <2>3, <3>2
      <4>3. vqueue' = vqueue /\ owner' = owner
        BY <1>3 DEF IrqSwap, vb2
      <4> QED
        BY <3>2, <4>1, <4>2, <4>3 DEF IInv, OneOwner
    <3>5. StartAgrees' /\ StopAgrees' /\ StreamAgrees'
      BY <1>1, <1>3, <2>1, <3>1, <3>2, TvdAssumption DEF IInv, IrqSwap, StartAgrees, StopAgrees,
         StreamAgrees, StartSteps, StopSteps, Quiet, Live, vb2
    <3> QED
      BY <2>2, <3>3, <3>4, <3>5 DEF IInv
  <2>6. CASE queued_bufs = <<>>
    <3>1. active' = NoBuf /\ captureEn' = FALSE /\ UNCHANGED <<queued_bufs, addr>>
      BY <1>3, <2>6 DEF IrqSwap
    <3>2. TypeOK'
      BY <1>3, <2>1, <3>1 DEF IInv, TypeOK, IrqSwap, vb2
    <3>3. OneOwner'
      BY <1>3, <2>1, <2>3, <2>4, <3>1, TvdAssumption DEF IInv, OneOwner, IrqSwap, vb2
    <3>4. StartAgrees' /\ StopAgrees' /\ StreamAgrees'
      BY <1>1, <1>3, <2>1, <2>6, <3>1 DEF IInv, IrqSwap, StartAgrees, StopAgrees,
         StreamAgrees, StartSteps, StopSteps, Quiet, Live, vb2
    <3> QED
      BY <2>2, <3>2, <3>3, <3>4 DEF IInv
  <2> QED
    BY <2>5, <2>6
<1>4. CASE IrqDone
  <2>1. StartAgrees' /\ StopAgrees' /\ StreamAgrees'
    BY <1>1, <1>4 DEF IInv, IrqDone, StartAgrees, StopAgrees, StreamAgrees, StartSteps, StopSteps,
       Quiet, Live, regs
  <2>2. irqDone' = NoBuf /\ irqPc' = "none"
    BY <1>4 DEF IrqDone
  <2>3. CASE irqDone = NoBuf
    <3>1. UNCHANGED <<owner, doneList, sequence>>
      BY <1>4, <2>3 DEF IrqDone
    <3>2. TypeOK'
      BY <1>4, <2>2, <3>1 DEF IInv, TypeOK, IrqDone, regs
    <3>3. OneOwner' /\ OneDelivery' /\ SequenceHasNoGap' /\ SequenceAgrees'
      BY <1>4, <2>2, <2>3, <3>1 DEF IInv, OneOwner, OneDelivery, SequenceHasNoGap, SequenceAgrees,
         IrqDone
    <3> QED
      BY <2>1, <3>2, <3>3 DEF IInv
  <2>4. CASE irqDone # NoBuf
    <3> DEFINE R == [buf : Buffers, seq : 0 .. SeqMod - 1]
               n == Len(doneList)
               e == [buf |-> irqDone, seq |-> sequence]
    <3>1. /\ owner' = [owner EXCEPT ![irqDone] = "done"] /\ doneList' = Append(doneList, e)
          /\ sequence' = (sequence + 1) % SeqMod
          /\ UNCHANGED <<vqueue, pc, queued_bufs, active>>
      BY <1>4, <2>4 DEF IrqDone, NextSequence
    <3>2. irqDone \in Buffers /\ owner[irqDone] = "driver"
      BY <2>4 DEF IInv, TypeOK, OneOwner
    <3>3. e \in R /\ doneList \in Seq(R)
      BY <3>2 DEF IInv, TypeOK
    <3>4. /\ e.buf = irqDone /\ e.seq = sequence
      OBVIOUS
    <3> HIDE DEF R, e
    <3>5. /\ doneList' \in Seq(R) /\ Len(doneList') = n + 1 /\ n \in Nat
          /\ DOMAIN doneList = 1 .. n /\ DOMAIN doneList' = 1 .. n + 1
          /\ doneList'[n + 1] = e
          /\ \A i \in 1 .. n : doneList'[i] = doneList[i]
      BY <3>1, <3>3
    <3>6. \A i \in 1 .. n + 1 : i \in 1 .. n \/ i = n + 1
      BY <3>5
    <3>7. 1 .. n \subseteq 1 .. n + 1 /\ n + 1 \in 1 .. n + 1
      BY <3>5
    <3>8. \A c \in Buffers : owner'[c] = IF c = irqDone THEN "done" ELSE owner[c]
      BY <3>1 DEF IInv, TypeOK
    <3>9. TypeOK'
      <4>1. owner' \in [Buffers -> Owners]
        BY <3>1 DEF IInv, TypeOK, Owners
      <4>2. sequence' \in 0 .. SeqMod - 1
        BY <3>1, TvdAssumption DEF IInv, TypeOK
      <4> QED
        BY <1>4, <2>2, <3>5, <4>1, <4>2 DEF IInv, TypeOK, IrqDone, R, regs
    <3>10. OneOwner'
      <4>1. \A c \in Buffers : owner'[c] = "driver" <=> c = active \/ In(c, queued_bufs)
        BY <2>4, <3>8 DEF IInv, OneOwner
      <4>2. \A c \in Buffers : owner'[c] = "queued" <=> In(c, vqueue)
        BY <3>2, <3>8 DEF IInv, OneOwner
      <4>3. ~In(NoBuf, queued_bufs)
        BY NoBufIsNotQueued DEF IInv
      <4> QED
        BY <2>2, <3>1, <4>1, <4>2, <4>3, TvdAssumption DEF IInv, OneOwner
    <3>11. OneDelivery'
      <4>1. \A i \in 1 .. n : doneList[i].buf # irqDone
        BY <1>1, <3>2, <3>5 DEF IInv, OneDelivery
      <4>2. ASSUME NEW i \in 1 .. n + 1, NEW j \in 1 .. n + 1, doneList'[i].buf = doneList'[j].buf
            PROVE  i = j
        BY <1>1, <3>4, <3>5, <3>6, <4>1, <4>2 DEF IInv, OneDelivery
      <4>3. ASSUME NEW c \in Buffers
            PROVE  owner'[c] = "done" <=> \E i \in 1 .. n + 1 : doneList'[i].buf = c
        <5>1. owner[c] = "done" <=> \E i \in 1 .. n : doneList[i].buf = c
          BY <1>1, <3>5 DEF IInv, OneDelivery
        <5>2. (\E i \in 1 .. n + 1 : doneList'[i].buf = c)
                <=> (\E i \in 1 .. n : doneList[i].buf = c) \/ c = irqDone
          BY <3>4, <3>5, <3>6, <3>7
        <5> QED
          BY <3>8, <5>1, <5>2
      <4> QED
        BY <3>5, <4>2, <4>3 DEF OneDelivery
    <3>12. SequenceHasNoGap' /\ SequenceAgrees'
      <4>1. ASSUME NEW i \in 1 .. n
            PROVE  doneList'[i + 1].seq = (doneList'[i].seq + 1) % SeqMod
        <5>1. CASE i = n
          BY <3>4, <3>5, <4>1, <5>1 DEF IInv, SequenceAgrees
        <5>2. CASE i # n
          <6>1. i \in 1 .. n - 1 /\ i + 1 \in 1 .. n
            <7>1. n \in Nat /\ i \in 1 .. n
              BY <3>5, <4>1
            <7> HIDE DEF n
            <7> QED
              BY <5>2, <7>1
          <6> QED
            BY <3>5, <6>1 DEF IInv, SequenceHasNoGap
        <5> QED
          BY <5>1, <5>2
      <4>2. Len(doneList') - 1 = n
        BY <3>5
      <4> QED
        BY <3>1, <3>4, <3>5, <4>1, <4>2 DEF SequenceHasNoGap, SequenceAgrees
    <3> QED
      BY <2>1, <3>9, <3>10, <3>11, <3>12 DEF IInv
  <2> QED
    BY <2>3, <2>4
<1> QED
  BY <1>2, <1>3, <1>4 DEF Irq

LEMMA HwFrameIInv ==
  ASSUME IInv, HwFrame
  PROVE  IInv'
<1>1. TypeOK'
  <2>1. filled' \in [Buffers -> BOOLEAN] /\ overrun' \in BOOLEAN
    BY DEF HwFrame
  <2> QED
    BY <2>1 DEF IInv, TypeOK, HwFrame, vb2, tvd, irq
<1>2. OneOwner' /\ OneDelivery' /\ SequenceHasNoGap' /\ SequenceAgrees'
  BY DEF IInv, OneOwner, OneDelivery, SequenceHasNoGap, SequenceAgrees, HwFrame, vb2, tvd, irq
<1>3. StartAgrees' /\ StopAgrees' /\ StreamAgrees'
  BY DEF IInv, HwFrame, StartAgrees, StopAgrees, StreamAgrees, StartSteps, StopSteps,
     Quiet, Live, vb2, tvd, irq
<1> QED
  BY <1>1, <1>2, <1>3 DEF IInv

LEMMA StutterIInv == IInv /\ UNCHANGED vars => IInv'
<1> SUFFICES ASSUME IInv, UNCHANGED vars PROVE IInv'
  OBVIOUS
<1>1. TypeOK' /\ OneOwner' /\ OneDelivery' /\ SequenceHasNoGap' /\ SequenceAgrees'
  BY DEF IInv, TypeOK, OneOwner, OneDelivery, SequenceHasNoGap, SequenceAgrees, vars, vb2, tvd,
     regs, irq
<1>2. StartAgrees' /\ StopAgrees' /\ StreamAgrees'
  BY DEF IInv, StartAgrees, StopAgrees, StreamAgrees, Quiet, Live, vars, vb2, tvd, regs, irq
<1> QED
  BY <1>1, <1>2 DEF IInv

LEMMA NextIInv == IInv /\ [Next]_vars => IInv'
<1> SUFFICES ASSUME IInv, [Next]_vars PROVE IInv'
  OBVIOUS
<1>1. CASE ReqBufs \/ FreeBufs \/ DQBuf \/ StreamOn \/ StreamOff
  BY <1>1, ReqBufsIInv, FreeBufsIInv, DQBufIInv, StreamOnIInv, StreamOffIInv
<1>2. CASE \E b \in Buffers : QBuf(b)
  BY <1>2, QBufIInv
<1>3. CASE Start \/ Stop
  BY <1>3, StartIInv, StopIInv
<1>4. CASE Irq \/ HwFrame
  BY <1>4, IrqIInv, HwFrameIInv
<1>5. CASE UNCHANGED vars
  BY <1>5, StutterIInv
<1> QED
  BY <1>1, <1>2, <1>3, <1>4, <1>5 DEF Next

-----------------------------------------------------------------------------
(* The theorems. *)

\* The inductive invariant holds: registers, lists and flags agree at every
\* step of start, stop and interrupt.
THEOREM IInvHolds == Spec => []IInv
<1> QED
  BY InitIInv, NextIInv, PTL DEF Spec

\* Every variable keeps its range; the sequence number is an unsigned int.
THEOREM TypeCorrect == Spec => []TypeOK
<1>1. IInv => TypeOK
  BY DEF IInv
<1> QED
  BY <1>1, IInvHolds, PTL

\* The decoder writes only to buffers that the driver owns: to none that the
\* client can read, whatever step of an ioctl an interrupt hits.
THEOREM DmaStaysInOwned == Spec => []DmaOnlyIntoOwned
<1>1. IInv => DmaOnlyIntoOwned
  BY TvdAssumption DEF IInv, TypeOK, OneOwner, StreamAgrees, DmaOnlyIntoOwned
<1> QED
  BY <1>1, IInvHolds, PTL

\* No buffer is lost in the driver, in two places of it, or given back twice.
THEOREM BuffersHaveOneOwner == Spec => [](OneOwner /\ OneDelivery)
<1>1. IInv => OneOwner /\ OneDelivery
  BY DEF IInv
<1> QED
  BY <1>1, IInvHolds, PTL

\* When suniv_tvd_stop_streaming has returned, the driver has no buffer and the
\* decoder and its interrupt are off.
THEOREM StopIsQuiet == Spec => []StoppedIsQuiet
<1>1. ASSUME IInv, pc = "sp_cancel" \/ (pc = "idle" /\ ~started)
      PROVE  /\ active = NoBuf /\ queued_bufs = <<>> /\ irqDone = NoBuf
             /\ ~captureEn /\ ~intEnable /\ irqPc = "none"
  BY <1>1 DEF IInv, StopAgrees, StreamAgrees, Quiet
<1>2. ASSUME IInv, active = NoBuf, queued_bufs = <<>>, irqDone = NoBuf
      PROVE  \A b \in Buffers : owner[b] # "driver"
  BY <1>2, EmptyQueue, TvdAssumption DEF IInv, OneOwner
<1>3. IInv => StoppedIsQuiet
  BY <1>1, <1>2 DEF StoppedIsQuiet
<1> QED
  BY <1>3, IInvHolds, PTL

\* Between calls a running stream captures whenever the driver has a buffer.
THEOREM StreamStaysAlive == Spec => []StreamIsAlive
<1>1. IInv => StreamIsAlive
  BY DEF IInv, StreamAgrees, Quiet, Live, StreamIsAlive
<1> QED
  BY <1>1, IInvHolds, PTL

\* suniv_tvd_start_streaming never takes its -EIO exit.
THEOREM StartHasBuffer == Spec => []StartFindsBuffer
<1>1. IInv => StartFindsBuffer
  BY DEF IInv, StartAgrees, StartFindsBuffer
<1> QED
  BY <1>1, IInvHolds, PTL

\* Frames that wait for DQBUF are numbered without a gap, also where the number
\* wraps.
THEOREM NumbersHaveNoGap == Spec => []SequenceHasNoGap
<1>1. IInv => SequenceHasNoGap
  BY DEF IInv
<1> QED
  BY <1>1, IInvHolds, PTL

-----------------------------------------------------------------------------
(* Frames are fresh. *)

LEMMA InitFreshInv == Init => FreshInv
<1> SUFFICES ASSUME Init PROVE FreshInv
  OBVIOUS
<1>1. StatusAgrees /\ FilledAgrees
  BY DEF Init, StatusAgrees, FilledAgrees, FramesAreFresh
<1> QED
  BY <1>1, InitIInv DEF FreshInv

\* The decoder is off, or about to be started, exactly where no interrupt is
\* pending.
LEMMA StatusStep ==
  ASSUME FreshInv, [Next]_vars
  PROVE  StatusAgrees'
<1> USE DEF FreshInv, IInv, TypeOK, StatusAgrees, StartSteps, StopSteps, ThreadAt
<1>1. CASE ReqBufs \/ FreeBufs \/ DQBuf \/ StreamOn \/ StreamOff
  BY <1>1 DEF ReqBufs, FreeBufs, DQBuf, StreamOn, HandOver, StreamOff, vb2, tvd, regs, StreamAgrees
<1>2. CASE \E b \in Buffers : QBuf(b)
  BY <1>2 DEF QBuf, HandOver, regs
<1>3. CASE Start
  BY <1>3 DEF Start, StartLocked, StartClearStatus, StartProgram, StartEnableInt, StartCapture, vb2, regs
<1>4. CASE Stop
  BY <1>4 DEF Stop, StopFlag, StopDisableInt, StopCapture, StopClearStatus, ReturnAllBuffers,
     QueueCancel, vb2, regs, StopAgrees
<1>5. CASE Irq
  BY <1>5 DEF Irq, IrqAck, IrqSwap, IrqDone, vb2, regs
<1>6. CASE HwFrame
  BY <1>6 DEF HwFrame, vb2, StartAgrees, StopAgrees, StreamAgrees, Quiet
<1>7. CASE UNCHANGED vars
  BY <1>7 DEF vars, vb2, regs
<1> QED
  BY <1>1, <1>2, <1>3, <1>4, <1>5, <1>6, <1>7 DEF Next

\* A step that fills or empties nothing and moves no buffer.
LEMMA FilledStutter ==
  ASSUME FilledAgrees,
         UNCHANGED <<doneList, filled, overrun, active, irqDone, irqPc>>,
         intStatus' => intStatus
  PROVE  FilledAgrees'
BY Zenon DEF FilledAgrees, FramesAreFresh

LEMMA DoneAreBuffers ==
  ASSUME IInv
  PROVE  \A i \in DOMAIN doneList : doneList[i].buf \in Buffers
<1> DEFINE S == [buf : Buffers, seq : 0 .. SeqMod - 1]
<1>1. doneList \in Seq(S) /\ \A e \in S : e.buf \in Buffers
  BY DEF IInv, TypeOK
<1> HIDE DEF S
<1>2. \A i \in DOMAIN doneList : doneList[i] \in S
  BY <1>1
<1> QED
  BY <1>1, <1>2

LEMMA ClientFilled ==
  ASSUME FreshInv, ReqBufs \/ FreeBufs \/ StreamOn \/ StreamOff
  PROVE  FilledAgrees'
<1>1. UNCHANGED <<doneList, filled, overrun, active, irqDone, irqPc, intStatus>>
  BY DEF ReqBufs, FreeBufs, StreamOn, HandOver, StreamOff, vb2, tvd, regs, irq
<1> QED
  BY <1>1, FilledStutter DEF FreshInv

LEMMA DQBufFilled ==
  ASSUME FreshInv, DQBuf
  PROVE  FilledAgrees'
<1>1. UNCHANGED <<filled, overrun, active, irqDone, irqPc, intStatus>>
  BY DEF DQBuf, tvd, regs, irq
<1>2. ASSUME NEW i \in DOMAIN doneList'
      PROVE  \E j \in DOMAIN doneList : doneList'[i] = doneList[j]
  <2> DEFINE S == [buf : Buffers, seq : 0 .. SeqMod - 1]
  <2>1. doneList \in Seq(S) /\ doneList # <<>> /\ doneList' = Tail(doneList)
    BY DEF DQBuf, FreshInv, IInv, TypeOK
  <2> HIDE DEF S
  <2>2. i + 1 \in DOMAIN doneList /\ doneList'[i] = doneList[i + 1]
    BY <1>2, <2>1
  <2> QED
    BY <2>2
<1>3. FramesAreFresh => FramesAreFresh'
  BY <1>1, <1>2, Zenon DEF FramesAreFresh
<1> QED
  BY <1>1, <1>3, Zenon DEF FreshInv, FilledAgrees

\* The buffer queued is neither active nor done, so no other's contents are
\* forgotten with it.
LEMMA QBufFilled ==
  ASSUME FreshInv, NEW b \in Buffers, QBuf(b)
  PROVE  FilledAgrees'
<1>1. /\ pc = "idle" /\ irqPc = "none" /\ irqDone = NoBuf /\ owner[b] = "user"
      /\ UNCHANGED <<doneList, irqPc, irqDone, overrun, intStatus>>
  BY DEF QBuf, ThreadAt, FreshInv, IInv, StreamAgrees, HandOver, irq, regs
<1>2. b # NoBuf /\ b # active
  BY <1>1, TvdAssumption DEF FreshInv, IInv, OneOwner
<1>3. /\ filled' = [filled EXCEPT ![b] = FALSE] /\ filled \in [Buffers -> BOOLEAN]
      /\ active \in Buffers \cup {NoBuf}
  BY DEF QBuf, FreshInv, IInv, TypeOK
<1>4. \A c \in Buffers : c # b => filled'[c] = filled[c]
  BY <1>3
<1>5. active # NoBuf => active' = active /\ filled'[active] = filled[active]
  <2>1. active # NoBuf => active' = active
    BY DEF QBuf, BufQueue, HandOver, tvd
  <2> QED
    BY <2>1, <1>2, <1>3, <1>4
<1>6. ASSUME NEW i \in DOMAIN doneList
      PROVE  doneList[i].buf \in Buffers /\ doneList[i].buf # b
  <2>1. doneList[i].buf \in Buffers
    BY DoneAreBuffers DEF FreshInv
  <2>2. owner[doneList[i].buf] = "done"
    BY <1>1, <2>1 DEF FreshInv, IInv, OneDelivery
  <2> QED
    BY <1>1, <2>1, <2>2
<1>7. CASE overrun
  BY <1>1, <1>7, Zenon DEF FilledAgrees
<1>8. CASE ~overrun
  <2>1. \A i \in DOMAIN doneList : filled[doneList[i].buf]
    BY <1>8, Zenon DEF FreshInv, FilledAgrees, FramesAreFresh
  <2>2. FramesAreFresh'
    BY <1>1, <1>4, <1>6, <2>1, Zenon DEF FramesAreFresh
  <2>3. intStatus => active # NoBuf /\ filled[active]
    BY <1>8, Zenon DEF FreshInv, FilledAgrees
  <2> QED
    BY <1>1, <1>5, <2>2, <2>3, Zenon DEF FilledAgrees
<1> QED
  BY <1>7, <1>8

LEMMA StartStopFilled ==
  ASSUME FreshInv, Start \/ Stop
  PROVE  FilledAgrees'
<1>1. CASE StartLocked
  <2>1. UNCHANGED <<doneList, filled, overrun, irqDone, irqPc, intStatus>> /\ ~intStatus /\ irqPc = "none"
    BY <1>1 DEF StartLocked, ThreadAt, FreshInv, StatusAgrees, StartSteps, vb2, regs, irq
  <2> QED
    BY <2>1, Zenon DEF FreshInv, FilledAgrees, FramesAreFresh
<1>2. CASE ReturnAllBuffers
  <2>1. UNCHANGED <<doneList, filled, overrun, irqDone, irqPc, intStatus>> /\ ~intStatus /\ irqPc = "none"
    BY <1>2 DEF ReturnAllBuffers, ThreadAt, FreshInv, StatusAgrees, regs, irq
  <2> QED
    BY <2>1, Zenon DEF FreshInv, FilledAgrees, FramesAreFresh
<1>3. CASE QueueCancel
  <2>1. doneList' = <<>> /\ ~intStatus' /\ irqPc' = "none" /\ irqDone' = NoBuf
    BY <1>3 DEF QueueCancel, ThreadAt, FreshInv, StatusAgrees, IInv, StreamAgrees, regs, irq
  <2> QED
    BY <2>1 DEF FilledAgrees, FramesAreFresh
<1>4. CASE StartClearStatus \/ StartProgram \/ StartEnableInt \/ StartCapture
           \/ StopFlag \/ StopDisableInt \/ StopCapture \/ StopClearStatus
  <2>1. UNCHANGED <<doneList, filled, overrun, active, irqDone, irqPc>> /\ (intStatus' => intStatus)
    BY <1>4 DEF StartClearStatus, StartProgram, StartEnableInt, StartCapture, StopFlag, StopDisableInt,
       StopCapture, StopClearStatus, vb2, tvd, regs, irq
  <2> QED
    BY <2>1, FilledStutter DEF FreshInv
<1> QED
  BY <1>1, <1>2, <1>3, <1>4 DEF Start, Stop

\* The handler gives back the buffer whose frame raised the interrupt.
LEMMA IrqFilled ==
  ASSUME FreshInv, Irq
  PROVE  FilledAgrees'
<1>0. irqDone # NoBuf => irqPc = "done"
  BY DEF FreshInv, IInv, StreamAgrees
<1>1. CASE IrqAck
  <2>1. /\ UNCHANGED <<doneList, filled, overrun, active, irqDone>>
        /\ irqPc = "none" /\ intStatus /\ ~intStatus' /\ irqPc' = "swap"
    BY <1>1 DEF IrqAck, vb2, tvd
  <2> QED
    BY <2>1, Zenon DEF FreshInv, FilledAgrees, FramesAreFresh
<1>2. CASE IrqSwap
  <2>1. /\ UNCHANGED <<doneList, filled, overrun, intStatus>>
        /\ irqPc = "swap" /\ irqDone' = active /\ irqPc' = "done"
    BY <1>2 DEF IrqSwap, vb2
  <2> QED
    BY <2>1 DEF FreshInv, FilledAgrees, FramesAreFresh
<1>3. CASE IrqDone
  <2>1. /\ UNCHANGED <<filled, overrun, intStatus, active>>
        /\ irqPc = "done" /\ irqDone' = NoBuf /\ irqPc' = "none"
    BY <1>3 DEF IrqDone, regs
  <2>2. CASE overrun
    BY <2>1, <2>2, Zenon DEF FilledAgrees
  <2>3. CASE ~overrun
    <3>1. ~intStatus /\ (irqDone # NoBuf => filled[irqDone])
      BY <2>1, <2>3 DEF FreshInv, FilledAgrees
    <3>2. \A i \in DOMAIN doneList : filled[doneList[i].buf]
      BY <2>3, Zenon DEF FreshInv, FilledAgrees, FramesAreFresh
    <3>3. CASE irqDone = NoBuf
      <4>1. doneList' = doneList
        BY <1>3, <3>3 DEF IrqDone
      <4> QED
        BY <4>1, <2>1, <3>1, <3>2 DEF FilledAgrees, FramesAreFresh
    <3>4. CASE irqDone # NoBuf
      <4> DEFINE e == [buf |-> irqDone, seq |-> sequence]
                 S == [buf : Buffers, seq : 0 .. SeqMod - 1]
      <4>1. doneList' = Append(doneList, e) /\ doneList \in Seq(S) /\ e \in S
        BY <1>3, <3>4 DEF IrqDone, FreshInv, IInv, TypeOK
      <4>2. e.buf = irqDone
        OBVIOUS
      <4> HIDE DEF e, S
      <4>3. ASSUME NEW i \in DOMAIN doneList'
            PROVE  doneList'[i] = e \/ (i \in DOMAIN doneList /\ doneList'[i] = doneList[i])
        BY <4>1, <4>3
      <4>4. \A i \in DOMAIN doneList' : filled[doneList'[i].buf]
        BY <4>2, <4>3, <3>1, <3>2, <3>4, Zenon
      <4> QED
        BY <4>4, <2>1, <3>1, Zenon DEF FilledAgrees, FramesAreFresh
    <3> QED
      BY <3>3, <3>4
  <2> QED
    BY <2>2, <2>3
<1> QED
  BY <1>1, <1>2, <1>3 DEF Irq

\* A frame is completed in the active buffer.
LEMMA HwFrameFilled ==
  ASSUME FreshInv, HwFrame
  PROVE  FilledAgrees'
<1>1. UNCHANGED <<doneList, active, irqDone, irqPc>> /\ overrun' = (overrun \/ irqPc # "none")
  BY DEF HwFrame, vb2, tvd, irq
<1>2. active # NoBuf /\ addr = active /\ active \in Buffers
  BY DEF HwFrame, FreshInv, IInv, StreamAgrees, TypeOK
<1>3. \A c \in Buffers : filled'[c] = (filled[c] \/ c = addr)
  BY DEF HwFrame
<1>4. CASE overrun \/ irqPc # "none"
  BY <1>1, <1>4, Zenon DEF FilledAgrees
<1>5. CASE ~overrun /\ irqPc = "none"
  <2>1. \A i \in DOMAIN doneList : filled[doneList[i].buf]
    BY <1>5, Zenon DEF FreshInv, FilledAgrees, FramesAreFresh
  <2>2. \A i \in DOMAIN doneList : doneList[i].buf \in Buffers
    BY DoneAreBuffers DEF FreshInv
  <2>3. \A i \in DOMAIN doneList' : filled'[doneList'[i].buf]
    BY <1>1, <1>3, <2>1, <2>2, Zenon
  <2>4. filled'[active]
    BY <1>2, <1>3, Zenon
  <2>5. irqDone = NoBuf
    BY <1>5 DEF FreshInv, IInv, StreamAgrees
  <2> QED
    BY <1>1, <1>2, <1>5, <2>3, <2>4, <2>5 DEF FilledAgrees, FramesAreFresh
<1> QED
  BY <1>4, <1>5

LEMMA NextFreshInv == FreshInv /\ [Next]_vars => FreshInv'
<1> SUFFICES ASSUME FreshInv, [Next]_vars PROVE FreshInv'
  OBVIOUS
<1>1. IInv' /\ StatusAgrees'
  BY NextIInv, StatusStep DEF FreshInv
<1>2. CASE UNCHANGED vars
  <2>1. UNCHANGED <<doneList, filled, overrun, active, irqDone, irqPc, intStatus>>
    BY <1>2 DEF vars, vb2, tvd, regs, irq
  <2> QED
    BY <2>1, <1>1, FilledStutter DEF FreshInv
<1>3. CASE Next
  BY <1>1, <1>3, ClientFilled, DQBufFilled, QBufFilled, StartStopFilled, IrqFilled, HwFrameFilled
     DEF Next, FreshInv
<1> QED
  BY <1>2, <1>3

\* Wherever the interrupt strikes and whatever the client calls, a buffer DQBUF
\* returns holds a frame captured since its QBUF, as long as no frame completes
\* while the handler runs.
THEOREM DeliveredFramesAreFresh == Spec => []FramesAreFresh
<1>1. FreshInv => FramesAreFresh
  BY Zenon DEF FreshInv, FilledAgrees, FramesAreFresh
<1>2. Spec => []FreshInv
  BY InitFreshInv, NextFreshInv, PTL DEF Spec
<1> QED
  BY <1>1, <1>2, PTL

-----------------------------------------------------------------------------
(* To the client the driver is a CaptureQueue. *)

LEMMA OneFirst ==
  ASSUME NEW S, NEW b \in S, NEW s \in Seq(S)
  PROVE  /\ <<b>> \o s \in Seq(S) /\ <<b>> \o s # <<>>
         /\ Head(<<b>> \o s) = b /\ Tail(<<b>> \o s) = s
         /\ \A x : In(x, <<b>> \o s) => x = b \/ In(x, s)
<1>1. <<b>> \in Seq(S) /\ Len(<<b>>) = 1 /\ <<b>>[1] = b
  OBVIOUS
<1>2. /\ <<b>> \o s \in Seq(S) /\ Len(<<b>> \o s) = Len(s) + 1 /\ Len(s) \in Nat
      /\ DOMAIN (<<b>> \o s) = 1 .. Len(s) + 1 /\ DOMAIN s = 1 .. Len(s)
      /\ \A i \in 1 .. Len(s) + 1 : (<<b>> \o s)[i] = IF i <= 1 THEN b ELSE s[i - 1]
  BY <1>1
<1> DEFINE t == <<b>> \o s
<1> HIDE DEF t
<1>3. t # <<>> /\ Head(t) = b
  BY <1>2 DEF t
<1>4. Tail(t) = s
  <2>1. Tail(t) \in Seq(S) /\ Len(Tail(t)) = Len(s) /\ \A i \in 1 .. Len(s) : Tail(t)[i] = t[i + 1]
    BY <1>2, <1>3, HeadTailProperties DEF t
  <2>2. \A i \in 1 .. Len(s) : t[i + 1] = s[i]
    <3>1. \A i \in 1 .. Len(s) : i + 1 \in 1 .. Len(s) + 1 /\ ~(i + 1 <= 1) /\ (i + 1) - 1 = i
      BY <1>2
    <3> QED
      BY <1>2, <3>1 DEF t
  <2> QED
    BY <2>1, <2>2, SeqEqual
<1>5. \A x : In(x, t) => x = b \/ In(x, s)
  <2>1. \A i \in 1 .. Len(s) + 1 : i <= 1 \/ i - 1 \in 1 .. Len(s)
    BY <1>2
  <2> QED
    BY <1>2, <2>1 DEF In, t
<1> QED
  BY <1>2, <1>3, <1>4, <1>5 DEF t

LEMMA HeadTailJoin ==
  ASSUME NEW S, NEW s \in Seq(S), s # <<>>
  PROVE  <<Head(s)>> \o Tail(s) = s
<1>1. /\ Head(s) \in S /\ Tail(s) \in Seq(S) /\ Len(s) \in Nat \ {0}
      /\ Len(Tail(s)) = Len(s) - 1 /\ Head(s) = s[1]
      /\ \A i \in 1 .. Len(s) - 1 : Tail(s)[i] = s[i + 1]
  BY HeadTailProperties
<1>2. <<Head(s)>> \in Seq(S) /\ Len(<<Head(s)>>) = 1 /\ <<Head(s)>>[1] = Head(s)
  BY <1>1
<1> DEFINE t == <<Head(s)>> \o Tail(s)
<1>3. /\ t \in Seq(S) /\ Len(t) = Len(s)
      /\ \A i \in 1 .. Len(s) : t[i] = IF i <= 1 THEN Head(s) ELSE Tail(s)[i - 1]
  BY <1>1, <1>2, ConcatProperties
<1> HIDE DEF t
<1>4. ASSUME NEW i \in 1 .. Len(s)
      PROVE  t[i] = s[i]
  <2>1. CASE i = 1
    BY <1>1, <1>3, <2>1
  <2>2. CASE i # 1
    <3>1. ~(i <= 1) /\ i - 1 \in 1 .. Len(s) - 1 /\ (i - 1) + 1 = i
      BY <1>1, <2>2
    <3> QED
      BY <1>1, <1>3, <3>1
  <2> QED
    BY <2>1, <2>2
<1> QED
  BY <1>3, <1>4, SeqEqual DEF t

LEMMA AppendToJoin ==
  ASSUME NEW S, NEW s \in Seq(S), NEW t \in Seq(S), NEW b \in S
  PROVE  s \o Append(t, b) = Append(s \o t, b)
<1>1. s \o t \in Seq(S) /\ <<b>> \in Seq(S)
  BY ConcatProperties
<1>2. Append(t, b) = t \o <<b>> /\ Append(s \o t, b) = (s \o t) \o <<b>>
  BY <1>1, AppendIsConcat
<1> QED
  BY <1>1, <1>2, ConcatAssociative

\* What the client waits for: v before the start, then the buffer the handler
\* holds, the active one and those queued behind it.
Line(v, d, a, q) == v \o AsSeq(d) \o AsSeq(a) \o q

LEMMA LineBefore ==
  ASSUME NEW v \in Seq(Buffers)
  PROVE  Line(v, NoBuf, NoBuf, <<>>) = v
  BY ConcatEmptySeq DEF Line, AsSeq

LEMMA LineDuring ==
  ASSUME NEW q \in Seq(Buffers), NEW d \in Buffers \cup {NoBuf}, NEW a \in Buffers \cup {NoBuf}
  PROVE  Line(<<>>, d, a, q) = AsSeq(d) \o (AsSeq(a) \o q)
<1>1. AsSeq(d) \in Seq(Buffers) /\ AsSeq(a) \in Seq(Buffers)
  BY DEF AsSeq
<1>2. <<>> \o AsSeq(d) = AsSeq(d)
  BY <1>1, ConcatEmptySeq
<1>3. (AsSeq(d) \o AsSeq(a)) \o q = AsSeq(d) \o (AsSeq(a) \o q)
  BY <1>1, ConcatAssociative
<1> QED
  BY <1>2, <1>3 DEF Line

LEMMA LineOfTwo ==
  ASSUME NEW q \in Seq(Buffers), NEW a \in Buffers \cup {NoBuf}
  PROVE  Line(<<>>, NoBuf, a, q) = AsSeq(a) \o q
<1>1. AsSeq(a) \in Seq(Buffers) /\ AsSeq(NoBuf) = <<>> /\ <<>> \in Seq(Buffers)
  BY DEF AsSeq
<1>2. <<>> \o <<>> = <<>> /\ <<>> \o AsSeq(a) = AsSeq(a)
  BY <1>1, ConcatEmptySeq
<1> QED
  BY <1>1, <1>2 DEF Line

\* The buffers of a list of finished frames.
BufsOf(l) == [i \in DOMAIN l |-> l[i].buf]

LEMMA BufsOfSeq ==
  ASSUME NEW l \in Seq([buf : Buffers, seq : 0 .. SeqMod - 1])
  PROVE  /\ BufsOf(l) \in Seq(Buffers) /\ Len(BufsOf(l)) = Len(l)
         /\ DOMAIN BufsOf(l) = 1 .. Len(l) /\ DOMAIN l = 1 .. Len(l) /\ Len(l) \in Nat
         /\ \A i \in 1 .. Len(l) : BufsOf(l)[i] = l[i].buf
<1>1. DOMAIN l = 1 .. Len(l) /\ Len(l) \in Nat /\ \A i \in 1 .. Len(l) : l[i].buf \in Buffers
  <2> DEFINE R == [buf : Buffers, seq : 0 .. SeqMod - 1]
  <2>1. \A r \in R : r.buf \in Buffers
    OBVIOUS
  <2>2. l \in Seq(R)
    OBVIOUS
  <2> HIDE DEF R
  <2>3. DOMAIN l = 1 .. Len(l) /\ Len(l) \in Nat /\ \A i \in 1 .. Len(l) : l[i] \in R
    BY <2>2
  <2> QED
    BY <2>1, <2>3
<1>2. BufsOf(l) = [i \in 1 .. Len(l) |-> l[i].buf]
  BY <1>1 DEF BufsOf
<1> QED
  BY <1>1, <1>2

LEMMA BufsOfEmpty == BufsOf(<<>>) = <<>>
<1>1. <<>> \in Seq([buf : Buffers, seq : 0 .. SeqMod - 1]) /\ Len(<<>>) = 0
  OBVIOUS
<1>2. BufsOf(<<>>) \in Seq(Buffers) /\ Len(BufsOf(<<>>)) = 0
  BY <1>1, BufsOfSeq
<1> QED
  BY <1>2, EmptySeq

LEMMA BufsOfAppend ==
  ASSUME NEW l \in Seq([buf : Buffers, seq : 0 .. SeqMod - 1]),
         NEW e \in [buf : Buffers, seq : 0 .. SeqMod - 1]
  PROVE  BufsOf(Append(l, e)) = Append(BufsOf(l), e.buf)
<1> DEFINE n == Len(l)
<1>1. e.buf \in Buffers
  OBVIOUS
<1>2. /\ Append(l, e) \in Seq([buf : Buffers, seq : 0 .. SeqMod - 1]) /\ Len(Append(l, e)) = n + 1
      /\ \A i \in 1 .. n : Append(l, e)[i] = l[i]
      /\ Append(l, e)[n + 1] = e
  BY AppendProperties
<1>3. /\ BufsOf(l) \in Seq(Buffers) /\ Len(BufsOf(l)) = n /\ n \in Nat
      /\ \A i \in 1 .. n : BufsOf(l)[i] = l[i].buf
  BY BufsOfSeq
<1>4. /\ BufsOf(Append(l, e)) \in Seq(Buffers) /\ Len(BufsOf(Append(l, e))) = n + 1
      /\ \A i \in 1 .. n + 1 : BufsOf(Append(l, e))[i] = Append(l, e)[i].buf
  BY <1>2, BufsOfSeq
<1>5. /\ Append(BufsOf(l), e.buf) \in Seq(Buffers) /\ Len(Append(BufsOf(l), e.buf)) = n + 1
      /\ \A i \in 1 .. n : Append(BufsOf(l), e.buf)[i] = BufsOf(l)[i]
      /\ Append(BufsOf(l), e.buf)[n + 1] = e.buf
  BY <1>1, <1>3, AppendProperties
<1>6. ASSUME NEW i \in 1 .. n + 1
      PROVE  BufsOf(Append(l, e))[i] = Append(BufsOf(l), e.buf)[i]
  <2>1. CASE i = n + 1
    BY <1>2, <1>4, <1>5, <2>1
  <2>2. CASE i # n + 1
    <3>1. i \in 1 .. n
      BY <1>3, <2>2
    <3> QED
      BY <1>2, <1>3, <1>4, <1>5, <3>1
  <2> QED
    BY <2>1, <2>2
<1> QED
  BY <1>4, <1>5, <1>6, SeqEqual

LEMMA BufsOfTail ==
  ASSUME NEW l \in Seq([buf : Buffers, seq : 0 .. SeqMod - 1]), l # <<>>
  PROVE  /\ BufsOf(l) # <<>> /\ Head(BufsOf(l)) = Head(l).buf
         /\ BufsOf(Tail(l)) = Tail(BufsOf(l))
<1> DEFINE n == Len(l)
<1>1. /\ n \in Nat \ {0} /\ Head(l) = l[1]
      /\ Tail(l) \in Seq([buf : Buffers, seq : 0 .. SeqMod - 1]) /\ Len(Tail(l)) = n - 1
      /\ \A i \in 1 .. n - 1 : Tail(l)[i] = l[i + 1]
  BY EmptySeq, HeadTailProperties
<1>2. /\ BufsOf(l) \in Seq(Buffers) /\ Len(BufsOf(l)) = n
      /\ \A i \in 1 .. n : BufsOf(l)[i] = l[i].buf
  BY BufsOfSeq
<1>3. /\ BufsOf(Tail(l)) \in Seq(Buffers) /\ Len(BufsOf(Tail(l))) = n - 1
      /\ \A i \in 1 .. n - 1 : BufsOf(Tail(l))[i] = Tail(l)[i].buf
  BY <1>1, BufsOfSeq
<1>4. BufsOf(l) # <<>>
  BY <1>1, <1>2, EmptySeq
<1>5. Head(BufsOf(l)) = BufsOf(l)[1] /\ 1 \in 1 .. n
  BY <1>1, <1>2, <1>4
<1>6. /\ Tail(BufsOf(l)) \in Seq(Buffers) /\ Len(Tail(BufsOf(l))) = n - 1
      /\ \A i \in 1 .. n - 1 : Tail(BufsOf(l))[i] = BufsOf(l)[i + 1]
  BY <1>2, <1>4, HeadTailProperties
<1>7. \A i \in 1 .. n - 1 : i + 1 \in 1 .. n
  BY <1>1
<1>8. BufsOf(Tail(l)) = Tail(BufsOf(l))
  <2>1. ASSUME NEW i \in 1 .. n - 1
        PROVE  BufsOf(Tail(l))[i] = Tail(BufsOf(l))[i]
    <3>1. BufsOf(Tail(l))[i] = l[i + 1].buf
      BY <1>1, <1>3
    <3>2. Tail(BufsOf(l))[i] = l[i + 1].buf
      BY <1>2, <1>6, <1>7
    <3> QED
      BY <3>1, <3>2
  <2> HIDE DEF n
  <2> QED
    BY <1>3, <1>6, <2>1, SeqEqual
<1> QED
  BY <1>1, <1>2, <1>4, <1>5, <1>8

LEMMA DeviceForm ==
  /\ Pending = IF pc = "sp_cancel" THEN <<>> ELSE Line(vqueue, irqDone, active, queued_bufs)
  /\ Ready = IF pc = "sp_cancel" THEN <<>> ELSE BufsOf(doneList)
  BY DEF Pending, Ready, Line, BufsOf

LEMMA DeviceFormNext ==
  /\ Pending' = IF pc' = "sp_cancel" THEN <<>>
                 ELSE Line(vqueue', irqDone', active', queued_bufs')
  /\ Ready' = IF pc' = "sp_cancel" THEN <<>> ELSE BufsOf(doneList')
  BY DEF Pending, Ready, Line, BufsOf

LEMMA DeviceInit == Init => Device!Init
<1> SUFFICES ASSUME Init PROVE Pending = <<>> /\ Ready = <<>>
  BY DEF Device!Init
<1>1. vqueue = <<>> /\ irqDone = NoBuf /\ active = NoBuf /\ queued_bufs = <<>> /\ doneList = <<>>
      /\ pc = "idle"
  BY DEF Init
<1>2. Line(<<>>, NoBuf, NoBuf, <<>>) = <<>>
  BY LineBefore, EmptySeq
<1> QED
  BY <1>1, <1>2, DeviceForm, BufsOfEmpty

\* A step that leaves the queues alone is none of the device's.
LEMMA DeviceStutter ==
  ASSUME UNCHANGED <<vqueue, irqDone, active, queued_bufs, doneList>>,
         pc # "sp_cancel", pc' # "sp_cancel"
  PROVE  UNCHANGED Device!vars
  BY DEF Device!vars, Pending, Ready

\* Before the stream starts the client waits for vqueue, then for the driver's.
LEMMA LineByPhase ==
  ASSUME IInv
  PROVE  /\ ~started => Line(vqueue, irqDone, active, queued_bufs) = vqueue
         /\ started => Line(vqueue, irqDone, active, queued_bufs)
                         = AsSeq(irqDone) \o (AsSeq(active) \o queued_bufs)
         /\ started /\ irqDone = NoBuf
              => Line(vqueue, irqDone, active, queued_bufs) = AsSeq(active) \o queued_bufs
<1>1. /\ vqueue \in Seq(Buffers) /\ queued_bufs \in Seq(Buffers)
      /\ irqDone \in Buffers \cup {NoBuf} /\ active \in Buffers \cup {NoBuf}
  BY DEF IInv, TypeOK
<1>2. ~started => irqDone = NoBuf /\ active = NoBuf /\ queued_bufs = <<>>
  BY DEF IInv, StreamAgrees, Quiet
<1>3. started => vqueue = <<>>
  BY DEF IInv, StreamAgrees
<1>4. Line(vqueue, NoBuf, NoBuf, <<>>) = vqueue
  BY <1>1, LineBefore
<1>5. /\ Line(<<>>, NoBuf, active, queued_bufs) = AsSeq(active) \o queued_bufs
      /\ Line(<<>>, irqDone, active, queued_bufs)
           = AsSeq(irqDone) \o (AsSeq(active) \o queued_bufs)
  BY <1>1, LineOfTwo, LineDuring
<1> QED
  BY <1>2, <1>3, <1>4, <1>5

LEMMA QBufStep ==
  ASSUME IInv, IInv', NEW b \in Buffers, QBuf(b)
  PROVE  Device!Queue(b)
<1>1. /\ pc = "idle" /\ irqPc = "none" /\ irqDone = NoBuf /\ irqDone' = NoBuf /\ owner[b] = "user"
      /\ doneList' = doneList /\ pc' # "sp_cancel"
      /\ vqueue \in Seq(Buffers) /\ queued_bufs \in Seq(Buffers)
  BY DEF IInv, TypeOK, QBuf, HandOver, ThreadAt, StreamAgrees, irq
<1>2. b # NoBuf /\ ~In(b, queued_bufs) /\ ~In(b, vqueue) /\ b # active
  BY <1>1, TvdAssumption DEF IInv, OneOwner
<1>3. ~In(b, Ready) /\ Ready' = Ready
  <2>1. \A i \in DOMAIN doneList : doneList[i].buf # b
    BY <1>1 DEF IInv, OneDelivery
  <2> QED
    BY <1>1, <2>1 DEF Ready, In
<1>4. SUFFICES ~In(b, Pending) /\ Pending' = Append(Pending, b)
  BY <1>3 DEF Device!Queue, Device!InSeq, In
<1>5. /\ Pending = Line(vqueue, irqDone, active, queued_bufs)
      /\ Pending' = Line(vqueue', irqDone', active', queued_bufs')
  BY <1>1, DeviceForm, DeviceFormNext
<1>6. CASE started
  <2>1. /\ BufQueue(b) /\ streaming /\ started' /\ vqueue' = <<>>
        /\ Line(vqueue, irqDone, active, queued_bufs) = AsSeq(active) \o queued_bufs
    BY <1>1, <1>6, LineByPhase DEF IInv, QBuf, StreamAgrees
  <2>2. CASE active = NoBuf
    <3>1. /\ queued_bufs = <<>> /\ Head(Append(<<>>, b)) = b /\ Tail(Append(<<>>, b)) = <<>>
          /\ Append(<<>>, b) = <<b>> /\ <<>> \o <<>> = <<>> /\ <<b>> \o <<>> = <<b>>
      BY <1>1, <1>6, <2>2 DEF IInv, StreamAgrees, Live
    <3>2. active' = b /\ queued_bufs' = <<>>
      BY <2>1, <2>2, <3>1 DEF BufQueue
    <3>3. Pending = <<>>
      BY <1>5, <2>1, <2>2, <3>1 DEF AsSeq
    <3>4. Pending' = <<b>>
      <4>1. Line(<<>>, NoBuf, b, <<>>) = <<b>>
        BY <1>2, <3>1, LineOfTwo, EmptySeq DEF AsSeq
      <4> QED
        BY <1>1, <1>5, <2>1, <3>2, <4>1
    <3> QED
      BY <3>1, <3>3, <3>4, EmptyQueue
  <2>3. CASE active # NoBuf
    <3>1. active \in Buffers /\ AsSeq(active) = <<active>> /\ <<active>> \in Seq(Buffers)
      BY <2>3 DEF IInv, TypeOK, AsSeq
    <3>2. queued_bufs' = Append(queued_bufs, b) /\ active' = active
      BY <2>1, <2>3 DEF BufQueue
    <3>3. Pending = <<active>> \o queued_bufs
      BY <1>5, <2>1, <3>1
    <3>4. Pending' = <<active>> \o Append(queued_bufs, b)
      <4>1. Append(queued_bufs, b) \in Seq(Buffers)
        BY <1>1
      <4>2. Line(<<>>, NoBuf, active, Append(queued_bufs, b)) = <<active>> \o Append(queued_bufs, b)
        BY <3>1, <4>1, LineOfTwo
      <4> QED
        BY <1>1, <1>5, <2>1, <3>2, <4>2
    <3>5. Pending' = Append(Pending, b)
      BY <1>1, <3>1, <3>3, <3>4, AppendToJoin
    <3>6. ~In(b, Pending)
      BY <1>1, <1>2, <3>1, <3>3, OneFirst
    <3> QED
      BY <3>5, <3>6
  <2> QED
    BY <2>2, <2>3
<1>7. CASE ~started
  <2>1. active = NoBuf /\ queued_bufs = <<>>
    BY <1>7 DEF IInv, StreamAgrees, Quiet
  <2>2. Append(vqueue, b) \in Seq(Buffers) /\ <<>> \o Append(vqueue, b) = Append(vqueue, b)
    BY <1>1, AppendProperties, ConcatEmptySeq
  <2>3. Pending = vqueue
    BY <1>5, <1>7, LineByPhase
  <2>4. Pending' = Append(vqueue, b)
    <3>1. CASE HandOver(Append(vqueue, b))
      <4>1. vqueue' = <<>> /\ active' = NoBuf /\ queued_bufs' = Append(vqueue, b)
        BY <2>1, <2>2, <3>1 DEF HandOver
      <4> QED
        BY <1>1, <1>5, <2>2, <4>1, LineOfTwo DEF AsSeq
    <3>2. CASE vqueue' = Append(vqueue, b) /\ UNCHANGED tvd
      <4>1. active' = NoBuf /\ queued_bufs' = <<>>
        BY <2>1, <3>2 DEF tvd
      <4> QED
        BY <1>1, <1>5, <2>2, <3>2, <4>1, LineBefore
    <3> QED
      BY <1>7, <3>1, <3>2 DEF QBuf
  <2> QED
    BY <1>2, <2>3, <2>4
<1> QED
  BY <1>6, <1>7

LEMMA ClientStep ==
  ASSUME IInv, IInv', ReqBufs \/ FreeBufs \/ DQBuf \/ StreamOn \/ StreamOff
  PROVE  [Device!Next]_Device!vars
<1>1. CASE ReqBufs
  BY <1>1, DeviceStutter DEF ReqBufs, ThreadAt, tvd, irq
<1>2. CASE FreeBufs
  <2>1. /\ ~started /\ pc = "idle" /\ pc' = "idle" /\ doneList' = <<>>
        /\ vqueue' = <<>> /\ irqDone' = NoBuf /\ active' = NoBuf /\ queued_bufs' = <<>>
    BY <1>2 DEF IInv, FreeBufs, ThreadAt, StreamAgrees, Quiet, tvd, irq
  <2>2. Line(<<>>, NoBuf, NoBuf, <<>>) = <<>>
    BY LineBefore, EmptySeq
  <2>3. Pending' = <<>> /\ Ready' = <<>>
    BY <2>1, <2>2, DeviceFormNext, BufsOfEmpty
  <2> QED
    BY <2>3 DEF Device!Next, Device!Stop
<1>3. CASE DQBuf
  <2>1. /\ pc = "idle" /\ pc' = "idle" /\ doneList # <<>> /\ doneList' = Tail(doneList)
        /\ UNCHANGED <<vqueue, irqDone, active, queued_bufs>>
        /\ doneList \in Seq([buf : Buffers, seq : 0 .. SeqMod - 1])
    BY <1>3 DEF IInv, TypeOK, DQBuf, ThreadAt, tvd, irq
  <2>2. Pending' = Pending
    BY <2>1 DEF Pending
  <2>3. Ready # <<>> /\ Ready' = Tail(Ready)
    BY <2>1, DeviceForm, DeviceFormNext, BufsOfTail
  <2> QED
    BY <2>2, <2>3 DEF Device!Next, Device!Fetch
<1>4. CASE StreamOn
  <2>1. /\ pc = "idle" /\ pc' # "sp_cancel" /\ ~started /\ irqDone = NoBuf
        /\ active = NoBuf /\ queued_bufs = <<>> /\ vqueue \in Seq(Buffers)
        /\ UNCHANGED <<doneList, irqDone>>
    BY <1>4 DEF IInv, TypeOK, StreamOn, HandOver, ThreadAt, StreamAgrees, Quiet, irq
  <2>2. CASE HandOver(vqueue)
    <3>1. <<>> \o vqueue = vqueue
      BY <2>1, ConcatEmptySeq
    <3>2. vqueue' = <<>> /\ active' = NoBuf /\ queued_bufs' = vqueue /\ irqDone' = NoBuf
      BY <2>1, <2>2, <3>1 DEF HandOver
    <3>3. Pending = vqueue
      BY <2>1, DeviceForm, LineByPhase
    <3>4. Pending' = vqueue
      BY <2>1, <3>1, <3>2, DeviceFormNext, LineOfTwo DEF AsSeq
    <3>5. Ready' = Ready
      BY <2>1 DEF Ready
    <3> QED
      BY <3>3, <3>4, <3>5 DEF Device!vars
  <2>3. CASE UNCHANGED <<owner, vqueue, started, tvd, regs, pc>>
    BY <2>1, <2>3, DeviceStutter DEF tvd
  <2> QED
    BY <1>4, <2>2, <2>3 DEF StreamOn
<1>5. CASE StreamOff
  <2>1. CASE started
    <3>1. pc # "sp_cancel" /\ pc' # "sp_cancel"
      BY <1>5, <2>1 DEF StreamOff, ThreadAt
    <3> QED
      BY <1>5, <3>1, DeviceStutter DEF StreamOff, vb2, tvd, irq
  <2>2. CASE ~started
    <3>1. Pending' = <<>> /\ Ready' = <<>>
      BY <1>5, <2>2 DEF StreamOff, Pending, Ready
    <3> QED
      BY <3>1 DEF Device!Next, Device!Stop
  <2> QED
    BY <2>1, <2>2
<1> QED
  BY <1>1, <1>2, <1>3, <1>4, <1>5

\* Taking the head of the queue as the active buffer leaves the line as it is.
LEMMA HeadBecomesActive ==
  ASSUME IInv, queued_bufs # <<>>
  PROVE  /\ AsSeq(Head(queued_bufs)) \o Tail(queued_bufs) = queued_bufs
         /\ Head(queued_bufs) \in Buffers /\ Tail(queued_bufs) \in Seq(Buffers)
<1>1. queued_bufs \in Seq(Buffers)
  BY DEF IInv, TypeOK
<1>2. Head(queued_bufs) \in Buffers /\ Tail(queued_bufs) \in Seq(Buffers)
  BY <1>1, HeadTailProperties
<1>3. AsSeq(Head(queued_bufs)) = <<Head(queued_bufs)>>
  BY <1>2, TvdAssumption DEF AsSeq
<1> QED
  BY <1>1, <1>2, <1>3, HeadTailJoin

LEMMA StartStep ==
  ASSUME IInv, IInv', Start
  PROVE  UNCHANGED Device!vars
<1>1. CASE StartLocked
  <2>1. /\ started /\ irqDone = NoBuf /\ active = NoBuf /\ queued_bufs # <<>>
        /\ pc # "sp_cancel" /\ pc' # "sp_cancel" /\ queued_bufs \in Seq(Buffers)
    BY <1>1 DEF IInv, TypeOK, StartAgrees, StreamAgrees, StartLocked, ThreadAt, StartSteps
  <2>2. /\ active' = Head(queued_bufs) /\ queued_bufs' = Tail(queued_bufs)
        /\ vqueue' = vqueue /\ irqDone' = NoBuf /\ doneList' = doneList /\ vqueue = <<>>
    BY <1>1, <2>1 DEF IInv, StreamAgrees, StartLocked, vb2, irq
  <2>3. Pending = queued_bufs
    <3>1. AsSeq(NoBuf) = <<>> /\ <<>> \o queued_bufs = queued_bufs
      BY <2>1, ConcatEmptySeq DEF AsSeq
    <3> QED
      BY <2>1, <3>1, DeviceForm, LineByPhase
  <2>4. Pending' = queued_bufs
    BY <2>1, <2>2, DeviceFormNext, LineOfTwo, HeadBecomesActive
  <2>5. Ready' = Ready
    BY <2>1, <2>2 DEF Ready
  <2> QED
    BY <2>3, <2>4, <2>5 DEF Device!vars
<1>2. CASE StartClearStatus \/ StartProgram \/ StartEnableInt \/ StartCapture
  <2>1. pc # "sp_cancel" /\ pc' # "sp_cancel"
    BY <1>2 DEF StartClearStatus, StartProgram, StartEnableInt, StartCapture, ThreadAt
  <2> QED
    BY <1>2, <2>1, DeviceStutter DEF StartClearStatus, StartProgram, StartEnableInt, StartCapture,
       vb2, tvd, irq
<1> QED
  BY <1>1, <1>2 DEF Start

LEMMA StopStep ==
  ASSUME IInv, IInv', Stop
  PROVE  Device!Stop \/ UNCHANGED Device!vars
<1>1. CASE StopFlag \/ StopDisableInt \/ StopCapture \/ StopClearStatus
  <2>1. pc # "sp_cancel" /\ pc' # "sp_cancel"
    BY <1>1 DEF StopFlag, StopDisableInt, StopCapture, StopClearStatus, ThreadAt
  <2> QED
    BY <1>1, <2>1, DeviceStutter DEF StopFlag, StopDisableInt, StopCapture, StopClearStatus,
       vb2, tvd, irq
<1>2. CASE ReturnAllBuffers
  <2>1. Pending' = <<>> /\ Ready' = <<>>
    BY <1>2 DEF ReturnAllBuffers, Pending, Ready
  <2> QED
    BY <2>1 DEF Device!Stop
<1>3. CASE QueueCancel
  <2>1. /\ vqueue' = <<>> /\ irqDone' = NoBuf /\ active' = NoBuf /\ queued_bufs' = <<>>
        /\ doneList' = <<>> /\ pc' = "idle"
    BY <1>3 DEF IInv, StopAgrees, StreamAgrees, Quiet, QueueCancel, ThreadAt, tvd, irq
  <2>2. Line(<<>>, NoBuf, NoBuf, <<>>) = <<>>
    BY LineBefore, EmptySeq
  <2>3. Pending' = <<>> /\ Ready' = <<>>
    BY <2>1, <2>2, DeviceFormNext, BufsOfEmpty
  <2> QED
    BY <2>3 DEF Device!Stop
<1> QED
  BY <1>1, <1>2, <1>3 DEF Stop

LEMMA IrqStep ==
  ASSUME IInv, IInv', Irq
  PROVE  Device!Fill \/ UNCHANGED Device!vars
<1>1. started /\ pc # "sp_cancel"
  <2>1. irqPc # "none" \/ (intEnable /\ intStatus)
    BY DEF Irq, IrqAck, IrqSwap, IrqDone
  <2>2. pc \in {"idle", "sp_flag", "sp_disable"} /\ started
    BY <2>1, HandlerInStream
  <2> QED
    BY <2>2
<1>2. pc' = pc /\ vqueue' = vqueue /\ vqueue = <<>>
  BY <1>1 DEF IInv, StreamAgrees, Irq, IrqAck, IrqSwap, IrqDone, vb2
<1>3. CASE IrqAck
  BY <1>1, <1>2, <1>3, DeviceStutter DEF IrqAck, vb2, tvd
<1>4. CASE IrqSwap
  <2>1. irqDone = NoBuf /\ irqDone' = active /\ doneList' = doneList
    BY <1>4 DEF IInv, StreamAgrees, IrqSwap, vb2
  <2>2. /\ active \in Buffers \cup {NoBuf} /\ active' \in Buffers \cup {NoBuf}
        /\ queued_bufs \in Seq(Buffers) /\ queued_bufs' \in Seq(Buffers)
    BY DEF IInv, TypeOK
  <2>3. AsSeq(active') \o queued_bufs' = queued_bufs
    <3>1. CASE queued_bufs # <<>>
      BY <1>4, <3>1, HeadBecomesActive DEF IrqSwap
    <3>2. CASE queued_bufs = <<>>
      BY <1>4, <2>2, <3>2, ConcatEmptySeq DEF IrqSwap, AsSeq
    <3> QED
      BY <3>1, <3>2
  <2>4. Pending = AsSeq(active) \o queued_bufs
    BY <1>1, <2>1, DeviceForm, LineByPhase
  <2>5. Pending' = AsSeq(active) \o (AsSeq(active') \o queued_bufs')
    BY <1>1, <1>2, <2>1, <2>2, DeviceFormNext, LineDuring
  <2>6. Ready' = Ready
    BY <1>2, <2>1 DEF Ready
  <2> QED
    BY <2>3, <2>4, <2>5, <2>6 DEF Device!vars
<1>5. CASE IrqDone
  <2>1. UNCHANGED <<queued_bufs, active>> /\ irqDone' = NoBuf
    BY <1>5 DEF IrqDone
  <2>2. CASE irqDone = NoBuf
    <3>1. doneList' = doneList
      BY <1>5, <2>2 DEF IrqDone
    <3> QED
      BY <1>1, <1>2, <2>1, <2>2, <3>1, DeviceStutter
  <2>3. CASE irqDone # NoBuf
    <3> DEFINE e == [buf |-> irqDone, seq |-> sequence]
               rest == AsSeq(active) \o queued_bufs
    <3>1. irqDone \in Buffers /\ AsSeq(irqDone) = <<irqDone>> /\ rest \in Seq(Buffers)
      <4>1. AsSeq(active) \in Seq(Buffers) /\ queued_bufs \in Seq(Buffers)
        BY DEF IInv, TypeOK, AsSeq
      <4> QED
        BY <2>3, <4>1, ConcatProperties DEF IInv, TypeOK, AsSeq
    <3>2. Pending = <<irqDone>> \o rest
      BY <1>1, <3>1, DeviceForm, LineByPhase
    <3>3. Pending' = rest
      <4>1. active \in Buffers \cup {NoBuf} /\ queued_bufs \in Seq(Buffers)
        BY DEF IInv, TypeOK
      <4> QED
        BY <1>1, <1>2, <2>1, <4>1, DeviceFormNext, LineOfTwo
    <3>4. /\ e \in [buf : Buffers, seq : 0 .. SeqMod - 1] /\ e.buf = irqDone
          /\ doneList \in Seq([buf : Buffers, seq : 0 .. SeqMod - 1])
      BY <3>1 DEF IInv, TypeOK
    <3>5. doneList' = Append(doneList, e)
      BY <1>5, <2>3 DEF IrqDone
    <3>6. Ready' = Append(Ready, irqDone)
      <4>1. BufsOf(Append(doneList, e)) = Append(BufsOf(doneList), irqDone)
        BY <3>4, BufsOfAppend
      <4> HIDE DEF e
      <4> QED
        BY <1>1, <1>2, <3>5, <4>1, DeviceForm, DeviceFormNext
    <3>7. Pending # <<>> /\ Head(Pending) = irqDone /\ Tail(Pending) = rest
      BY <3>1, <3>2, OneFirst
    <3> QED
      BY <3>3, <3>6, <3>7 DEF Device!Fill
  <2> QED
    BY <2>2, <2>3
<1> QED
  BY <1>3, <1>4, <1>5 DEF Irq

LEMMA DeviceStep ==
  IInv /\ IInv' /\ [Next]_vars => [Device!Next]_Device!vars
<1> SUFFICES ASSUME IInv, IInv', [Next]_vars PROVE [Device!Next]_Device!vars
  OBVIOUS
<1>1. CASE ReqBufs \/ FreeBufs \/ DQBuf \/ StreamOn \/ StreamOff
  BY <1>1, ClientStep
<1>2. CASE \E b \in Buffers : QBuf(b)
  BY <1>2, QBufStep DEF Device!Next
<1>3. CASE Start \/ Stop
  BY <1>3, StartStep, StopStep DEF Device!Next
<1>4. CASE Irq
  BY <1>4, IrqStep DEF Device!Next
<1>5. CASE HwFrame
  BY <1>5 DEF HwFrame, Device!vars, Pending, Ready, vb2, tvd, irq
<1>6. CASE UNCHANGED vars
  BY <1>6 DEF vars, Device!vars, Pending, Ready, vb2, tvd, irq
<1> QED
  BY <1>1, <1>2, <1>3, <1>4, <1>5, <1>6 DEF Next

\* To a streaming client the driver is a queue, for any number of buffers and
\* wherever the interrupt strikes: buffers come back filled, once, and in the
\* order of their QBUFs, and STREAMOFF gives all of them back.
THEOREM DriverIsQueue == Spec => ImplementsQueue
<1>1. Spec => Device!Init
  BY DeviceInit DEF Spec
<1>2. Spec => [][Device!Next]_Device!vars
  BY DeviceStep, IInvHolds, PTL DEF Spec
<1> QED
  BY <1>1, <1>2, PTL DEF ImplementsQueue, Device!Spec
=============================================================================
