------------------------------ MODULE FbmProofs ------------------------------
(***************************************************************************)
(* Proofs about the frame buffer manager, for any number of frames, with or *)
(* without sharing, and a decoder that is kept out while the display        *)
(* changes (Quiesced).                                                      *)
(***************************************************************************)
EXTENDS Fbm, FiniteSetTheorems, FunctionTheorems, SequenceTheorems,
        WellFoundedInduction, TLAPS

E == Range(queue["empty"])
V == Range(queue["valid"])
R == Range(queue["release"])

NoDup(s) == \A i, j \in DOMAIN s : s[i] = s[j] => i = j

\* The frames that have a buffer.
HasBuffer == {f \in Frames : bUseGpuBuf => f < nValidBufNum}

\* The queues are lists without repetition, counted right.
QueuesAgree ==
  /\ queue \in [Queues -> Seq(Frames)]
  /\ \A q \in Queues : NoDup(queue[q])
  /\ num = [q \in Queues |-> Len(queue[q])]

\* The buffers set so far, and the count of what the renderer holds.
CountsAgree ==
  /\ bUseGpuBuf \in BOOLEAN /\ nValidBufNum \in 0 .. nMaxFrameNum
  /\ nRenderHoldingNum = Cardinality(renHas)

\* Each frame that has a buffer is in one queue or in use, and only the decoder
\* and the display have one in common.
OnePlace ==
  /\ E \cap V = {} /\ E \cap R = {} /\ V \cap R = {}
  /\ (E \cup R) \cap (decHas \cup renHas \cup released) = {}
  /\ (V \cup decHas \cup renHas) \cap released = {} /\ V \cap renHas = {}
  /\ E \cup V \cup R \cup decHas \cup renHas \cup released = HasBuffer

\* Flags and sharing: what the decoder has in common with the display it shared.
SharesAgree ==
  /\ bUsedByDecoder = decHas /\ bUsedByRender = renHas /\ bInValidPictureQueue = V
  /\ bAlreadyDisplayed \subseteq decHas \ (renHas \cup V)
  /\ decHas \cap (V \cup renHas \cup bAlreadyDisplayed) \subseteq shared
  /\ shared \subseteq decHas
  /\ sharing # NoFrame => sharing \in decHas \ shared

\* The mark of a new display: only frames on their way out carry it.
MarksAgree ==
  /\ bNeedRelease \subseteq HasBuffer
  /\ rel \in {"idle", "flush", "release"} /\ sharing \in Frames \cup {NoFrame}
  /\ rel = "idle" => bNeedRelease \cap (E \cup V \cup decHas) = {}
  /\ rel # "idle" => decHas = {} /\ sharing = NoFrame
  /\ rel = "release" => V = {}

IInv == QueuesAgree /\ CountsAgree /\ OnePlace /\ SharesAgree /\ MarksAgree
-----------------------------------------------------------------------------
(* Lists of frames. *)

LEMMA AppendList ==
  ASSUME NEW l \in Seq(Frames), NoDup(l), NEW f \in Frames, f \notin Range(l)
  PROVE  /\ Append(l, f) \in Seq(Frames) /\ NoDup(Append(l, f))
         /\ Range(Append(l, f)) = Range(l) \cup {f}
<1> DEFINE k == Append(l, f)
<1>1. /\ k \in Seq(Frames) /\ Len(l) \in Nat
      /\ DOMAIN k = 1 .. Len(l) + 1 /\ DOMAIN l = 1 .. Len(l)
      /\ k[Len(l) + 1] = f
      /\ \A i \in 1 .. Len(l) : k[i] = l[i]
  OBVIOUS
<1>2. /\ \A i \in 1 .. Len(l) + 1 : i \in 1 .. Len(l) \/ i = Len(l) + 1
      /\ 1 .. Len(l) \subseteq 1 .. Len(l) + 1 /\ Len(l) + 1 \in 1 .. Len(l) + 1
  BY <1>1
<1>3. \A i \in 1 .. Len(l) : l[i] # f
  BY <1>1 DEF Range
<1>4. NoDup(k)
  BY <1>1, <1>2, <1>3 DEF NoDup
<1>5. Range(k) = Range(l) \cup {f}
  BY <1>1, <1>2 DEF Range
<1> QED
  BY <1>1, <1>4, <1>5

LEMMA TailList ==
  ASSUME NEW l \in Seq(Frames), NoDup(l), l # <<>>
  PROVE  /\ Tail(l) \in Seq(Frames) /\ NoDup(Tail(l))
         /\ Range(Tail(l)) = Range(l) \ {Head(l)}
         /\ Head(l) \in Range(l) /\ Len(Tail(l)) = Len(l) - 1 /\ Len(l) \in Nat
<1> DEFINE k == Tail(l)
<1>1. /\ k \in Seq(Frames) /\ Len(k) = Len(l) - 1 /\ Len(l) \in Nat \ {0}
      /\ DOMAIN k = 1 .. Len(l) - 1 /\ DOMAIN l = 1 .. Len(l) /\ Head(l) = l[1]
      /\ \A i \in 1 .. Len(l) - 1 : k[i] = l[i + 1]
  OBVIOUS
<1>2. \A i \in 1 .. Len(l) - 1 : i + 1 \in 1 .. Len(l) /\ i + 1 # 1
  BY <1>1
<1>3. \A i \in 1 .. Len(l) : i = 1 \/ (i - 1 \in 1 .. Len(l) - 1 /\ (i - 1) + 1 = i)
  BY <1>1
<1>4. 1 \in 1 .. Len(l)
  BY <1>1
<1>5. NoDup(k)
  <2> SUFFICES ASSUME NEW i \in DOMAIN k, NEW j \in DOMAIN k, k[i] = k[j]
               PROVE  i = j
    BY DEF NoDup
  <2>1. l[i + 1] = l[j + 1] /\ i + 1 \in DOMAIN l /\ j + 1 \in DOMAIN l
    BY <1>1, <1>2
  <2>2. i + 1 = j + 1
    BY <2>1 DEF NoDup
  <2> QED
    BY <2>2, <1>1
<1>6. Range(k) = Range(l) \ {Head(l)}
  <2>1. Range(k) \subseteq Range(l) \ {Head(l)}
    BY <1>1, <1>2, <1>4 DEF Range, NoDup
  <2>2. Range(l) \ {Head(l)} \subseteq Range(k)
    <3> SUFFICES ASSUME NEW i \in DOMAIN l, l[i] # Head(l)
                 PROVE  l[i] \in Range(k)
      BY DEF Range
    <3>1. i - 1 \in DOMAIN k /\ k[i - 1] = l[i]
      BY <1>1, <1>3
    <3> QED
      BY <3>1 DEF Range
  <2> QED
    BY <2>1, <2>2
<1>7. Head(l) \in Range(l)
  BY <1>1, <1>4 DEF Range
<1> QED
  BY <1>1, <1>5, <1>6, <1>7

LEMMA ConcatList ==
  ASSUME NEW l \in Seq(Frames), NoDup(l), NEW m \in Seq(Frames), NoDup(m),
         Range(l) \cap Range(m) = {}
  PROVE  /\ l \o m \in Seq(Frames) /\ NoDup(l \o m)
         /\ Range(l \o m) = Range(l) \cup Range(m)
<1> DEFINE k == l \o m
<1>1. /\ k \in Seq(Frames) /\ Len(l) \in Nat /\ Len(m) \in Nat
      /\ DOMAIN k = 1 .. Len(l) + Len(m) /\ DOMAIN l = 1 .. Len(l) /\ DOMAIN m = 1 .. Len(m)
      /\ \A i \in 1 .. Len(l) : k[i] = l[i]
      /\ \A i \in 1 .. Len(m) : k[Len(l) + i] = m[i]
  OBVIOUS
<1>2. \A i \in 1 .. Len(l) + Len(m) :
         \/ i \in 1 .. Len(l) /\ k[i] = l[i]
         \/ i - Len(l) \in 1 .. Len(m) /\ k[i] = m[i - Len(l)]
  <2> TAKE i \in 1 .. Len(l) + Len(m)
  <2>1. i \in 1 .. Len(l) \/ (i - Len(l) \in 1 .. Len(m) /\ Len(l) + (i - Len(l)) = i)
    BY <1>1
  <2> QED
    BY <1>1, <2>1
<1>3. /\ \A i \in 1 .. Len(l) : i \in 1 .. Len(l) + Len(m)
      /\ \A i \in 1 .. Len(m) : Len(l) + i \in 1 .. Len(l) + Len(m)
  BY <1>1
<1>4. NoDup(k)
  <2> SUFFICES ASSUME NEW i \in DOMAIN k, NEW j \in DOMAIN k, k[i] = k[j]
               PROVE  i = j
    BY DEF NoDup
  <2>1. \A x \in 1 .. Len(l), y \in 1 .. Len(m) : l[x] # m[y]
    BY <1>1 DEF Range
  <2>2. CASE i \in 1 .. Len(l) /\ j \in 1 .. Len(l)
    BY <1>1, <2>2 DEF NoDup
  <2>3. CASE i \notin 1 .. Len(l) /\ j \notin 1 .. Len(l)
    <3>1. i - Len(l) = j - Len(l)
      BY <1>1, <1>2, <2>3 DEF NoDup
    <3> QED
      BY <3>1, <1>1
  <2>4. CASE i \in 1 .. Len(l) /\ j \notin 1 .. Len(l)
    BY <1>1, <1>2, <2>1, <2>4
  <2>5. CASE i \notin 1 .. Len(l) /\ j \in 1 .. Len(l)
    BY <1>1, <1>2, <2>1, <2>5
  <2> QED
    BY <2>2, <2>3, <2>4, <2>5
<1>5. Range(k) \subseteq Range(l) \cup Range(m)
  BY <1>1, <1>2 DEF Range
<1>6. Range(l) \cup Range(m) \subseteq Range(k)
  BY <1>1, <1>3 DEF Range
<1> QED
  BY <1>1, <1>4, <1>5, <1>6

LEMMA FramesFinite == IsFiniteSet(Frames) /\ Cardinality(Frames) = nMaxFrameNum
<1>1. nMaxFrameNum \in Nat \ {0} /\ 0 \in Int /\ nMaxFrameNum - 1 \in Int
  BY FbmAssumption
<1>2. IsFiniteSet(0 .. nMaxFrameNum - 1) /\
      Cardinality(0 .. nMaxFrameNum - 1) =
        IF 0 > nMaxFrameNum - 1 THEN 0 ELSE (nMaxFrameNum - 1) - 0 + 1
  BY <1>1, FS_Interval
<1> QED
  BY <1>1, <1>2 DEF Frames

LEMMA CountTo == \A n \in Nat : IsFiniteSet(1 .. n) /\ Cardinality(1 .. n) = n
<1> TAKE n \in Nat
<1>1. IsFiniteSet(1 .. n) /\ Cardinality(1 .. n) = IF 1 > n THEN 0 ELSE n - 1 + 1
  BY FS_Interval
<1> QED
  BY <1>1

LEMMA LengthBound ==
  ASSUME NEW l \in Seq(Frames), NoDup(l)
  PROVE  Len(l) \in 0 .. nMaxFrameNum
<1>1. Len(l) \in Nat /\ DOMAIN l = 1 .. Len(l) /\ l \in [1 .. Len(l) -> Frames]
  OBVIOUS
<1>2. l \in Injection(1 .. Len(l), Frames)
  BY <1>1 DEF Injection, IsInjective, NoDup
<1>3. Cardinality(1 .. Len(l)) <= nMaxFrameNum
  BY <1>2, FramesFinite, FS_Injection
<1>4. Cardinality(1 .. Len(l)) = Len(l)
  BY <1>1, CountTo
<1> QED
  BY <1>1, <1>3, <1>4, FbmAssumption

\* A list without a bad frame: the loop that stops at one goes through it all.
LEMMA WholeList ==
  ASSUME NEW l \in Seq(Frames), NEW bad, Range(l) \cap bad = {}
  PROVE  UpTo(l, bad) = l /\ After(l, bad) = <<>> /\ Took(l, bad) = Len(l)
<1>1. Len(l) \in Nat /\ DOMAIN l = 1 .. Len(l)
  OBVIOUS
<1>2. \A i \in 1 .. Len(l) : \A j \in 1 .. i : j \in 1 .. Len(l)
  BY <1>1
<1>3. Before(l, bad) = 1 .. Len(l)
  BY <1>1, <1>2 DEF Before, Range
<1>4. Cardinality(Before(l, bad)) = Len(l)
  BY <1>1, <1>3, CountTo
<1>5. SubSeq(l, 1, Len(l)) = l /\ SubSeq(l, Len(l) + 2, Len(l)) = <<>>
  BY <1>1
<1>6. UpTo(l, bad) = l /\ After(l, bad) = <<>>
  BY <1>4, <1>5 DEF UpTo, After
<1> QED
  BY <1>1, <1>6 DEF Took

LEMMA PartList ==
  ASSUME NEW l \in Seq(Frames), NoDup(l), NEW X,
         NEW g \in Upwards({i \in DOMAIN l : l[i] \notin X})
  PROVE  LET t == [i \in DOMAIN g |-> l[g[i]]]
         IN t \in Seq(Frames) /\ NoDup(t) /\ Range(t) = Range(l) \ X
<1> DEFINE K == {i \in DOMAIN l : l[i] \notin X}
           n == Cardinality(K)
           t == [i \in DOMAIN g |-> l[g[i]]]
<1>1. Len(l) \in Nat /\ DOMAIN l = 1 .. Len(l) /\ l \in [1 .. Len(l) -> Frames]
  OBVIOUS
<1>2. IsFiniteSet(1 .. Len(l)) /\ K \in SUBSET (1 .. Len(l))
  BY <1>1, FS_Interval
<1>3. IsFiniteSet(K) /\ n \in Nat
  <2>1. IsFiniteSet(K)
    BY <1>2, FS_Subset, Zenon
  <2> QED
    BY <2>1, FS_CardinalityType
<1>4. /\ g \in [1 .. n -> K] /\ DOMAIN g = 1 .. n
      /\ \A i, j \in 1 .. n : i < j => g[i] < g[j]
  BY DEF Upwards
<1>5. \A i, j \in 1 .. n : g[i] = g[j] => i = j
  <2> SUFFICES ASSUME NEW i \in 1 .. n, NEW j \in 1 .. n, g[i] = g[j], i # j
               PROVE  FALSE
    OBVIOUS
  <2>1. g[i] \in Int /\ g[j] \in Int
    BY <1>1, <1>4
  <2>2. i < j \/ j < i
    BY <1>3
  <2> QED
    BY <1>4, <2>1, <2>2
<1>6. g \in Surjection(1 .. n, K)
  <2>1. g \in Injection(1 .. n, K)
    BY <1>4, <1>5 DEF Injection, IsInjective
  <2>2. Cardinality(1 .. n) = n
    <3> HIDE DEF n
    <3> QED
      BY <1>3, CountTo
  <2> HIDE DEF K
  <2> QED
    BY <1>3, <2>1, <2>2, FS_Injection
<1>7. \A x \in K : \E i \in 1 .. n : g[i] = x
  BY <1>6 DEF Surjection
<1> HIDE DEF n
<1>8. t \in [1 .. n -> Frames] /\ DOMAIN t = 1 .. n
  BY <1>1, <1>4
<1>9. t \in Seq(Frames)
  BY <1>3, <1>8
<1>10. NoDup(t)
  BY <1>4, <1>5, <1>8 DEF NoDup
<1>11. Range(t) \subseteq Range(l) \ X
  BY <1>4, <1>8 DEF Range
<1>12. Range(l) \ X \subseteq Range(t)
  <2> SUFFICES ASSUME NEW x \in DOMAIN l, l[x] \notin X
               PROVE  l[x] \in Range(t)
    BY DEF Range
  <2>1. PICK i \in 1 .. n : g[i] = x
    BY <1>7
  <2> QED
    BY <2>1, <1>8, <1>4 DEF Range
<1> QED
  BY <1>9, <1>10, <1>11, <1>12
-----------------------------------------------------------------------------
(* What each way to change the queues does to the three sets. *)

LEMMA QueuesAre ==
  ASSUME QueuesAgree
  PROVE  /\ "empty" \in Queues /\ "valid" \in Queues /\ "release" \in Queues
         /\ \A q \in Queues : queue[q] \in Seq(Frames) /\ NoDup(queue[q])
         /\ E \subseteq Frames /\ V \subseteq Frames /\ R \subseteq Frames
<1>1. "empty" \in Queues /\ "valid" \in Queues /\ "release" \in Queues
  BY DEF Queues
<1>2. \A q \in Queues : queue[q] \in Seq(Frames) /\ NoDup(queue[q])
  BY DEF QueuesAgree
<1>3. \A q \in Queues : Range(queue[q]) \subseteq Frames
  <2> SUFFICES ASSUME NEW q \in Queues
               PROVE  Range(queue[q]) \subseteq Frames
    OBVIOUS
  <2>1. queue[q] \in Seq(Frames)
    BY <1>2
  <2>2. queue[q] \in [1 .. Len(queue[q]) -> Frames]
    BY <2>1
  <2> QED
    BY <2>2 DEF Range
<1> QED
  BY <1>1, <1>2, <1>3 DEF E, V, R

LEMMA EnqueueStep ==
  ASSUME QueuesAgree, NEW q \in Queues, NEW f \in Frames, f \notin Range(queue[q]),
         Enqueue(q, f)
  PROVE  /\ QueuesAgree'
         /\ E' = E \cup {x \in {f} : q = "empty"}
         /\ V' = V \cup {x \in {f} : q = "valid"}
         /\ R' = R \cup {x \in {f} : q = "release"}
<1>1. /\ queue' = [queue EXCEPT ![q] = Append(queue[q], f)]
      /\ num' = [num EXCEPT ![q] = num[q] + 1]
  BY DEF Enqueue
<1>2. queue[q] \in Seq(Frames) /\ NoDup(queue[q])
  BY QueuesAre
<1>3. /\ Append(queue[q], f) \in Seq(Frames) /\ NoDup(Append(queue[q], f))
      /\ Range(Append(queue[q], f)) = Range(queue[q]) \cup {f}
  BY <1>2, AppendList
<1>4. /\ queue \in [Queues -> Seq(Frames)] /\ num = [r \in Queues |-> Len(queue[r])]
  BY DEF QueuesAgree
<1>5. /\ queue' \in [Queues -> Seq(Frames)]
      /\ queue'[q] = Append(queue[q], f)
      /\ \A r \in Queues : r # q => queue'[r] = queue[r]
  BY <1>1, <1>3, <1>4
<1>6. \A r \in Queues : NoDup(queue'[r])
  BY <1>3, <1>5, QueuesAre
<1>7. num' = [r \in Queues |-> Len(queue'[r])]
  <2>1. Len(Append(queue[q], f)) = Len(queue[q]) + 1
    BY <1>2
  <2> QED
    BY <2>1, <1>1, <1>4, <1>5
<1>8. QueuesAgree'
  BY <1>5, <1>6, <1>7 DEF QueuesAgree, NoDup
<1>9. \A r \in Queues : Range(queue'[r]) = Range(queue[r]) \cup {x \in {f} : q = r}
  BY <1>3, <1>5
<1> QED
  BY <1>8, <1>9, QueuesAre DEF E, V, R

LEMMA DequeueStep ==
  ASSUME QueuesAgree, NEW q \in Queues, queue[q] # <<>>,
         queue' = [queue EXCEPT ![q] = Tail(@)],
         num' = [num EXCEPT ![q] = @ - 1]
  PROVE  /\ QueuesAgree'
         /\ E' = E \ {x \in {Head(queue[q])} : q = "empty"}
         /\ V' = V \ {x \in {Head(queue[q])} : q = "valid"}
         /\ R' = R \ {x \in {Head(queue[q])} : q = "release"}
         /\ Head(queue[q]) \in Range(queue[q])
<1> DEFINE f == Head(queue[q])
<1>2. queue[q] \in Seq(Frames) /\ NoDup(queue[q])
  BY QueuesAre
<1>3. /\ Tail(queue[q]) \in Seq(Frames) /\ NoDup(Tail(queue[q]))
      /\ Range(Tail(queue[q])) = Range(queue[q]) \ {f}
      /\ f \in Range(queue[q]) /\ Len(Tail(queue[q])) = Len(queue[q]) - 1
  BY <1>2, TailList
<1>4. /\ queue \in [Queues -> Seq(Frames)] /\ num = [r \in Queues |-> Len(queue[r])]
  BY DEF QueuesAgree
<1>5. /\ queue' \in [Queues -> Seq(Frames)]
      /\ queue'[q] = Tail(queue[q])
      /\ \A r \in Queues : r # q => queue'[r] = queue[r]
  BY <1>3, <1>4
<1>6. \A r \in Queues : NoDup(queue'[r])
  BY <1>3, <1>5, QueuesAre
<1>7. num' = [r \in Queues |-> Len(queue'[r])]
  BY <1>3, <1>4, <1>5
<1>8. QueuesAgree'
  BY <1>5, <1>6, <1>7 DEF QueuesAgree, NoDup
<1> HIDE DEF f
<1>9. \A r \in Queues : Range(queue'[r]) = Range(queue[r]) \ {x \in {f} : q = r}
  BY <1>3, <1>5
<1>10. /\ E' = E \ {x \in {f} : q = "empty"}
       /\ V' = V \ {x \in {f} : q = "valid"}
       /\ R' = R \ {x \in {f} : q = "release"}
  BY <1>9, QueuesAre DEF E, V, R
<1> QED
  BY <1>3, <1>8, <1>10 DEF f

LEMMA TwoQueues ==
  ASSUME NEW a \in Queues, NEW b \in Queues, a # b, NEW S, NEW f \in [Queues -> S],
         NEW x \in S, NEW y \in S, NEW g, g = [f EXCEPT ![a] = x, ![b] = y]
  PROVE  /\ g \in [Queues -> S] /\ g[a] = x /\ g[b] = y
         /\ \A d \in Queues : d # a /\ d # b => g[d] = f[d]
OBVIOUS

\* A flush empties the whole valid queue: no frame in it has a wrong flag.
LEMMA FlushStep ==
  ASSUME QueuesAgree, OnePlace, SharesAgree, EmptyValidQueue
  PROVE  /\ QueuesAgree'
         /\ E' = E \cup (V \ decHas) /\ V' = {} /\ R' = R
         /\ bInValidPictureQueue' = {}
         /\ bAlreadyDisplayed' = bAlreadyDisplayed \cup (V \cap decHas)
<1> DEFINE bad == bUsedByRender \cup bAlreadyDisplayed
           valid == queue["valid"]
           done == UpTo(valid, bad)
<1>1. /\ queue["empty"] \in Seq(Frames) /\ NoDup(queue["empty"])
      /\ valid \in Seq(Frames) /\ NoDup(valid)
  BY QueuesAre
<1>2. Range(valid) \cap bad = {}
  BY DEF OnePlace, SharesAgree, V
<1>3. done = valid /\ After(valid, bad) = <<>> /\ Took(valid, bad) = Len(valid)
  BY <1>1, <1>2, WholeList
<1>4. PICK g \in Upwards({i \in DOMAIN done : done[i] \notin bUsedByDecoder}) :
        LET free == [i \in DOMAIN g |-> done[g[i]]]
        IN /\ queue' = [queue EXCEPT !["valid"] = After(valid, bad), !["empty"] = @ \o free]
           /\ num' = [num EXCEPT !["valid"] = @ - Took(valid, bad), !["empty"] = @ + Len(free)]
           /\ bInValidPictureQueue' = bInValidPictureQueue \ Range(done)
           /\ bAlreadyDisplayed' = bAlreadyDisplayed \cup (Range(done) \cap bUsedByDecoder)
  BY DEF EmptyValidQueue
<1> DEFINE free == [i \in DOMAIN g |-> valid[g[i]]]
<1>5. g \in Upwards({i \in DOMAIN valid : valid[i] \notin bUsedByDecoder})
  BY <1>3, <1>4
<1>6. free \in Seq(Frames) /\ NoDup(free) /\ Range(free) = V \ decHas
  <2> HIDE DEF valid
  <2>1. free \in Seq(Frames) /\ NoDup(free) /\ Range(free) = Range(valid) \ bUsedByDecoder
    BY <1>1, <1>5, PartList
  <2> QED
    BY <2>1 DEF SharesAgree, V, valid
<1>7. /\ queue' = [queue EXCEPT !["valid"] = <<>>, !["empty"] = queue["empty"] \o free]
      /\ num' = [num EXCEPT !["valid"] = num["valid"] - Len(valid),
                            !["empty"] = num["empty"] + Len(free)]
      /\ bInValidPictureQueue' = bInValidPictureQueue \ Range(valid)
      /\ bAlreadyDisplayed' = bAlreadyDisplayed \cup (Range(valid) \cap bUsedByDecoder)
  BY <1>3, <1>4
<1> HIDE DEF free
<1>8. Range(queue["empty"]) \cap Range(free) = {}
  BY <1>6 DEF OnePlace, E
<1>9. /\ queue["empty"] \o free \in Seq(Frames) /\ NoDup(queue["empty"] \o free)
      /\ Range(queue["empty"] \o free) = E \cup (V \ decHas)
      /\ Len(queue["empty"] \o free) = Len(queue["empty"]) + Len(free)
  BY <1>1, <1>6, <1>8, ConcatList DEF E
<1>10. queue \in [Queues -> Seq(Frames)] /\ num = [r \in Queues |-> Len(queue[r])]
  BY DEF QueuesAgree
<1>11. /\ queue' \in [Queues -> Seq(Frames)]
       /\ queue'["empty"] = queue["empty"] \o free /\ queue'["valid"] = <<>>
       /\ queue'["release"] = queue["release"]
  <2>1. <<>> \in Seq(Frames)
    OBVIOUS
  <2>2. /\ queue' \in [Queues -> Seq(Frames)]
        /\ queue'["valid"] = <<>> /\ queue'["empty"] = queue["empty"] \o free
        /\ \A d \in Queues : d # "valid" /\ d # "empty" => queue'[d] = queue[d]
    BY <1>7, <1>9, <1>10, <2>1, QueuesAre, TwoQueues
  <2> QED
    BY <2>2, QueuesAre
<1>12. \A q \in Queues : q \in {"empty", "valid", "release"}
  BY DEF Queues
<1>13. NoDup(<<>>) /\ Range(<<>>) = {} /\ Len(<<>>) = 0
  BY DEF NoDup, Range
<1>14. \A q \in Queues : NoDup(queue'[q])
  BY <1>9, <1>11, <1>12, <1>13, QueuesAre
<1>15. num' = [r \in Queues |-> Len(queue'[r])]
  <2>1. /\ num'["empty"] = Len(queue["empty"]) + Len(free)
        /\ num'["valid"] = Len(valid) - Len(valid)
        /\ num'["release"] = Len(queue["release"])
        /\ DOMAIN num' = Queues
        /\ num' = [r \in Queues |-> num'[r]]
    BY <1>7, <1>10, QueuesAre
  <2>2. Len(valid) - Len(valid) = 0
    BY <1>1
  <2>3. \A q \in Queues : num'[q] = Len(queue'[q])
    BY <2>1, <2>2, <1>9, <1>11, <1>12, <1>13
  <2> QED
    BY <2>1, <2>3
<1>16. QueuesAgree'
  BY <1>11, <1>14, <1>15 DEF QueuesAgree, NoDup
<1>17. E' = E \cup (V \ decHas) /\ V' = {} /\ R' = R
  BY <1>9, <1>11, <1>13 DEF E, V, R
<1>18. bInValidPictureQueue' = {}
  BY <1>7 DEF SharesAgree, V
<1>19. bAlreadyDisplayed' = bAlreadyDisplayed \cup (V \cap decHas)
  BY <1>7 DEF SharesAgree, V
<1> QED
  BY <1>16, <1>17, <1>18, <1>19

\* Nothing in the empty queue has a flag: all of it moves to the release queue.
LEMMA EmptyAreClear ==
  ASSUME QueuesAgree, OnePlace, SharesAgree
  PROVE  \A f \in E : Clear(f)
BY DEF OnePlace, SharesAgree, Clear

LEMMA MoveStep ==
  ASSUME QueuesAgree, OnePlace, SharesAgree, FbmNewDispRelease
  PROVE  QueuesAgree' /\ E' = {} /\ V' = V /\ R' = R \cup E
<1> DEFINE bad == {f \in Frames : ~Clear(f)}
           empty == queue["empty"]
           all == queue["release"] \o empty
<1>1. /\ empty \in Seq(Frames) /\ NoDup(empty)
      /\ queue["release"] \in Seq(Frames) /\ NoDup(queue["release"])
  BY QueuesAre
<1>2. Range(empty) \cap bad = {}
  BY EmptyAreClear DEF E
<1>3. UpTo(empty, bad) = empty /\ After(empty, bad) = <<>>
  <2> HIDE DEF bad, empty
  <2> QED
    BY <1>1, <1>2, WholeList
<1>4. /\ queue' = [queue EXCEPT !["empty"] = <<>>, !["release"] = all]
      /\ num' = [num EXCEPT !["empty"] = num["empty"] - Len(empty),
                            !["release"] = num["release"] + Len(empty)]
  BY <1>3 DEF FbmNewDispRelease
<1>5. Range(queue["release"]) \cap Range(empty) = {}
  BY DEF OnePlace, E, R
<1>6. /\ all \in Seq(Frames) /\ NoDup(all) /\ Range(all) = R \cup E
      /\ Len(all) = Len(queue["release"]) + Len(empty)
  BY <1>1, <1>5, ConcatList DEF E, R
<1>7. queue \in [Queues -> Seq(Frames)] /\ num = [r \in Queues |-> Len(queue[r])]
  BY DEF QueuesAgree
<1> HIDE DEF all
<1>8. /\ queue' \in [Queues -> Seq(Frames)]
      /\ queue'["empty"] = <<>> /\ queue'["valid"] = queue["valid"] /\ queue'["release"] = all
  <2>1. <<>> \in Seq(Frames)
    OBVIOUS
  <2>2. /\ queue' \in [Queues -> Seq(Frames)]
        /\ queue'["empty"] = <<>> /\ queue'["release"] = all
        /\ \A d \in Queues : d # "empty" /\ d # "release" => queue'[d] = queue[d]
    BY <1>4, <1>6, <1>7, <2>1, QueuesAre, TwoQueues
  <2> QED
    BY <2>2, QueuesAre
<1>9. \A q \in Queues : q \in {"empty", "valid", "release"}
  BY DEF Queues
<1>10. NoDup(<<>>) /\ Range(<<>>) = {} /\ Len(<<>>) = 0
  BY DEF NoDup, Range
<1>11. \A q \in Queues : NoDup(queue'[q])
  BY <1>6, <1>8, <1>9, <1>10, QueuesAre
<1>12. num' = [r \in Queues |-> Len(queue'[r])]
  <2>1. /\ num'["empty"] = Len(empty) - Len(empty)
        /\ num'["valid"] = Len(queue["valid"])
        /\ num'["release"] = Len(queue["release"]) + Len(empty)
        /\ DOMAIN num' = Queues
        /\ num' = [r \in Queues |-> num'[r]]
    BY <1>4, <1>7, QueuesAre
  <2>2. Len(empty) - Len(empty) = 0
    BY <1>1
  <2>3. \A q \in Queues : num'[q] = Len(queue'[q])
    BY <2>1, <2>2, <1>6, <1>8, <1>9, <1>10
  <2> QED
    BY <2>1, <2>3
<1>13. QueuesAgree'
  BY <1>8, <1>11, <1>12 DEF QueuesAgree, NoDup
<1>14. E' = {} /\ V' = V /\ R' = R \cup E
  BY <1>6, <1>8, <1>10 DEF E, V, R
<1> QED
  BY <1>13, <1>14
-----------------------------------------------------------------------------
(* The invariant is inductive. *)

LEMMA FirstIsIn ==
  ASSUME NEW S \in SUBSET Frames, S # {}
  PROVE  First(S) \in S
<1> DEFINE below == {0 .. y : y \in S}
<1>1. \A y \in S : y \in Nat
  BY FbmAssumption DEF Frames
<1>2. IsFiniteSet(Frames) /\ \A y \in S : 0 .. y \in SUBSET Frames
  BY FramesFinite, FbmAssumption DEF Frames
<1>3. below \subseteq FiniteSubsetsOf(Frames) /\ below # {}
  <2>1. FiniteSubsetsOf(Frames) = SUBSET Frames
    BY <1>2, FS_FiniteSubsetsOfFinite
  <2>2. below \subseteq SUBSET Frames /\ below # {}
    BY <1>2
  <2> QED
    BY <2>1, <2>2, Zenon
<1>4. IsWellFoundedOn(StrictSubsetOrdering(Frames), FiniteSubsetsOf(Frames))
  BY <1>2, FS_StrictSubsetOrderingWellFounded, FS_FiniteSubsetsOfFinite
<1>5. PICK b \in below : \A c \in below : <<c, b>> \notin StrictSubsetOrdering(Frames)
  BY <1>3, <1>4, WFMin
<1>6. PICK x \in S : b = 0 .. x
  BY <1>5
<1>7. ASSUME NEW y \in S, y < x
      PROVE  FALSE
  <2>1. x \in 0 .. x /\ x \notin 0 .. y /\ 0 .. y \subseteq 0 .. x
    BY <1>1, <1>7
  <2>2. <<0 .. y, b>> \in StrictSubsetOrdering(Frames)
    BY <2>1, <1>2, <1>6 DEF StrictSubsetOrdering
  <2> QED
    BY <2>2, <1>5
<1>8. \A y \in S : x <= y
  BY <1>1, <1>7
<1> QED
  BY <1>8 DEF First

LEMMA HeadIsIn ==
  ASSUME QueuesAgree, NEW q \in Queues, queue[q] # <<>>
  PROVE  Head(queue[q]) \in Range(queue[q])
BY QueuesAre, TailList

LEMMA SameBuffers ==
  ASSUME UNCHANGED setup
  PROVE  HasBuffer' = HasBuffer
BY DEF setup, HasBuffer

LEMMA SameQueues ==
  ASSUME QueuesAgree, UNCHANGED queues
  PROVE  QueuesAgree' /\ E' = E /\ V' = V /\ R' = R
BY DEF queues, QueuesAgree, NoDup, E, V, R

LEMMA InitOk == Init => IInv
<1> SUFFICES ASSUME Init
             PROVE  IInv
  OBVIOUS
<1> DEFINE all == [i \in 1 .. nMaxFrameNum |-> i - 1]
<1>1. all \in Seq(Frames) /\ DOMAIN all = 1 .. nMaxFrameNum /\ NoDup(all)
  BY FbmAssumption DEF Frames, NoDup
<1>2. Range(all) = Frames
  <2>1. \A f \in Frames : f + 1 \in 1 .. nMaxFrameNum /\ all[f + 1] = f
    BY FbmAssumption DEF Frames
  <2>2. \A i \in 1 .. nMaxFrameNum : all[i] \in Frames
    BY FbmAssumption DEF Frames
  <2> QED
    BY <1>1, <2>1, <2>2 DEF Range
<1>3. <<>> \in Seq(Frames) /\ NoDup(<<>>) /\ Range(<<>>) = {}
  BY DEF NoDup, Range
<1> HIDE DEF all
<1>4. queue = [q \in Queues |-> IF q = "empty" /\ ~bUseGpuBuf THEN all ELSE <<>>]
  BY DEF Init, all
<1>5. QueuesAgree
  BY <1>1, <1>3, <1>4 DEF Init, QueuesAgree
<1>6. V = {} /\ R = {} /\ E = HasBuffer
  <2>1. V = {} /\ R = {} /\ E = IF bUseGpuBuf THEN {} ELSE Frames
    BY <1>2, <1>3, <1>4 DEF E, V, R, Queues
  <2>2. HasBuffer = IF bUseGpuBuf THEN {} ELSE Frames
    BY FbmAssumption DEF HasBuffer, Init, Frames
  <2> QED
    BY <2>1, <2>2
<1>7. CountsAgree
  BY FS_EmptySet, FbmAssumption DEF Init, CountsAgree
<1>8. OnePlace /\ SharesAgree /\ MarksAgree
  BY <1>6 DEF Init, OnePlace, SharesAgree, MarksAgree
<1> QED
  BY <1>5, <1>7, <1>8 DEF IInv

LEMMA SetFbmBufAddressOk ==
  ASSUME Quiesced, IInv, FbmSetFbmBufAddress
  PROVE  IInv'
<1> DEFINE f == nValidBufNum
<1> USE DEF IInv
<1>1. f \in Frames /\ f \notin HasBuffer /\ HasBuffer' = HasBuffer \cup {f}
  BY FbmAssumption DEF FbmSetFbmBufAddress, CountsAgree, HasBuffer, Frames
<1>2. QueuesAgree' /\ E' = E \cup {f} /\ V' = V /\ R' = R
  <2>1. f \notin Range(queue["empty"]) /\ Enqueue("empty", f)
    BY <1>1 DEF OnePlace, E, FbmSetFbmBufAddress
  <2> QED
    BY <1>1, <2>1, EnqueueStep, QueuesAre
<1>3. CountsAgree'
  BY FbmAssumption DEF FbmSetFbmBufAddress, CountsAgree
<1>4. OnePlace'
  BY <1>1, <1>2 DEF FbmSetFbmBufAddress, decoder, OnePlace
<1>5. SharesAgree'
  BY <1>2 DEF FbmSetFbmBufAddress, decoder, flags, SharesAgree
<1>6. MarksAgree'
  BY <1>1, <1>2 DEF FbmSetFbmBufAddress, decoder, flags, MarksAgree
<1> QED
  BY <1>2, <1>3, <1>4, <1>5, <1>6

LEMMA RequestBufferOk ==
  ASSUME Quiesced, IInv, FbmRequestBuffer
  PROVE  IInv'
<1> DEFINE f == Head(queue["empty"])
<1> USE DEF IInv
<1>1. rel = "idle" /\ sharing = NoFrame /\ queue["empty"] # <<>>
  BY DEF FbmRequestBuffer, DecoderRuns
<1>2. f \in E /\ Clear(f)
  BY <1>1, HeadIsIn, EmptyAreClear, QueuesAre DEF E
<1>3. /\ queue' = [queue EXCEPT !["empty"] = Tail(@)]
      /\ num' = [num EXCEPT !["empty"] = @ - 1]
      /\ bUsedByDecoder' = bUsedByDecoder \cup {f} /\ decHas' = decHas \cup {f}
      /\ UNCHANGED <<setup, nRenderHoldingNum, bUsedByRender, bInValidPictureQueue,
                     bAlreadyDisplayed, bNeedRelease, released, rel, sharing, shared, renHas>>
  BY <1>2 DEF FbmRequestBuffer
<1>4. QueuesAgree' /\ E' = E \ {f} /\ V' = V /\ R' = R
  BY <1>1, <1>3, DequeueStep, QueuesAre
<1> HIDE DEF f
<1>5. CountsAgree'
  BY <1>3 DEF setup, CountsAgree
<1>6. OnePlace'
  BY <1>2, <1>3, <1>4, SameBuffers DEF OnePlace
<1>7. SharesAgree'
  BY <1>1, <1>2, <1>3, <1>4 DEF SharesAgree, OnePlace
<1>8. MarksAgree'
  BY <1>1, <1>2, <1>3, <1>4, SameBuffers DEF MarksAgree
<1> QED
  BY <1>4, <1>5, <1>6, <1>7, <1>8

LEMMA ReturnBufferOk ==
  ASSUME Quiesced, IInv, NEW f \in Frames, NEW bValid \in BOOLEAN,
         FbmReturnBuffer(f, bValid)
  PROVE  IInv'
<1> DEFINE q == Destination(f, bValid)
<1> USE DEF IInv
<1>1. rel = "idle" /\ sharing = NoFrame /\ f \in decHas
  BY DEF FbmReturnBuffer, DecoderRuns
<1>2. f \notin E \cup R \cup released /\ f \in bUsedByDecoder /\ f \notin bNeedRelease
  BY <1>1 DEF OnePlace, SharesAgree, MarksAgree
<1>3. \/ q = "none" /\ f \in V \cup renHas /\ f \notin bAlreadyDisplayed
      \/ q = "empty" /\ f \notin V \cup renHas
      \/ q = "valid" /\ f \notin V \cup renHas \cup bAlreadyDisplayed
  BY <1>2, Zenon DEF Destination, SharesAgree
<1>4. /\ decHas' = decHas \ {f} /\ shared' = shared \ {f}
      /\ bUsedByDecoder' = bUsedByDecoder \ {f}
      /\ IF q = "none" THEN UNCHANGED queues ELSE Enqueue(q, f)
      /\ bInValidPictureQueue' = bInValidPictureQueue \cup {x \in {f} : q = "valid"}
      /\ bAlreadyDisplayed' = bAlreadyDisplayed \ {x \in {f} : q # "none"}
      /\ UNCHANGED <<setup, nRenderHoldingNum, bUsedByRender, bNeedRelease, released, rel,
                     sharing, renHas>>
  BY <1>2 DEF FbmReturnBuffer
<1> HIDE DEF q
<1>5. /\ QueuesAgree' /\ R' = R
      /\ E' = E \cup {x \in {f} : q = "empty"}
      /\ V' = V \cup {x \in {f} : q = "valid"}
  <2>1. CASE q = "none"
    BY <1>4, <2>1, SameQueues
  <2>2. CASE q # "none"
    <3>1. q \in Queues /\ f \notin Range(queue[q]) /\ Enqueue(q, f) /\ q # "release"
      BY <1>2, <1>3, <1>4, <2>2 DEF E, V, Queues
    <3> QED
      BY <3>1, EnqueueStep
  <2> QED
    BY <2>1, <2>2
<1>6. CountsAgree'
  BY <1>4 DEF setup, CountsAgree
<1>7. OnePlace'
  BY <1>1, <1>2, <1>3, <1>4, <1>5, SameBuffers DEF OnePlace
<1>8. SharesAgree'
  BY <1>1, <1>2, <1>3, <1>4, <1>5 DEF SharesAgree, OnePlace
<1>9. MarksAgree'
  BY <1>1, <1>2, <1>3, <1>4, <1>5, SameBuffers DEF MarksAgree
<1> QED
  BY <1>5, <1>6, <1>7, <1>8, <1>9

LEMMA ShareOk ==
  ASSUME Quiesced, IInv, FbmShareBuffer \/ \E f \in Frames : ShareCheck(f)
  PROVE  IInv'
<1> USE DEF IInv
<1>1. ASSUME NEW f \in Frames, ShareCheck(f)
      PROVE  IInv'
  <2>1. rel = "idle" /\ sharing' = f /\ f \in decHas \ shared
    BY <1>1 DEF ShareCheck, DecoderRuns
  <2>2. /\ UNCHANGED <<setup, queues, nRenderHoldingNum, flags, released, rel, decHas,
                        shared, renHas>>
        /\ QueuesAgree' /\ E' = E /\ V' = V /\ R' = R
    BY <1>1, SameQueues DEF ShareCheck
  <2>3. CountsAgree' /\ OnePlace'
    BY <2>2, SameBuffers DEF setup, CountsAgree, OnePlace
  <2>4. SharesAgree' /\ MarksAgree'
    BY <2>1, <2>2, SameBuffers DEF flags, SharesAgree, MarksAgree
  <2> QED
    BY <2>2, <2>3, <2>4
<1>2. ASSUME FbmShareBuffer
      PROVE  IInv'
  <2> DEFINE f == sharing
  <2>1. /\ f \in decHas \ shared /\ rel = "idle" /\ f \in Frames
        /\ f \notin V \cup renHas \cup bAlreadyDisplayed \cup E \cup R \cup released
        /\ f \notin bNeedRelease
    BY <1>2 DEF FbmShareBuffer, SharesAgree, MarksAgree, OnePlace
  <2>2. /\ sharing' = NoFrame /\ shared' = shared \cup {f}
        /\ bInValidPictureQueue' = bInValidPictureQueue \cup {f} /\ Enqueue("valid", f)
        /\ UNCHANGED <<setup, nRenderHoldingNum, bUsedByDecoder, bUsedByRender,
                       bAlreadyDisplayed, bNeedRelease, released, rel, decHas, renHas>>
    BY <1>2, <2>1 DEF FbmShareBuffer, SharesAgree
  <2> HIDE DEF f
  <2>3. QueuesAgree' /\ E' = E /\ V' = V \cup {f} /\ R' = R
    <3>1. f \notin Range(queue["valid"]) /\ "valid" \in Queues
      BY <2>1, QueuesAre DEF V
    <3> QED
      BY <2>1, <2>2, <3>1, EnqueueStep
  <2>4. CountsAgree'
    BY <2>2 DEF setup, CountsAgree
  <2>5. OnePlace'
    BY <2>1, <2>2, <2>3, SameBuffers DEF OnePlace
  <2>6. SharesAgree'
    BY <2>1, <2>2, <2>3 DEF SharesAgree
  <2>7. MarksAgree'
    BY <2>1, <2>2, <2>3, SameBuffers DEF MarksAgree
  <2> QED
    BY <2>3, <2>4, <2>5, <2>6, <2>7
<1> QED
  BY <1>1, <1>2

LEMMA RenderFinite ==
  ASSUME OnePlace
  PROVE  renHas \in SUBSET Frames /\ IsFiniteSet(renHas) /\ Cardinality(renHas) \in Nat
<1>1. renHas \in SUBSET Frames
  BY DEF OnePlace, HasBuffer
<1> QED
  BY <1>1, FramesFinite, FS_Subset, FS_CardinalityType

LEMMA RequestPictureOk ==
  ASSUME Quiesced, IInv, FbmRequestPicture
  PROVE  IInv'
<1> DEFINE f == Head(queue["valid"])
<1> USE DEF IInv
<1>1. queue["valid"] # <<>> /\ f \in V
  BY HeadIsIn, QueuesAre DEF FbmRequestPicture, V
<1>2. /\ f \in bInValidPictureQueue \ (bUsedByRender \cup bAlreadyDisplayed)
      /\ f \notin renHas
  BY <1>1 DEF SharesAgree, OnePlace
<1>3. /\ queue' = [queue EXCEPT !["valid"] = Tail(@)]
      /\ num' = [num EXCEPT !["valid"] = @ - 1]
      /\ nRenderHoldingNum' = nRenderHoldingNum + 1
      /\ bInValidPictureQueue' = bInValidPictureQueue \ {f}
      /\ bUsedByRender' = bUsedByRender \cup {f} /\ renHas' = renHas \cup {f}
      /\ UNCHANGED <<setup, bUsedByDecoder, bAlreadyDisplayed, bNeedRelease, released, rel,
                     sharing, decHas, shared>>
  BY <1>2 DEF FbmRequestPicture, decoder
<1>4. QueuesAgree' /\ E' = E /\ V' = V \ {f} /\ R' = R
  BY <1>1, <1>3, DequeueStep, QueuesAre
<1> HIDE DEF f
<1>5. CountsAgree'
  <2>1. Cardinality(renHas') = Cardinality(renHas) + 1
    BY <1>2, <1>3, RenderFinite, FS_AddElement
  <2> QED
    BY <2>1, <1>3 DEF setup, CountsAgree
<1>6. OnePlace'
  BY <1>1, <1>3, <1>4, SameBuffers DEF OnePlace
<1>7. SharesAgree'
  BY <1>1, <1>3, <1>4 DEF SharesAgree
<1>8. MarksAgree'
  BY <1>3, <1>4, SameBuffers DEF MarksAgree
<1> QED
  BY <1>4, <1>5, <1>6, <1>7, <1>8

LEMMA ReturnPictureOk ==
  ASSUME Quiesced, IInv, NEW f \in Frames, FbmReturnPicture(f)
  PROVE  IInv'
<1> DEFINE q == IF f \in decHas THEN "none" ELSE PictureGoesTo(f)
<1> USE DEF IInv
<1>1. /\ f \in renHas /\ f \notin released \cup E \cup R \cup V \cup bAlreadyDisplayed
      /\ f \in bUsedByRender \ (bInValidPictureQueue \cup bAlreadyDisplayed)
  BY DEF FbmReturnPicture, OnePlace, SharesAgree
<1>2. /\ renHas' = renHas \ {f} /\ bUsedByRender' = bUsedByRender \ {f}
      /\ nRenderHoldingNum' = nRenderHoldingNum - 1
      /\ IF q = "none" THEN UNCHANGED queues ELSE Enqueue(q, f)
      /\ bAlreadyDisplayed' = bAlreadyDisplayed \cup {x \in {f} : f \in decHas}
      /\ UNCHANGED <<setup, bUsedByDecoder, bInValidPictureQueue, bNeedRelease, released, rel,
                     sharing, decHas, shared>>
  BY <1>1 DEF FbmReturnPicture, SharesAgree, PictureGoesTo, decoder
<1>3. \/ q = "none" /\ f \in decHas
      \/ q = "release" /\ f \notin decHas /\ f \in bNeedRelease
      \/ q = "empty" /\ f \notin decHas /\ f \notin bNeedRelease
  BY DEF PictureGoesTo
<1> HIDE DEF q
<1>4. /\ QueuesAgree' /\ V' = V
      /\ E' = E \cup {x \in {f} : q = "empty"}
      /\ R' = R \cup {x \in {f} : q = "release"}
  <2>1. CASE q = "none"
    BY <1>2, <2>1, SameQueues
  <2>2. CASE q # "none"
    <3>1. q \in Queues /\ f \notin Range(queue[q]) /\ Enqueue(q, f) /\ q # "valid"
      BY <1>1, <1>2, <1>3, <2>2 DEF E, R, Queues
    <3> QED
      BY <3>1, EnqueueStep
  <2> QED
    BY <2>1, <2>2
<1>5. CountsAgree'
  <2>1. Cardinality(renHas') = Cardinality(renHas) - 1
    BY <1>1, <1>2, RenderFinite, FS_RemoveElement
  <2> QED
    BY <2>1, <1>2 DEF setup, CountsAgree
<1>6. OnePlace'
  BY <1>1, <1>2, <1>3, <1>4, SameBuffers DEF OnePlace
<1>7. SharesAgree'
  BY <1>1, <1>2, <1>3, <1>4 DEF SharesAgree, OnePlace
<1>8. MarksAgree'
  BY <1>1, <1>2, <1>3, <1>4, SameBuffers DEF MarksAgree
<1> QED
  BY <1>4, <1>5, <1>6, <1>7, <1>8

LEMMA FlushOk ==
  ASSUME Quiesced, IInv,
         NEW step \in {"idle", "flush"},
         NEW next, next = IF step = "idle" THEN "idle" ELSE "release",
         FlushFrom(step, next)
  PROVE  IInv'
<1> USE DEF IInv
<1>1. /\ rel = step /\ rel' = next
      /\ UNCHANGED <<setup, nRenderHoldingNum, bUsedByDecoder, bUsedByRender, bNeedRelease,
                     released, sharing, decHas, shared, renHas>>
  BY DEF FlushFrom, decoder
<1>2. /\ QueuesAgree'
      /\ E' = E \cup (V \ decHas) /\ V' = {} /\ R' = R
      /\ bInValidPictureQueue' = {}
      /\ bAlreadyDisplayed' = bAlreadyDisplayed \cup (V \cap decHas)
  BY FlushStep DEF FlushFrom
<1>3. CountsAgree'
  BY <1>1 DEF setup, CountsAgree
<1>4. OnePlace'
  BY <1>1, <1>2, SameBuffers DEF OnePlace
<1>5. SharesAgree'
  BY <1>1, <1>2 DEF SharesAgree, OnePlace
<1>6. MarksAgree'
  BY <1>1, <1>2, SameBuffers DEF MarksAgree
<1> QED
  BY <1>2, <1>3, <1>4, <1>5, <1>6

LEMMA SetNewDispReleaseOk ==
  ASSUME Quiesced, IInv, FbmSetNewDispRelease
  PROVE  IInv'
<1> USE DEF IInv
<1>1. /\ bUseGpuBuf /\ decHas = {} /\ rel' = "flush"
      /\ bNeedRelease' = bNeedRelease \cup {f \in Frames : f < nValidBufNum}
      /\ UNCHANGED <<setup, queues, nRenderHoldingNum, bUsedByDecoder, bUsedByRender,
                     bInValidPictureQueue, bAlreadyDisplayed, released, sharing, decHas,
                     shared, renHas>>
  BY DEF FbmSetNewDispRelease, decoder
<1>2. QueuesAgree' /\ E' = E /\ V' = V /\ R' = R
  BY <1>1, SameQueues
<1>3. CountsAgree' /\ OnePlace' /\ SharesAgree'
  BY <1>1, <1>2, SameBuffers DEF setup, CountsAgree, OnePlace, SharesAgree
<1>4. {f \in Frames : f < nValidBufNum} \subseteq HasBuffer
  BY DEF HasBuffer
<1>5. MarksAgree'
  BY <1>1, <1>4, SameBuffers DEF MarksAgree, SharesAgree
<1> QED
  BY <1>2, <1>3, <1>5

LEMMA NewDispReleaseOk ==
  ASSUME Quiesced, IInv, FbmNewDispRelease
  PROVE  IInv'
<1> USE DEF IInv
<1>1. /\ rel = "release" /\ rel' = "idle"
      /\ UNCHANGED <<setup, nRenderHoldingNum, bUsedByDecoder, bUsedByRender,
                     bInValidPictureQueue, bAlreadyDisplayed, bNeedRelease, released, sharing,
                     decHas, shared, renHas>>
  BY DEF FbmNewDispRelease, decoder, flags
<1>2. QueuesAgree' /\ E' = {} /\ V' = V /\ R' = R \cup E
  BY MoveStep
<1>3. V = {} /\ decHas = {}
  BY <1>1 DEF MarksAgree
<1>4. CountsAgree' /\ OnePlace' /\ SharesAgree'
  BY <1>1, <1>2, <1>3, SameBuffers DEF setup, CountsAgree, OnePlace, SharesAgree
<1>5. MarksAgree'
  BY <1>1, <1>2, <1>3, SameBuffers DEF MarksAgree
<1> QED
  BY <1>2, <1>4, <1>5

LEMMA AllocatorOk ==
  ASSUME Quiesced, IInv, FbmRequestReleasePicture \/ FbmReturnReleasePicture
  PROVE  IInv'
<1> USE DEF IInv
<1>1. ASSUME FbmRequestReleasePicture
      PROVE  IInv'
  <2> DEFINE f == Head(queue["release"])
  <2>1. queue["release"] # <<>> /\ f \in R
    BY <1>1, HeadIsIn, QueuesAre DEF FbmRequestReleasePicture, R
  <2>2. /\ queue' = [queue EXCEPT !["release"] = Tail(@)]
        /\ num' = [num EXCEPT !["release"] = @ - 1]
        /\ released' = released \cup {f}
        /\ UNCHANGED <<setup, nRenderHoldingNum, bUsedByDecoder, bUsedByRender,
                       bInValidPictureQueue, bAlreadyDisplayed, bNeedRelease, rel, sharing,
                       decHas, shared, renHas>>
    BY <1>1 DEF FbmRequestReleasePicture, flags, decoder
  <2>3. QueuesAgree' /\ E' = E /\ V' = V /\ R' = R \ {f}
    BY <2>1, <2>2, DequeueStep, QueuesAre
  <2> HIDE DEF f
  <2>4. CountsAgree' /\ SharesAgree' /\ MarksAgree'
    BY <2>2, <2>3, SameBuffers DEF setup, CountsAgree, SharesAgree, MarksAgree
  <2>5. OnePlace'
    BY <2>1, <2>2, <2>3, SameBuffers DEF OnePlace
  <2> QED
    BY <2>3, <2>4, <2>5
<1>2. ASSUME FbmReturnReleasePicture
      PROVE  IInv'
  <2> DEFINE out == bNeedRelease \cap released
             f == First(out)
  <2>1. f \in bNeedRelease /\ f \in released /\ f \in Frames
    <3>1. out \in SUBSET Frames /\ out # {}
      BY <1>2 DEF FbmReturnReleasePicture, MarksAgree, HasBuffer
    <3>2. f \in out
      BY <3>1, FirstIsIn
    <3> QED
      BY <3>1, <3>2
  <2>2. /\ bNeedRelease' = bNeedRelease \ {f} /\ released' = released \ {f}
        /\ Enqueue("empty", f)
        /\ UNCHANGED <<setup, nRenderHoldingNum, bUsedByDecoder, bUsedByRender,
                       bInValidPictureQueue, bAlreadyDisplayed, rel, sharing, decHas, shared,
                       renHas>>
    BY <1>2 DEF FbmReturnReleasePicture, Replaced, decoder
  <2> HIDE DEF f
  <2>3. f \notin E \cup V \cup R \cup decHas \cup renHas
    BY <2>1 DEF OnePlace
  <2>4. QueuesAgree' /\ E' = E \cup {f} /\ V' = V /\ R' = R
    <3>1. f \notin Range(queue["empty"]) /\ "empty" \in Queues
      BY <2>3, QueuesAre DEF E
    <3> QED
      BY <2>1, <2>2, <3>1, EnqueueStep
  <2>5. CountsAgree' /\ SharesAgree' /\ MarksAgree'
    BY <2>2, <2>4, SameBuffers DEF setup, CountsAgree, SharesAgree, MarksAgree
  <2>6. OnePlace'
    BY <2>1, <2>2, <2>3, <2>4, SameBuffers DEF OnePlace
  <2> QED
    BY <2>4, <2>5, <2>6
<1> QED
  BY <1>1, <1>2

LEMMA StepOk == Quiesced /\ IInv /\ [Next]_vars => IInv'
<1> SUFFICES ASSUME Quiesced, IInv, [Next]_vars
             PROVE  IInv'
  OBVIOUS
<1>1. CASE FbmSetFbmBufAddress
  BY <1>1, SetFbmBufAddressOk
<1>2. CASE FbmRequestBuffer
  BY <1>2, RequestBufferOk
<1>3. CASE \E f \in Frames, bValid \in BOOLEAN : FbmReturnBuffer(f, bValid)
  BY <1>3, ReturnBufferOk
<1>4. CASE FbmShareBuffer \/ \E f \in Frames : ShareCheck(f)
  BY <1>4, ShareOk
<1>5. CASE FbmRequestPicture
  BY <1>5, RequestPictureOk
<1>6. CASE \E f \in Frames : FbmReturnPicture(f)
  BY <1>6, ReturnPictureOk
<1>7. CASE FbmFlush
  BY <1>7, FlushOk DEF FbmFlush
<1>8. CASE FlushForRelease
  <2>1. FlushFrom("flush", "release")
    BY <1>8 DEF FlushForRelease
  <2> QED
    BY <2>1, FlushOk
<1>9. CASE FbmSetNewDispRelease
  BY <1>9, SetNewDispReleaseOk
<1>10. CASE FbmNewDispRelease
  BY <1>10, NewDispReleaseOk
<1>11. CASE FbmRequestReleasePicture \/ FbmReturnReleasePicture
  BY <1>11, AllocatorOk
<1>12. CASE UNCHANGED vars
  <2>1. QueuesAgree' /\ E' = E /\ V' = V /\ R' = R
    BY <1>12, SameQueues DEF vars, IInv
  <2>2. HasBuffer' = HasBuffer
    BY <1>12, SameBuffers DEF vars
  <2>3. (CountsAgree /\ OnePlace /\ SharesAgree /\ MarksAgree)'
    BY <1>12, <2>1, <2>2
      DEF vars, setup, flags, decoder, IInv, CountsAgree, OnePlace, SharesAgree, MarksAgree
  <2> QED
    BY <2>1, <2>3 DEF IInv
<1> QED
  BY <1>1, <1>2, <1>3, <1>4, <1>5, <1>6, <1>7, <1>8, <1>9, <1>10, <1>11, <1>12 DEF Next

\* The manager (fbm.c) keeps IInv: each frame that has a buffer is in one queue or
\* in use, the flags and counters say so, what decoder and display have in common
\* was shared, and only frames on their way out carry the mark of a new display.
THEOREM IInvHolds == Quiesced => (Spec => []IInv)
<1> SUFFICES ASSUME Quiesced
             PROVE  Spec => []IInv
  OBVIOUS
<1>1. IInv /\ [Next]_vars => IInv'
  BY StepOk
<1> QED
  BY InitOk, <1>1, PTL DEF Spec
-----------------------------------------------------------------------------
(* The properties. *)

LEMMA InvBooks ==
  ASSUME IInv
  PROVE  BooksAgree
<1> USE DEF IInv
<1>1. HasBuffer \subseteq Frames
  BY DEF HasBuffer
<1>2. num \in [Queues -> 0 .. nMaxFrameNum]
  BY LengthBound, QueuesAre DEF QueuesAgree
<1>3. nRenderHoldingNum \in 0 .. nMaxFrameNum
  <2>1. Cardinality(renHas) <= nMaxFrameNum /\ Cardinality(renHas) \in Nat
    BY RenderFinite, FramesFinite, FS_Subset
  <2> QED
    BY <2>1, FbmAssumption DEF CountsAgree
<1>4. TypeOK
  BY <1>1, <1>2, <1>3
    DEF TypeOK, QueuesAgree, CountsAgree, OnePlace, SharesAgree, MarksAgree
<1>5. EmptyIsClear
  BY EmptyAreClear DEF EmptyIsClear, E
<1>6. FlagsAgree
  BY DEF FlagsAgree, OnePlace, SharesAgree, V
<1>7. CountersAgree
  BY DEF CountersAgree, CountsAgree, QueuesAgree
<1> QED
  BY <1>4, <1>5, <1>6, <1>7 DEF BooksAgree

LEMMA AtMostOne ==
  ASSUME NEW S, \A x, y \in S : x = y
  PROVE  Cardinality(S) <= 1
<1>1. CASE S = {}
  BY <1>1, FS_EmptySet
<1>2. CASE S # {}
  <2>1. PICK x \in S : S = {x}
    BY <1>2
  <2> QED
    BY <2>1, FS_Singleton
<1> QED
  BY <1>1, <1>2

LEMMA InvNotLost ==
  ASSUME IInv
  PROVE  NoFrameLost
<1> USE DEF IInv
<1> SUFFICES ASSUME NEW f \in Frames, bUseGpuBuf => f < nValidBufNum
             PROVE  /\ Cardinality(Places(f)) <= 1
                    /\ Places(f) = {} => InUse(f)
                    /\ f \in Range(queue["empty"]) \cup Range(queue["release"]) => ~InUse(f)
                    /\ f \in released => f \notin decHas \cup renHas
  BY DEF NoFrameLost
<1>1. f \in E \cup V \cup R \cup decHas \cup renHas \cup released
  BY DEF OnePlace, HasBuffer
<1>2. ASSUME NEW q \in Queues
      PROVE  /\ Len(queue[q]) \in 0 .. nMaxFrameNum /\ DOMAIN queue[q] = 1 .. Len(queue[q])
             /\ NoDup(queue[q])
  <2>1. queue[q] \in Seq(Frames) /\ NoDup(queue[q])
    BY QueuesAre
  <2> QED
    BY <2>1, LengthBound
<1>3. Cardinality(Places(f)) <= 1
  <2> SUFFICES ASSUME NEW p \in Places(f), NEW r \in Places(f)
               PROVE  p = r
    BY AtMostOne
  <2>1. /\ p \in Queues \X (1 .. nMaxFrameNum) /\ p[1] \in Queues
        /\ p[2] \in DOMAIN queue[p[1]] /\ queue[p[1]][p[2]] = f
    BY <1>2 DEF Places
  <2>2. /\ r \in Queues \X (1 .. nMaxFrameNum) /\ r[1] \in Queues
        /\ r[2] \in DOMAIN queue[r[1]] /\ queue[r[1]][r[2]] = f
    BY <1>2 DEF Places
  <2>3. f \in Range(queue[p[1]]) /\ f \in Range(queue[r[1]])
    BY <2>1, <2>2 DEF Range
  <2>4. p[1] = r[1]
    BY <2>1, <2>2, <2>3 DEF OnePlace, E, V, R, Queues
  <2>5. p[2] = r[2]
    BY <2>1, <2>2, <2>4, <1>2 DEF NoDup
  <2> QED
    BY <2>1, <2>2, <2>4, <2>5
<1>4. ASSUME NEW q \in Queues, f \in Range(queue[q])
      PROVE  Places(f) # {}
  <2>1. PICK i \in DOMAIN queue[q] : queue[q][i] = f
    BY <1>4 DEF Range
  <2>2. i \in 1 .. nMaxFrameNum /\ i <= Len(queue[q])
    BY <1>2, FbmAssumption
  <2>3. <<q, i>> \in Places(f)
    BY <2>1, <2>2 DEF Places
  <2> QED
    BY <2>3
<1>5. Places(f) = {} => InUse(f)
  BY <1>1, <1>4, QueuesAre DEF InUse, E, V, R
<1>6. f \in Range(queue["empty"]) \cup Range(queue["release"]) => ~InUse(f)
  BY DEF OnePlace, InUse, E, R
<1>7. f \in released => f \notin decHas \cup renHas
  BY DEF OnePlace
<1> QED
  BY <1>3, <1>5, <1>6, <1>7

LEMMA InvOldLeave ==
  ASSUME IInv
  PROVE  OldBuffersLeave
BY DEF IInv, MarksAgree, OldBuffersLeave, E

\* With the decoder kept out while the display changes, flags, queues and counters
\* say the same and no frame in the empty queue carries a flag, so that none of
\* the "invalid frame status" exits of the manager (fbm.c) is ever taken.
THEOREM BooksAlwaysAgree == Quiesced => (Spec => []BooksAgree)
BY IInvHolds, InvBooks, PTL

\* FbmRequestBuffer to FbmReturnReleasePicture never lose a frame nor put one in
\* two places, however decoder, renderer, flush and allocator interleave.
THEOREM FramesNotLost == Quiesced => (Spec => []NoFrameLost)
BY IInvHolds, InvNotLost, PTL

\* After FbmSetNewDispRelease a frame with an old buffer reaches the decoder no
\* more: whoever lets go of it last sends it to the allocator.
THEOREM OldBuffersAreGone == Quiesced => (Spec => []OldBuffersLeave)
BY IInvHolds, InvOldLeave, PTL
-----------------------------------------------------------------------------
(* The manager keeps the promise of FrameUsers. *)

\* The values the refinement mapping gives to users and shown, and the frames
\* the allocator has.
UsersNow ==
  [f \in Frames |->
     {u \in {"decoder"} : f \in decHas} \cup {u \in {"renderer"} : f \in renHas}
       \cup {u \in {"allocator"} : f \in released \/ (bUseGpuBuf /\ f >= nValidBufNum)}]
ShownNow == decHas \cap (bInValidPictureQueue \cup bUsedByRender \cup bAlreadyDisplayed)
Allocated == released \cup (Frames \ HasBuffer)

LEMMA UsersAre ==
  ASSUME CountsAgree
  PROVE  /\ DOMAIN UsersNow = Frames
         /\ \A f \in Frames :
              UsersNow[f] = {u \in {"decoder"} : f \in decHas}
                              \cup {u \in {"renderer"} : f \in renHas}
                              \cup {u \in {"allocator"} : f \in Allocated}
<1>1. ASSUME NEW f \in Frames
      PROVE  (f \in released \/ (bUseGpuBuf /\ f >= nValidBufNum)) <=> f \in Allocated
  <2>1. f \in Int /\ nValidBufNum \in Int
    BY FbmAssumption DEF Frames, CountsAgree
  <2>2. f >= nValidBufNum <=> ~(f < nValidBufNum)
    BY <2>1
  <2> QED
    BY <2>2, Zenon DEF Allocated, HasBuffer
<1> QED
  BY <1>1, Zenon DEF UsersNow

\* A step that changes who has one frame.
LEMMA UsersStep ==
  ASSUME CountsAgree, CountsAgree', NEW x \in Frames,
         decHas' \ {x} = decHas \ {x}, renHas' \ {x} = renHas \ {x},
         Allocated' \ {x} = Allocated \ {x}
  PROVE  UsersNow' = [UsersNow EXCEPT ![x] = {u \in {"decoder"} : x \in decHas'}
                                              \cup {u \in {"renderer"} : x \in renHas'}
                                              \cup {u \in {"allocator"} : x \in Allocated'}]
<1>1. /\ DOMAIN UsersNow' = Frames
      /\ \A f \in Frames :
           UsersNow'[f] = {u \in {"decoder"} : f \in decHas'}
                            \cup {u \in {"renderer"} : f \in renHas'}
                            \cup {u \in {"allocator"} : f \in Allocated'}
  <2>1. (CountsAgree => /\ DOMAIN UsersNow = Frames
                        /\ \A f \in Frames :
                             UsersNow[f] = {u \in {"decoder"} : f \in decHas}
                                             \cup {u \in {"renderer"} : f \in renHas}
                                             \cup {u \in {"allocator"} : f \in Allocated})'
    BY UsersAre, PTL
  <2> QED
    BY <2>1
<1>2. \A f \in Frames : f # x =>
        /\ f \in decHas' <=> f \in decHas
        /\ f \in renHas' <=> f \in renHas
        /\ f \in Allocated' <=> f \in Allocated
  OBVIOUS
<1>3. \A f \in Frames : f # x => UsersNow'[f] = UsersNow[f]
  <2> SUFFICES ASSUME NEW f \in Frames, f # x
               PROVE  UsersNow'[f] = UsersNow[f]
    OBVIOUS
  <2>1. \A u : u \in UsersNow'[f] <=> u \in UsersNow[f]
    BY <1>1, <1>2, UsersAre
  <2>2. \E A, B : UsersNow'[f] = A \cup B
    BY <1>1
  <2>3. \E A, B : UsersNow[f] = A \cup B
    BY UsersAre
  <2> QED
    BY <2>1, <2>2, <2>3
<1>4. UsersNow' = [f \in Frames |-> UsersNow'[f]] /\ UsersNow = [f \in Frames |-> UsersNow[f]]
  BY DEF UsersNow
<1> QED
  BY <1>1, <1>3, <1>4

\* The promise's actions, in these terms.
LEMMA TakeIs ==
  ASSUME NEW f \in Frames, NEW u, UsersNow[f] = {}, f \notin V,
         UsersNow' = [UsersNow EXCEPT ![f] = {u}],
         ShownNow' = ShownNow, queue'["valid"] = queue["valid"]
  PROVE  Users!Take(f, u)
BY DEF Users!Take, Users!Free, Users!Waits, UsersNow, ShownNow, V, Range

LEMMA DropIs ==
  ASSUME NEW f \in Frames, NEW u \in UsersNow[f],
         UsersNow' = [UsersNow EXCEPT ![f] = UsersNow[f] \ {u}],
         ShownNow' = IF u = "decoder" THEN ShownNow \ {f} ELSE ShownNow,
         queue'["valid"] = queue["valid"]
  PROVE  Users!Drop(f, u)
BY DEF Users!Drop, UsersNow, ShownNow

LEMMA ShowIs ==
  ASSUME NEW f \in Frames, "decoder" \in UsersNow[f], f \notin ShownNow,
         queue'["valid"] = Append(queue["valid"], f),
         \/ ShownNow' = ShownNow \cup {f} /\ UsersNow' = UsersNow
         \/ ShownNow' = ShownNow /\ UsersNow' = [UsersNow EXCEPT ![f] = UsersNow[f] \ {"decoder"}]
  PROVE  Users!Show(f)
BY DEF Users!Show, UsersNow, ShownNow

LEMMA DrawIs ==
  ASSUME queue["valid"] # <<>>, queue'["valid"] = Tail(queue["valid"]),
         LET f == Head(queue["valid"])
         IN UsersNow' = [UsersNow EXCEPT ![f] = UsersNow[f] \cup {"renderer"}],
         ShownNow' = ShownNow
  PROVE  Users!Draw
BY DEF Users!Draw, UsersNow, ShownNow

LEMMA FlushIs ==
  ASSUME queue'["valid"] = <<>>, UsersNow' = UsersNow, ShownNow' = ShownNow
  PROVE  Users!Flush
BY DEF Users!Flush, UsersNow, ShownNow

LEMMA StutterIs ==
  ASSUME queue'["valid"] = queue["valid"], UsersNow' = UsersNow, ShownNow' = ShownNow
  PROVE  UNCHANGED Users!vars
BY DEF Users!vars, UsersNow, ShownNow

LEMMA SameUsers ==
  ASSUME UNCHANGED <<setup, decHas, renHas, released>>
  PROVE  UsersNow' = UsersNow
BY DEF setup, UsersNow

LEMMA EnqueueOne ==
  ASSUME QueuesAgree, NEW q \in Queues, NEW f, Enqueue(q, f)
  PROVE  queue'["valid"] = IF q = "valid" THEN Append(queue["valid"], f) ELSE queue["valid"]
BY QueuesAre DEF Enqueue, QueuesAgree

\* The decoder's steps.
LEMMA DecoderRefines ==
  ASSUME Quiesced, IInv, IInv',
         \/ FbmRequestBuffer \/ FbmShareBuffer \/ \E f \in Frames : ShareCheck(f)
         \/ \E f \in Frames, bValid \in BOOLEAN : FbmReturnBuffer(f, bValid)
  PROVE  Users!Next \/ UNCHANGED Users!vars
<1> USE DEF IInv
<1>1. CASE FbmRequestBuffer
  <2>0. Head(queue["empty"]) \in E
    BY <1>1, HeadIsIn, QueuesAre DEF E, FbmRequestBuffer
  <2> PICK f \in Frames : f = Head(queue["empty"])
    BY <2>0, QueuesAre
  <2>1. f \in E /\ Clear(f)
    BY <2>0, EmptyAreClear
  <2>2. /\ queue' = [queue EXCEPT !["empty"] = Tail(@)]
        /\ decHas' = decHas \cup {f}
        /\ UNCHANGED <<setup, bInValidPictureQueue, bUsedByRender, bAlreadyDisplayed,
                       released, renHas>>
    BY <1>1, <2>1 DEF FbmRequestBuffer
  <2>3. f \notin V \cup decHas \cup renHas \cup Allocated /\ Allocated' = Allocated
    BY <2>1, <2>2, SameBuffers DEF OnePlace, Allocated
  <2>4. UsersNow[f] = {} /\ UsersNow' = [UsersNow EXCEPT ![f] = {"decoder"}]
    BY <2>1, <2>2, <2>3, UsersStep, UsersAre
  <2>5. ShownNow' = ShownNow
    BY <2>1, <2>2 DEF ShownNow, Clear
  <2>6. queue'["valid"] = queue["valid"]
    BY <2>2, QueuesAre DEF QueuesAgree
  <2>7. Users!Take(f, "decoder")
    BY <2>1, <2>3, <2>4, <2>5, <2>6, TakeIs
  <2> QED
    BY <2>1, <2>7 DEF Users!Next
<1>2. CASE FbmShareBuffer
  <2> DEFINE f == sharing
  <2>1. /\ f \in decHas \ shared /\ f \in Frames
        /\ f \notin V \cup renHas \cup bAlreadyDisplayed
    BY <1>2 DEF FbmShareBuffer, SharesAgree, MarksAgree
  <2>2. /\ bInValidPictureQueue' = bInValidPictureQueue \cup {f} /\ Enqueue("valid", f)
        /\ UNCHANGED <<setup, bUsedByRender, bAlreadyDisplayed, released, decHas, renHas>>
    BY <1>2, <2>1 DEF FbmShareBuffer, SharesAgree
  <2> HIDE DEF f
  <2>3. "decoder" \in UsersNow[f] /\ UsersNow' = UsersNow
    BY <2>1, <2>2, UsersAre, SameUsers
  <2>4. f \notin ShownNow /\ ShownNow' = ShownNow \cup {f}
    BY <2>1, <2>2 DEF ShownNow, SharesAgree
  <2>5. queue'["valid"] = Append(queue["valid"], f)
    BY <2>2, EnqueueOne, QueuesAre
  <2>6. Users!Show(f)
    BY <2>1, <2>3, <2>4, <2>5, ShowIs
  <2> QED
    BY <2>1, <2>6 DEF Users!Next
<1>3. CASE \E f \in Frames : ShareCheck(f)
  <2>1. UNCHANGED <<setup, queues, flags, released, decHas, renHas>>
    BY <1>3 DEF ShareCheck
  <2>2. UsersNow' = UsersNow /\ ShownNow' = ShownNow /\ queue' = queue
    BY <2>1, SameUsers DEF queues, flags, ShownNow
  <2> QED
    BY <2>2, StutterIs
<1>4. ASSUME NEW f \in Frames, NEW bValid \in BOOLEAN, FbmReturnBuffer(f, bValid)
      PROVE  Users!Next
  <2> DEFINE q == Destination(f, bValid)
  <2>1. /\ rel = "idle" /\ f \in decHas /\ f \notin released /\ f \in bUsedByDecoder
        /\ f \notin bNeedRelease
    BY <1>4 DEF FbmReturnBuffer, DecoderRuns, OnePlace, SharesAgree, MarksAgree
  <2>2. \/ q = "none"
        \/ q = "empty" /\ f \notin V \cup renHas
        \/ q = "valid" /\ f \notin V \cup renHas \cup bAlreadyDisplayed
    BY <2>1, Zenon DEF Destination, SharesAgree
  <2>3. /\ decHas' = decHas \ {f}
        /\ IF q = "none" THEN UNCHANGED queues ELSE Enqueue(q, f)
        /\ bInValidPictureQueue' = bInValidPictureQueue \cup {x \in {f} : q = "valid"}
        /\ bAlreadyDisplayed' = bAlreadyDisplayed \ {x \in {f} : q # "none"}
        /\ UNCHANGED <<setup, bUsedByRender, released, renHas>>
    BY <1>4, <2>1 DEF FbmReturnBuffer
  <2> HIDE DEF q
  <2>4. f \notin Allocated /\ Allocated' = Allocated
    BY <2>1, <2>3, SameBuffers DEF OnePlace, Allocated
  <2>5. /\ "decoder" \in UsersNow[f]
        /\ UsersNow' = [UsersNow EXCEPT ![f] = UsersNow[f] \ {"decoder"}]
    <3>1. UsersNow' = [UsersNow EXCEPT ![f] = {u \in {"decoder"} : f \in decHas'}
                                              \cup {u \in {"renderer"} : f \in renHas'}
                                              \cup {u \in {"allocator"} : f \in Allocated'}]
      BY <2>3, <2>4, UsersStep
    <3>2. UsersNow[f] = {"decoder"} \cup {u \in {"renderer"} : f \in renHas}
      BY <2>1, <2>4, UsersAre
    <3>3. {u \in {"decoder"} : f \in decHas'} \cup {u \in {"renderer"} : f \in renHas'}
            \cup {u \in {"allocator"} : f \in Allocated'}
          = UsersNow[f] \ {"decoder"}
      BY <2>3, <2>4, <3>2
    <3> QED
      BY <3>1, <3>2, <3>3
  <2>6. ShownNow' = ShownNow \ {f}
    BY <2>3 DEF ShownNow
  <2>7. CASE q = "valid"
    <3>1. f \notin ShownNow
      BY <2>2, <2>7 DEF ShownNow, SharesAgree
    <3>2. queue'["valid"] = Append(queue["valid"], f)
      BY <2>3, <2>7, EnqueueOne, QueuesAre
    <3>3. Users!Show(f)
      BY <2>5, <2>6, <3>1, <3>2, ShowIs
    <3> QED
      BY <3>3 DEF Users!Next
  <2>8. CASE q # "valid"
    <3>1. queue'["valid"] = queue["valid"]
      BY <2>2, <2>3, <2>8, EnqueueOne, QueuesAre DEF queues
    <3>2. Users!Drop(f, "decoder")
      BY <2>5, <2>6, <3>1, DropIs
    <3> QED
      BY <3>2 DEF Users!Next
  <2> QED
    BY <2>7, <2>8
<1> QED
  BY <1>1, <1>2, <1>3, <1>4

\* The renderer's steps and the flush.
LEMMA RendererRefines ==
  ASSUME Quiesced, IInv, IInv',
         \/ FbmRequestPicture \/ FbmFlush \/ FlushForRelease
         \/ \E f \in Frames : FbmReturnPicture(f)
  PROVE  Users!Next
<1> USE DEF IInv
<1>1. CASE FbmRequestPicture
  <2> DEFINE f == Head(queue["valid"])
  <2>1. queue["valid"] # <<>> /\ f \in V /\ f \in Frames
    BY <1>1, HeadIsIn, QueuesAre DEF FbmRequestPicture, V
  <2>2. f \in bInValidPictureQueue \ (bUsedByRender \cup bAlreadyDisplayed)
    BY <2>1 DEF SharesAgree, OnePlace
  <2>3. /\ queue' = [queue EXCEPT !["valid"] = Tail(@)]
        /\ bInValidPictureQueue' = bInValidPictureQueue \ {f}
        /\ bUsedByRender' = bUsedByRender \cup {f} /\ renHas' = renHas \cup {f}
        /\ UNCHANGED <<setup, bAlreadyDisplayed, released, decHas>>
    BY <1>1, <2>2 DEF FbmRequestPicture, decoder
  <2>4. queue'["valid"] = Tail(queue["valid"])
    BY <2>3, QueuesAre DEF QueuesAgree
  <2>5. ShownNow' = ShownNow
    BY <2>2, <2>3 DEF ShownNow
  <2>6. Allocated' = Allocated
    BY <2>3, SameBuffers DEF Allocated
  <2>7. UsersNow' = [UsersNow EXCEPT ![f] = UsersNow[f] \cup {"renderer"}]
    <3> HIDE DEF f
    <3>1. UsersNow' = [UsersNow EXCEPT ![f] = {u \in {"decoder"} : f \in decHas'}
                                              \cup {u \in {"renderer"} : f \in renHas'}
                                              \cup {u \in {"allocator"} : f \in Allocated'}]
      BY <2>1, <2>3, <2>6, UsersStep
    <3>2. UsersNow[f] = {u \in {"decoder"} : f \in decHas}
                          \cup {u \in {"renderer"} : f \in renHas}
                          \cup {u \in {"allocator"} : f \in Allocated}
      BY <2>1, UsersAre
    <3>3. {u \in {"decoder"} : f \in decHas'} \cup {u \in {"renderer"} : f \in renHas'}
            \cup {u \in {"allocator"} : f \in Allocated'}
          = UsersNow[f] \cup {"renderer"}
      BY <2>3, <2>6, <3>2
    <3> QED
      BY <3>1, <3>3
  <2>8. Users!Draw
    BY <2>1, <2>4, <2>5, <2>7, DrawIs
  <2> QED
    BY <2>8 DEF Users!Next
<1>2. ASSUME NEW f \in Frames, FbmReturnPicture(f)
      PROVE  Users!Next
  <2>1. /\ f \in renHas /\ f \notin released \cup V \cup bAlreadyDisplayed
        /\ f \in bUsedByRender \ (bInValidPictureQueue \cup bAlreadyDisplayed)
    BY <1>2 DEF FbmReturnPicture, OnePlace, SharesAgree
  <2>2. /\ renHas' = renHas \ {f} /\ bUsedByRender' = bUsedByRender \ {f}
        /\ bAlreadyDisplayed' = bAlreadyDisplayed \cup {x \in {f} : f \in decHas}
        /\ UNCHANGED queues \/ Enqueue("empty", f) \/ Enqueue("release", f)
        /\ UNCHANGED <<setup, bInValidPictureQueue, released, decHas>>
    BY <1>2, <2>1 DEF FbmReturnPicture, SharesAgree, PictureGoesTo, decoder
  <2>3. queue'["valid"] = queue["valid"]
    BY <2>2, EnqueueOne, QueuesAre DEF queues
  <2>4. ShownNow' = ShownNow
    BY <2>1, <2>2 DEF ShownNow
  <2>5. Allocated' = Allocated
    BY <2>2, SameBuffers DEF Allocated
  <2>6. /\ "renderer" \in UsersNow[f]
        /\ UsersNow' = [UsersNow EXCEPT ![f] = UsersNow[f] \ {"renderer"}]
    <3>1. UsersNow' = [UsersNow EXCEPT ![f] = {u \in {"decoder"} : f \in decHas'}
                                              \cup {u \in {"renderer"} : f \in renHas'}
                                              \cup {u \in {"allocator"} : f \in Allocated'}]
      BY <2>2, <2>5, UsersStep
    <3>2. UsersNow[f] = {u \in {"decoder"} : f \in decHas} \cup {"renderer"}
                          \cup {u \in {"allocator"} : f \in Allocated}
      BY <2>1, UsersAre
    <3>3. {u \in {"decoder"} : f \in decHas'} \cup {u \in {"renderer"} : f \in renHas'}
            \cup {u \in {"allocator"} : f \in Allocated'}
          = UsersNow[f] \ {"renderer"}
      BY <2>2, <2>5, <3>2
    <3> QED
      BY <3>1, <3>2, <3>3
  <2>7. Users!Drop(f, "renderer")
    BY <2>3, <2>4, <2>6, DropIs
  <2> QED
    BY <2>7 DEF Users!Next
<1>3. CASE FbmFlush \/ FlushForRelease
  <2>1. EmptyValidQueue /\ UNCHANGED <<setup, bUsedByRender, released, decHas, renHas>>
    BY <1>3 DEF FbmFlush, FlushForRelease, FlushFrom, decoder
  <2>2. /\ QueuesAgree' /\ V' = {}
        /\ bInValidPictureQueue' = {}
        /\ bAlreadyDisplayed' = bAlreadyDisplayed \cup (V \cap decHas)
    BY <2>1, FlushStep
  <2>3. queue'["valid"] = <<>>
    <3>1. queue'["valid"] \in Seq(Frames)
      BY <2>2, QueuesAre DEF QueuesAgree
    <3>2. queue'["valid"] # <<>> => queue'["valid"][1] \in V'
      BY <3>1 DEF V, Range
    <3> QED
      BY <2>2, <3>2
  <2>4. UsersNow' = UsersNow
    BY <2>1, SameUsers
  <2>5. ShownNow' = ShownNow
    BY <2>1, <2>2 DEF ShownNow, SharesAgree
  <2>6. Users!Flush
    BY <2>3, <2>4, <2>5, FlushIs
  <2> QED
    BY <2>6 DEF Users!Next
<1> QED
  BY <1>1, <1>2, <1>3

\* The client's and the allocator's steps, and the change of the display.
LEMMA AllocatorRefines ==
  ASSUME Quiesced, IInv, IInv',
         \/ FbmSetFbmBufAddress \/ FbmSetNewDispRelease \/ FbmNewDispRelease
         \/ FbmRequestReleasePicture \/ FbmReturnReleasePicture
  PROVE  Users!Next \/ UNCHANGED Users!vars
<1> USE DEF IInv
<1>1. CASE FbmSetFbmBufAddress
  <2>0. nValidBufNum \in Frames
    BY <1>1, FbmAssumption DEF FbmSetFbmBufAddress, CountsAgree, Frames
  <2> PICK f \in Frames : f = nValidBufNum
    BY <2>0
  <2>1. /\ f \notin HasBuffer /\ HasBuffer' = HasBuffer \cup {f}
        /\ HasBuffer \subseteq Frames
    BY <1>1, FbmAssumption DEF FbmSetFbmBufAddress, CountsAgree, HasBuffer, Frames
  <2>2. /\ Enqueue("empty", f)
        /\ UNCHANGED <<flags, released, decHas, renHas>>
    BY <1>1 DEF FbmSetFbmBufAddress, decoder
  <2>3. f \in Allocated /\ Allocated' = Allocated \ {f} /\ f \notin decHas \cup renHas
    BY <2>1, <2>2 DEF Allocated, OnePlace
  <2>4. ShownNow' = ShownNow
    BY <2>2 DEF flags, ShownNow
  <2>5. queue'["valid"] = queue["valid"]
    BY <2>2, EnqueueOne, QueuesAre
  <2>6. UsersNow[f] = {"allocator"} /\ UsersNow' = [UsersNow EXCEPT ![f] = {}]
    BY <2>1, <2>2, <2>3, UsersStep, UsersAre
  <2>7. Users!Drop(f, "allocator")
    BY <2>1, <2>4, <2>5, <2>6, DropIs
  <2> QED
    BY <2>1, <2>7 DEF Users!Next
<1>2. CASE FbmSetNewDispRelease
  <2>1. UNCHANGED <<setup, queues, bUsedByRender, bInValidPictureQueue, bAlreadyDisplayed,
                    released, decHas, renHas>>
    BY <1>2 DEF FbmSetNewDispRelease, decoder
  <2>2. UsersNow' = UsersNow /\ ShownNow' = ShownNow /\ queue' = queue
    BY <2>1, SameUsers DEF queues, ShownNow
  <2> QED
    BY <2>2, StutterIs
<1>3. CASE FbmNewDispRelease
  <2>1. UNCHANGED <<setup, flags, released, decHas, renHas>>
    BY <1>3 DEF FbmNewDispRelease, decoder
  <2>2. queue'["valid"] = queue["valid"]
    BY <1>3, QueuesAre DEF FbmNewDispRelease, QueuesAgree
  <2>3. UsersNow' = UsersNow /\ ShownNow' = ShownNow
    BY <2>1, SameUsers DEF flags, ShownNow
  <2> QED
    BY <2>2, <2>3, StutterIs
<1>4. CASE FbmRequestReleasePicture
  <2>0. Head(queue["release"]) \in R
    BY <1>4, HeadIsIn, QueuesAre DEF R, FbmRequestReleasePicture
  <2> PICK f \in Frames : f = Head(queue["release"])
    BY <2>0, QueuesAre
  <2>1. /\ queue' = [queue EXCEPT !["release"] = Tail(@)]
        /\ released' = released \cup {f}
        /\ UNCHANGED <<setup, flags, decHas, renHas>>
    BY <1>4 DEF FbmRequestReleasePicture, decoder
  <2>2. /\ f \notin V \cup decHas \cup renHas \cup Allocated
        /\ Allocated' = Allocated \cup {f}
    BY <2>0, <2>1, SameBuffers DEF OnePlace, Allocated
  <2>3. UsersNow[f] = {} /\ UsersNow' = [UsersNow EXCEPT ![f] = {"allocator"}]
    BY <2>1, <2>2, UsersStep, UsersAre
  <2>4. ShownNow' = ShownNow
    BY <2>1 DEF flags, ShownNow
  <2>5. queue'["valid"] = queue["valid"]
    BY <2>1, QueuesAre DEF QueuesAgree
  <2>6. Users!Take(f, "allocator")
    BY <2>2, <2>3, <2>4, <2>5, TakeIs
  <2> QED
    BY <2>6 DEF Users!Next
<1>5. CASE FbmReturnReleasePicture
  <2> DEFINE out == bNeedRelease \cap released
  <2>0. out \in SUBSET Frames /\ out # {}
    BY <1>5 DEF FbmReturnReleasePicture, MarksAgree, HasBuffer
  <2> PICK f \in out : f = First(out)
    BY <2>0, FirstIsIn
  <2>1. f \in Frames /\ f \in released /\ f \in HasBuffer
    BY <2>0 DEF MarksAgree
  <2>2. /\ released' = released \ {f} /\ Enqueue("empty", f)
        /\ UNCHANGED <<setup, bUsedByRender, bInValidPictureQueue, bAlreadyDisplayed, decHas,
                       renHas>>
    BY <1>5 DEF FbmReturnReleasePicture, Replaced, decoder
  <2>3. f \in Allocated /\ Allocated' = Allocated \ {f} /\ f \notin decHas \cup renHas
    BY <2>1, <2>2, SameBuffers DEF Allocated, OnePlace
  <2>4. ShownNow' = ShownNow
    BY <2>2 DEF ShownNow
  <2>5. queue'["valid"] = queue["valid"]
    BY <2>2, EnqueueOne, QueuesAre
  <2>6. UsersNow[f] = {"allocator"} /\ UsersNow' = [UsersNow EXCEPT ![f] = {}]
    BY <2>1, <2>2, <2>3, UsersStep, UsersAre
  <2>7. Users!Drop(f, "allocator")
    BY <2>1, <2>4, <2>5, <2>6, DropIs
  <2> QED
    BY <2>1, <2>7 DEF Users!Next
<1> QED
  BY <1>1, <1>2, <1>3, <1>4, <1>5

\* FbmRequestBuffer, FbmReturnBuffer, FbmShareBuffer, FbmRequestPicture and the
\* rest keep the promise made to the three users of a frame: nobody is given what
\* another uses, and what the decoder finished is shown once and in order.
THEOREM Refinement == Quiesced => (Spec => ImplementsUsers)
<1> SUFFICES ASSUME Quiesced
             PROVE  Spec => ImplementsUsers
  OBVIOUS
<1>1. Init => Users!Init
  <2> SUFFICES ASSUME Init
               PROVE  Users!Init
    OBVIOUS
  <2>1. CountsAgree
    BY InitOk DEF IInv
  <2>2. /\ queue["valid"] = <<>> /\ decHas = {} /\ renHas = {}
    BY DEF Init, Queues
  <2>3. \A f \in Frames : UsersNow[f] \in {{}, {"allocator"}}
    BY <2>1, <2>2, UsersAre
  <2>4. UsersNow \in [Frames -> {{}, {"allocator"}}] /\ ShownNow = {}
    BY <2>2, <2>3 DEF UsersNow, ShownNow
  <2> QED
    BY <2>2, <2>4 DEF Users!Init, UsersNow, ShownNow
<1>2. IInv /\ IInv' /\ [Next]_vars => [Users!Next]_(Users!vars)
  <2> SUFFICES ASSUME IInv, IInv', [Next]_vars
               PROVE  Users!Next \/ UNCHANGED Users!vars
    OBVIOUS
  <2>1. CASE UNCHANGED vars
    <3>1. UsersNow' = UsersNow /\ ShownNow' = ShownNow /\ queue' = queue
      BY <2>1, SameUsers DEF vars, decoder, queues, flags, ShownNow
    <3> QED
      BY <3>1, StutterIs
  <2> QED
    BY <2>1, DecoderRefines, RendererRefines, AllocatorRefines DEF Next
<1>3. Spec => []IInv
  BY IInvHolds
<1> QED
  BY <1>1, <1>2, <1>3, PTL DEF Spec, ImplementsUsers, Users!Spec
=============================================================================
