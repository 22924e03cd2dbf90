--------------------------- MODULE OmxThreadProofs ---------------------------
(***************************************************************************)
(* Proofs about OmxThread, for any set of callers: the invariant that ties  *)
(* the flags, the semaphores and the two program counters together, and     *)
(* from it that no post is swallowed and that the class is a pausable       *)
(* thread.  Then proofs about OmxVdec, for any stream, number of pictures,   *)
(* headers and commands: its three workers are such threads, its engine is  *)
(* reset while they are parked, and a change of resolution is clean.        *)
(***************************************************************************)
EXTENDS OmxThread, OmxVdec, SequenceTheorems, TLAPS

Holding == {"suspending", "resuming", "creating", "waking", "exiting"}

\* The mutex is held by the one caller that is inside a critical section, and
\* only the owner runs the thread and makes it leave.
LockInv ==
  /\ \A c \in Callers : call[c] \in Holding <=> lock = c
  /\ \A c \in Callers : c # Owner => call[c] \in {"idle", "suspending", "resuming"}

\* bRunning agrees with the worker once the caller that creates it is done.
RunInv ==
  /\ bRunning <=> at \notin {"none", "leaving", "left"} /\ call[Owner] # "creating"
  /\ bSuspendRequest => bRunning
  /\ call[Owner] = "creating" => at \in {"check", "ready", "test", "loop"} /\ ~bExitPending
  /\ call[Owner] = "entering" => bRunning
  /\ (bExitPending /\ at \notin {"none", "left"}) => call[Owner] \in {"waking", "exiting"}
  /\ at \in {"ending", "leaving", "left"} => bExitPending
  /\ at = "left" => call[Owner] \in {"exiting", "joining"}
  /\ call[Owner] = "joining" => at = "left" /\ semExit = 0
  /\ call[Owner] = "exiting" => at # "none" /\ ~bSuspendRequest /\ bExitPending
  /\ at = "left" /\ call[Owner] = "exiting" => semExit = 1
  /\ semExit = 1 => at = "left"

\* What the two semaphores of a suspend and a resume say of the worker.
ParkInv ==
  /\ \A c \in Callers : call[c] = "suspending" => bSuspendRequest
  /\ \A c \in Callers : call[c] = "resuming" =>
       /\ at = "parked" /\ ~bSuspendRequest
       /\ semSuspend = 0 /\ semStopRun = 0
  /\ at = "stopping" => Suspending /\ semStopRun = 0 /\ semSuspend = 0
  /\ semStopRun = 1 => at = "parked" /\ Suspending /\ semSuspend = 0
  /\ semSuspend = 1 => at = "parked" /\ semStopRun = 0
  /\ bSuspendRequest /\ ~Suspending =>
       at = "parked" /\ semSuspend = 0 /\ semStopRun = 0
  /\ call[Owner] = "waking" => bSuspendRequest /\ bExitPending

SemInv == semStopRun \in {0, 1} /\ semSuspend \in {0, 1} /\ semExit \in {0, 1}

IInv == TypeOK /\ SemInv /\ LockInv /\ RunInv /\ ParkInv
-----------------------------------------------------------------------------
\* Whether somebody is inside suspend depends on the mutex alone.
LEMMA SuspendingIsHolding ==
  ASSUME LockInv
  PROVE  /\ lock = NoCaller => ~Suspending
         /\ lock \in Callers => (Suspending <=> call[lock] = "suspending")
BY OwnerAssumption DEF LockInv, Suspending, Holding

LEMMA InitIInv == Init => IInv
<1> SUFFICES ASSUME Init PROVE IInv
  OBVIOUS
<1> USE OwnerAssumption DEF Init, Holding, CallPoints, WorkerPoints
<1>1. \A c \in Callers : call[c] = "idle"
  OBVIOUS
<1>2. TypeOK /\ SemInv
  BY DEF TypeOK, SemInv
<1>3. LockInv
  BY <1>1 DEF LockInv
<1>4. RunInv /\ ParkInv
  BY <1>1 DEF RunInv, ParkInv, Suspending
<1> QED
  BY <1>2, <1>3, <1>4 DEF IInv

\* The caller that a step moves, and nobody else, changes its place.
LEMMA GotoMoves ==
  ASSUME NEW c \in Callers, NEW point \in CallPoints, TypeOK, Goto(c, point)
  PROVE  /\ call' \in [Callers -> CallPoints]
         /\ call'[c] = point
         /\ \A d \in Callers : d # c => call'[d] = call[d]
BY DEF TypeOK, Goto

LEMMA CallerStepIInv ==
  ASSUME IInv, NEW c \in Callers, CallerStep(c)
  PROVE  IInv'
<1> USE OwnerAssumption DEF Holding, CallPoints, WorkerPoints
<1>1. CASE Suspend(c)
  <2>1. /\ call' \in [Callers -> CallPoints] /\ call'[c] = "suspending"
        /\ \A d \in Callers : d # c => call'[d] = call[d]
    BY <1>1, GotoMoves DEF IInv, Suspend
  <2>2. TypeOK' /\ SemInv'
    BY <1>1, <2>1 DEF IInv, TypeOK, SemInv, RunInv, Suspend, flags, sems, Free, TryPost
  <2>3. LockInv'
    BY <1>1, <2>1 DEF IInv, TypeOK, LockInv, Suspend, Free
  <2>4. /\ lock' = NoCaller => ~Suspending'
        /\ lock' \in Callers => (Suspending' <=> call'[lock'] = "suspending")
    BY <2>3 DEF LockInv, Suspending
  <2>5. RunInv'
    BY <1>1, <2>1, SuspendingIsHolding DEF IInv, TypeOK, SemInv, LockInv, RunInv, ParkInv, Suspend, flags, sems, Free, TryPost
  <2>6. ParkInv'
    BY <1>1, <2>1, <2>4, SuspendingIsHolding DEF IInv, TypeOK, SemInv, LockInv, RunInv, ParkInv, Suspend, flags, sems, Free, TryPost
  <2> QED
    BY <2>2, <2>3, <2>5, <2>6 DEF IInv
<1>2. CASE SuspendReturns(c)
  <2>1. /\ call' \in [Callers -> CallPoints] /\ call'[c] = "idle"
        /\ \A d \in Callers : d # c => call'[d] = call[d]
    BY <1>2, GotoMoves DEF IInv, SuspendReturns
  <2>2. TypeOK' /\ SemInv'
    BY <1>2, <2>1 DEF IInv, TypeOK, SemInv, RunInv, SuspendReturns, flags, sems, Free, TryPost
  <2>3. LockInv'
    BY <1>2, <2>1 DEF IInv, TypeOK, LockInv, SuspendReturns, Free
  <2>4. /\ lock' = NoCaller => ~Suspending'
        /\ lock' \in Callers => (Suspending' <=> call'[lock'] = "suspending")
    BY <2>3 DEF LockInv, Suspending
  <2>5. RunInv'
    BY <1>2, <2>1, SuspendingIsHolding DEF IInv, TypeOK, SemInv, LockInv, RunInv, ParkInv, SuspendReturns, flags, sems, Free, TryPost
  <2>6. ParkInv'
    BY <1>2, <2>1, <2>4, SuspendingIsHolding DEF IInv, TypeOK, SemInv, LockInv, RunInv, ParkInv, SuspendReturns, flags, sems, Free, TryPost
  <2> QED
    BY <2>2, <2>3, <2>5, <2>6 DEF IInv
<1>3. CASE Resume(c)
  <2>1. /\ call' \in [Callers -> CallPoints] /\ call'[c] = "resuming"
        /\ \A d \in Callers : d # c => call'[d] = call[d]
    BY <1>3, GotoMoves DEF IInv, Resume
  <2>2. TypeOK' /\ SemInv'
    BY <1>3, <2>1 DEF IInv, TypeOK, SemInv, RunInv, Resume, flags, sems, Free, TryPost
  <2>3. LockInv'
    BY <1>3, <2>1 DEF IInv, TypeOK, LockInv, Resume, Free
  <2>4. /\ lock' = NoCaller => ~Suspending'
        /\ lock' \in Callers => (Suspending' <=> call'[lock'] = "suspending")
    BY <2>3 DEF LockInv, Suspending
  <2>5. RunInv'
    BY <1>3, <2>1, SuspendingIsHolding DEF IInv, TypeOK, SemInv, LockInv, RunInv, ParkInv, Resume, flags, sems, Free, TryPost
  <2>6. ParkInv'
    BY <1>3, <2>1, <2>4, SuspendingIsHolding DEF IInv, TypeOK, SemInv, LockInv, RunInv, ParkInv, Resume, flags, sems, Free, TryPost
  <2> QED
    BY <2>2, <2>3, <2>5, <2>6 DEF IInv
<1>4. CASE PostSuspend(c)
  <2>1. /\ call' \in [Callers -> CallPoints] /\ call'[c] = "idle"
        /\ \A d \in Callers : d # c => call'[d] = call[d]
    BY <1>4, GotoMoves DEF IInv, PostSuspend
  <2>2. TypeOK' /\ SemInv'
    BY <1>4, <2>1 DEF IInv, TypeOK, SemInv, RunInv, PostSuspend, flags, sems, Free, TryPost
  <2>3. LockInv'
    BY <1>4, <2>1 DEF IInv, TypeOK, LockInv, PostSuspend, Free
  <2>4. /\ lock' = NoCaller => ~Suspending'
        /\ lock' \in Callers => (Suspending' <=> call'[lock'] = "suspending")
    BY <2>3 DEF LockInv, Suspending
  <2>5. RunInv'
    BY <1>4, <2>1, SuspendingIsHolding DEF IInv, TypeOK, SemInv, LockInv, RunInv, ParkInv, PostSuspend, flags, sems, Free, TryPost
  <2>6. ParkInv'
    BY <1>4, <2>1, <2>4, SuspendingIsHolding DEF IInv, TypeOK, SemInv, LockInv, RunInv, ParkInv, PostSuspend, flags, sems, Free, TryPost
  <2> QED
    BY <2>2, <2>3, <2>5, <2>6 DEF IInv
<1> QED
  BY <1>1, <1>2, <1>3, <1>4 DEF CallerStep

LEMMA OwnerStepIInv ==
  ASSUME IInv, OwnerStep
  PROVE  IInv'
<1> USE OwnerAssumption DEF Holding, CallPoints, WorkerPoints
<1>1. CASE RunAgain
  <2>1. /\ call' \in [Callers -> CallPoints] /\ call'[Owner] = "resuming"
        /\ \A d \in Callers : d # Owner => call'[d] = call[d]
    BY <1>1, GotoMoves DEF IInv, RunAgain
  <2>2. TypeOK' /\ SemInv'
    BY <1>1, <2>1 DEF IInv, TypeOK, SemInv, RunInv, RunAgain, flags, sems, Free, TryPost
  <2>3. LockInv'
    BY <1>1, <2>1 DEF IInv, TypeOK, LockInv, RunAgain, Free
  <2>4. /\ lock' = NoCaller => ~Suspending'
        /\ lock' \in Callers => (Suspending' <=> call'[lock'] = "suspending")
    BY <2>3 DEF LockInv, Suspending
  <2>5. RunInv'
    BY <1>1, <2>1, SuspendingIsHolding DEF IInv, TypeOK, SemInv, LockInv, RunInv, ParkInv, RunAgain, flags, sems, Free, TryPost
  <2>6. ParkInv'
    BY <1>1, <2>1, <2>4, SuspendingIsHolding DEF IInv, TypeOK, SemInv, LockInv, RunInv, ParkInv, RunAgain, flags, sems, Free, TryPost
  <2> QED
    BY <2>2, <2>3, <2>5, <2>6 DEF IInv
<1>2. CASE Run
  <2>1. /\ call' \in [Callers -> CallPoints] /\ call'[Owner] = "creating"
        /\ \A d \in Callers : d # Owner => call'[d] = call[d]
    BY <1>2, GotoMoves DEF IInv, Run
  <2>2. TypeOK' /\ SemInv'
    BY <1>2, <2>1 DEF IInv, TypeOK, SemInv, RunInv, Run, flags, sems, Free, TryPost
  <2>3. LockInv'
    BY <1>2, <2>1 DEF IInv, TypeOK, LockInv, Run, Free
  <2>4. /\ lock' = NoCaller => ~Suspending'
        /\ lock' \in Callers => (Suspending' <=> call'[lock'] = "suspending")
    BY <2>3 DEF LockInv, Suspending
  <2>5. RunInv'
    BY <1>2, <2>1, SuspendingIsHolding DEF IInv, TypeOK, SemInv, LockInv, RunInv, ParkInv, Run, flags, sems, Free, TryPost
  <2>6. ParkInv'
    BY <1>2, <2>1, <2>4, SuspendingIsHolding DEF IInv, TypeOK, SemInv, LockInv, RunInv, ParkInv, Run, flags, sems, Free, TryPost
  <2> QED
    BY <2>2, <2>3, <2>5, <2>6 DEF IInv
<1>3. CASE Created
  <2>1. /\ call' \in [Callers -> CallPoints] /\ call'[Owner] = "idle"
        /\ \A d \in Callers : d # Owner => call'[d] = call[d]
    BY <1>3, GotoMoves DEF IInv, Created
  <2>2. TypeOK' /\ SemInv'
    BY <1>3, <2>1 DEF IInv, TypeOK, SemInv, RunInv, Created, flags, sems, Free, TryPost
  <2>3. LockInv'
    BY <1>3, <2>1 DEF IInv, TypeOK, LockInv, Created, Free
  <2>4. /\ lock' = NoCaller => ~Suspending'
        /\ lock' \in Callers => (Suspending' <=> call'[lock'] = "suspending")
    BY <2>3 DEF LockInv, Suspending
  <2>5. RunInv'
    BY <1>3, <2>1, SuspendingIsHolding DEF IInv, TypeOK, SemInv, LockInv, RunInv, ParkInv, Created, flags, sems, Free, TryPost
  <2>6. ParkInv'
    BY <1>3, <2>1, <2>4, SuspendingIsHolding DEF IInv, TypeOK, SemInv, LockInv, RunInv, ParkInv, Created, flags, sems, Free, TryPost
  <2> QED
    BY <2>2, <2>3, <2>5, <2>6 DEF IInv
<1>4. CASE BeginExit
  <2>1. /\ call' \in [Callers -> CallPoints] /\ call'[Owner] = "entering"
        /\ \A d \in Callers : d # Owner => call'[d] = call[d]
    BY <1>4, GotoMoves DEF IInv, BeginExit
  <2>2. TypeOK' /\ SemInv'
    BY <1>4, <2>1 DEF IInv, TypeOK, SemInv, RunInv, BeginExit, flags, sems, Free, TryPost
  <2>3. LockInv'
    BY <1>4, <2>1 DEF IInv, TypeOK, LockInv, BeginExit, Free
  <2>4. /\ lock' = NoCaller => ~Suspending'
        /\ lock' \in Callers => (Suspending' <=> call'[lock'] = "suspending")
    BY <2>3 DEF LockInv, Suspending
  <2>5. RunInv'
    BY <1>4, <2>1, SuspendingIsHolding DEF IInv, TypeOK, SemInv, LockInv, RunInv, ParkInv, BeginExit, flags, sems, Free, TryPost
  <2>6. ParkInv'
    BY <1>4, <2>1, <2>4, SuspendingIsHolding DEF IInv, TypeOK, SemInv, LockInv, RunInv, ParkInv, BeginExit, flags, sems, Free, TryPost
  <2> QED
    BY <2>2, <2>3, <2>5, <2>6 DEF IInv
<1>5. CASE RequestExit
  <2>1. /\ call' \in [Callers -> CallPoints] /\ call'[Owner] = IF bSuspendRequest THEN "waking" ELSE "exiting"
        /\ \A d \in Callers : d # Owner => call'[d] = call[d]
    BY <1>5, GotoMoves DEF IInv, RequestExit
  <2>2. TypeOK' /\ SemInv'
    BY <1>5, <2>1 DEF IInv, TypeOK, SemInv, RunInv, RequestExit, flags, sems, Free, TryPost
  <2>3. LockInv'
    BY <1>5, <2>1 DEF IInv, TypeOK, LockInv, RequestExit, Free
  <2>4. /\ lock' = NoCaller => ~Suspending'
        /\ lock' \in Callers => (Suspending' <=> call'[lock'] = "suspending")
    BY <2>3 DEF LockInv, Suspending
  <2>5. RunInv'
    BY <1>5, <2>1, SuspendingIsHolding DEF IInv, TypeOK, SemInv, LockInv, RunInv, ParkInv, RequestExit, flags, sems, Free, TryPost
  <2>6. ParkInv'
    BY <1>5, <2>1, <2>4, SuspendingIsHolding DEF IInv, TypeOK, SemInv, LockInv, RunInv, ParkInv, RequestExit, flags, sems, Free, TryPost
  <2> QED
    BY <2>2, <2>3, <2>5, <2>6 DEF IInv
<1>6. CASE WakeToExit
  <2>1. /\ call' \in [Callers -> CallPoints] /\ call'[Owner] = "exiting"
        /\ \A d \in Callers : d # Owner => call'[d] = call[d]
    BY <1>6, GotoMoves DEF IInv, WakeToExit
  <2>2. TypeOK' /\ SemInv'
    BY <1>6, <2>1 DEF IInv, TypeOK, SemInv, RunInv, WakeToExit, flags, sems, Free, TryPost
  <2>3. LockInv'
    BY <1>6, <2>1 DEF IInv, TypeOK, LockInv, WakeToExit, Free
  <2>4. /\ lock' = NoCaller => ~Suspending'
        /\ lock' \in Callers => (Suspending' <=> call'[lock'] = "suspending")
    BY <2>3 DEF LockInv, Suspending
  <2>5. RunInv'
    BY <1>6, <2>1, SuspendingIsHolding DEF IInv, TypeOK, SemInv, LockInv, RunInv, ParkInv, WakeToExit, flags, sems, Free, TryPost
  <2>6. ParkInv'
    BY <1>6, <2>1, <2>4, SuspendingIsHolding DEF IInv, TypeOK, SemInv, LockInv, RunInv, ParkInv, WakeToExit, flags, sems, Free, TryPost
  <2> QED
    BY <2>2, <2>3, <2>5, <2>6 DEF IInv
<1>7. CASE ExitSeen
  <2>1. /\ call' \in [Callers -> CallPoints] /\ call'[Owner] = "joining"
        /\ \A d \in Callers : d # Owner => call'[d] = call[d]
    BY <1>7, GotoMoves DEF IInv, ExitSeen
  <2>2. TypeOK' /\ SemInv'
    BY <1>7, <2>1 DEF IInv, TypeOK, SemInv, RunInv, ExitSeen, flags, sems, Free, TryPost
  <2>3. LockInv'
    BY <1>7, <2>1 DEF IInv, TypeOK, LockInv, ExitSeen, Free
  <2>4. /\ lock' = NoCaller => ~Suspending'
        /\ lock' \in Callers => (Suspending' <=> call'[lock'] = "suspending")
    BY <2>3 DEF LockInv, Suspending
  <2>5. RunInv'
    BY <1>7, <2>1, SuspendingIsHolding DEF IInv, TypeOK, SemInv, LockInv, RunInv, ParkInv, ExitSeen, flags, sems, Free, TryPost
  <2>6. ParkInv'
    BY <1>7, <2>1, <2>4, SuspendingIsHolding DEF IInv, TypeOK, SemInv, LockInv, RunInv, ParkInv, ExitSeen, flags, sems, Free, TryPost
  <2> QED
    BY <2>2, <2>3, <2>5, <2>6 DEF IInv
<1>8. CASE Join
  <2>1. /\ call' \in [Callers -> CallPoints] /\ call'[Owner] = "idle"
        /\ \A d \in Callers : d # Owner => call'[d] = call[d]
    BY <1>8, GotoMoves DEF IInv, Join
  <2>2. TypeOK' /\ SemInv'
    BY <1>8, <2>1 DEF IInv, TypeOK, SemInv, RunInv, Join, flags, sems, Free, TryPost
  <2>3. LockInv'
    BY <1>8, <2>1 DEF IInv, TypeOK, LockInv, Join, Free
  <2>4. /\ lock' = NoCaller => ~Suspending'
        /\ lock' \in Callers => (Suspending' <=> call'[lock'] = "suspending")
    BY <2>3 DEF LockInv, Suspending
  <2>5. RunInv'
    BY <1>8, <2>1, SuspendingIsHolding DEF IInv, TypeOK, SemInv, LockInv, RunInv, ParkInv, Join, flags, sems, Free, TryPost
  <2>6. ParkInv'
    BY <1>8, <2>1, <2>4, SuspendingIsHolding DEF IInv, TypeOK, SemInv, LockInv, RunInv, ParkInv, Join, flags, sems, Free, TryPost
  <2> QED
    BY <2>2, <2>3, <2>5, <2>6 DEF IInv
<1> QED
  BY <1>1, <1>2, <1>3, <1>4, <1>5, <1>6, <1>7, <1>8 DEF OwnerStep

LEMMA WorkerStepIInv ==
  ASSUME IInv, WorkerStep
  PROVE  IInv'
<1> USE OwnerAssumption DEF Holding, CallPoints, WorkerPoints
<1>1. CASE CheckSuspend
  <2>2. TypeOK' /\ SemInv'
    BY <1>1 DEF IInv, TypeOK, SemInv, RunInv, CheckSuspend, flags, sems, Free, TryPost
  <2>3. LockInv'
    BY <1>1 DEF IInv, TypeOK, LockInv, CheckSuspend, Free
  <2>4. /\ lock' = NoCaller => ~Suspending'
        /\ lock' \in Callers => (Suspending' <=> call'[lock'] = "suspending")
    BY <2>3 DEF LockInv, Suspending
  <2>5. RunInv'
    BY <1>1, SuspendingIsHolding DEF IInv, TypeOK, SemInv, LockInv, RunInv, ParkInv, CheckSuspend, flags, sems, Free, TryPost
  <2>6. ParkInv'
    BY <1>1, <2>4, SuspendingIsHolding DEF IInv, TypeOK, SemInv, LockInv, RunInv, ParkInv, CheckSuspend, flags, sems, Free, TryPost
  <2> QED
    BY <2>2, <2>3, <2>5, <2>6 DEF IInv
<1>2. CASE PostStopRun
  <2>2. TypeOK' /\ SemInv'
    BY <1>2 DEF IInv, TypeOK, SemInv, RunInv, PostStopRun, flags, sems, Free, TryPost
  <2>3. LockInv'
    BY <1>2 DEF IInv, TypeOK, LockInv, PostStopRun, Free
  <2>4. /\ lock' = NoCaller => ~Suspending'
        /\ lock' \in Callers => (Suspending' <=> call'[lock'] = "suspending")
    BY <2>3 DEF LockInv, Suspending
  <2>5. RunInv'
    BY <1>2, SuspendingIsHolding DEF IInv, TypeOK, SemInv, LockInv, RunInv, ParkInv, PostStopRun, flags, sems, Free, TryPost
  <2>6. ParkInv'
    BY <1>2, <2>4, SuspendingIsHolding DEF IInv, TypeOK, SemInv, LockInv, RunInv, ParkInv, PostStopRun, flags, sems, Free, TryPost
  <2> QED
    BY <2>2, <2>3, <2>5, <2>6 DEF IInv
<1>3. CASE WakeUp
  <2>2. TypeOK' /\ SemInv'
    BY <1>3 DEF IInv, TypeOK, SemInv, RunInv, WakeUp, flags, sems, Free, TryPost
  <2>3. LockInv'
    BY <1>3 DEF IInv, TypeOK, LockInv, WakeUp, Free
  <2>4. /\ lock' = NoCaller => ~Suspending'
        /\ lock' \in Callers => (Suspending' <=> call'[lock'] = "suspending")
    BY <2>3 DEF LockInv, Suspending
  <2>5. RunInv'
    BY <1>3, SuspendingIsHolding DEF IInv, TypeOK, SemInv, LockInv, RunInv, ParkInv, WakeUp, flags, sems, Free, TryPost
  <2>6. ParkInv'
    BY <1>3, <2>4, SuspendingIsHolding DEF IInv, TypeOK, SemInv, LockInv, RunInv, ParkInv, WakeUp, flags, sems, Free, TryPost
  <2> QED
    BY <2>2, <2>3, <2>5, <2>6 DEF IInv
<1>4. CASE GetReady
  <2>2. TypeOK' /\ SemInv'
    BY <1>4 DEF IInv, TypeOK, SemInv, RunInv, GetReady, flags, sems, Free, TryPost
  <2>3. LockInv'
    BY <1>4 DEF IInv, TypeOK, LockInv, GetReady, Free
  <2>4. /\ lock' = NoCaller => ~Suspending'
        /\ lock' \in Callers => (Suspending' <=> call'[lock'] = "suspending")
    BY <2>3 DEF LockInv, Suspending
  <2>5. RunInv'
    BY <1>4, SuspendingIsHolding DEF IInv, TypeOK, SemInv, LockInv, RunInv, ParkInv, GetReady, flags, sems, Free, TryPost
  <2>6. ParkInv'
    BY <1>4, <2>4, SuspendingIsHolding DEF IInv, TypeOK, SemInv, LockInv, RunInv, ParkInv, GetReady, flags, sems, Free, TryPost
  <2> QED
    BY <2>2, <2>3, <2>5, <2>6 DEF IInv
<1>5. CASE CallLoop
  <2>2. TypeOK' /\ SemInv'
    BY <1>5 DEF IInv, TypeOK, SemInv, RunInv, CallLoop, flags, sems, Free, TryPost
  <2>3. LockInv'
    BY <1>5 DEF IInv, TypeOK, LockInv, CallLoop, Free
  <2>4. /\ lock' = NoCaller => ~Suspending'
        /\ lock' \in Callers => (Suspending' <=> call'[lock'] = "suspending")
    BY <2>3 DEF LockInv, Suspending
  <2>5. RunInv'
    BY <1>5, SuspendingIsHolding DEF IInv, TypeOK, SemInv, LockInv, RunInv, ParkInv, CallLoop, flags, sems, Free, TryPost
  <2>6. ParkInv'
    BY <1>5, <2>4, SuspendingIsHolding DEF IInv, TypeOK, SemInv, LockInv, RunInv, ParkInv, CallLoop, flags, sems, Free, TryPost
  <2> QED
    BY <2>2, <2>3, <2>5, <2>6 DEF IInv
<1>6. CASE LoopReturns
  <2>2. TypeOK' /\ SemInv'
    BY <1>6 DEF IInv, TypeOK, SemInv, RunInv, LoopReturns, flags, sems, Free, TryPost
  <2>3. LockInv'
    BY <1>6 DEF IInv, TypeOK, LockInv, LoopReturns, Free
  <2>4. /\ lock' = NoCaller => ~Suspending'
        /\ lock' \in Callers => (Suspending' <=> call'[lock'] = "suspending")
    BY <2>3 DEF LockInv, Suspending
  <2>5. RunInv'
    BY <1>6, SuspendingIsHolding DEF IInv, TypeOK, SemInv, LockInv, RunInv, ParkInv, LoopReturns, flags, sems, Free, TryPost
  <2>6. ParkInv'
    BY <1>6, <2>4, SuspendingIsHolding DEF IInv, TypeOK, SemInv, LockInv, RunInv, ParkInv, LoopReturns, flags, sems, Free, TryPost
  <2> QED
    BY <2>2, <2>3, <2>5, <2>6 DEF IInv
<1>7. CASE TestExit
  <2>2. TypeOK' /\ SemInv'
    BY <1>7 DEF IInv, TypeOK, SemInv, RunInv, TestExit, flags, sems, Free, TryPost
  <2>3. LockInv'
    BY <1>7 DEF IInv, TypeOK, LockInv, TestExit, Free
  <2>4. /\ lock' = NoCaller => ~Suspending'
        /\ lock' \in Callers => (Suspending' <=> call'[lock'] = "suspending")
    BY <2>3 DEF LockInv, Suspending
  <2>5. RunInv'
    BY <1>7, SuspendingIsHolding DEF IInv, TypeOK, SemInv, LockInv, RunInv, ParkInv, TestExit, flags, sems, Free, TryPost
  <2>6. ParkInv'
    BY <1>7, <2>4, SuspendingIsHolding DEF IInv, TypeOK, SemInv, LockInv, RunInv, ParkInv, TestExit, flags, sems, Free, TryPost
  <2> QED
    BY <2>2, <2>3, <2>5, <2>6 DEF IInv
<1>8. CASE ClearRunning
  <2>2. TypeOK' /\ SemInv'
    BY <1>8 DEF IInv, TypeOK, SemInv, RunInv, ClearRunning, flags, sems, Free, TryPost
  <2>3. LockInv'
    BY <1>8 DEF IInv, TypeOK, LockInv, ClearRunning, Free
  <2>4. /\ lock' = NoCaller => ~Suspending'
        /\ lock' \in Callers => (Suspending' <=> call'[lock'] = "suspending")
    BY <2>3 DEF LockInv, Suspending
  <2>5. RunInv'
    BY <1>8, SuspendingIsHolding DEF IInv, TypeOK, SemInv, LockInv, RunInv, ParkInv, ClearRunning, flags, sems, Free, TryPost
  <2>6. ParkInv'
    BY <1>8, <2>4, SuspendingIsHolding DEF IInv, TypeOK, SemInv, LockInv, RunInv, ParkInv, ClearRunning, flags, sems, Free, TryPost
  <2> QED
    BY <2>2, <2>3, <2>5, <2>6 DEF IInv
<1>9. CASE PostExit
  <2>2. TypeOK' /\ SemInv'
    BY <1>9 DEF IInv, TypeOK, SemInv, RunInv, PostExit, flags, sems, Free, TryPost
  <2>3. LockInv'
    BY <1>9 DEF IInv, TypeOK, LockInv, PostExit, Free
  <2>4. /\ lock' = NoCaller => ~Suspending'
        /\ lock' \in Callers => (Suspending' <=> call'[lock'] = "suspending")
    BY <2>3 DEF LockInv, Suspending
  <2>5. RunInv'
    BY <1>9, SuspendingIsHolding DEF IInv, TypeOK, SemInv, LockInv, RunInv, ParkInv, PostExit, flags, sems, Free, TryPost
  <2>6. ParkInv'
    BY <1>9, <2>4, SuspendingIsHolding DEF IInv, TypeOK, SemInv, LockInv, RunInv, ParkInv, PostExit, flags, sems, Free, TryPost
  <2> QED
    BY <2>2, <2>3, <2>5, <2>6 DEF IInv
<1> QED
  BY <1>1, <1>2, <1>3, <1>4, <1>5, <1>6, <1>7, <1>8, <1>9 DEF WorkerStep

LEMMA StutterIInv == IInv /\ UNCHANGED vars => IInv'
BY DEF IInv, TypeOK, SemInv, LockInv, RunInv, ParkInv, Suspending, vars, flags, sems

\* The invariant holds in every reachable state.
THEOREM IInvHolds == Spec => []IInv
<1>1. IInv /\ [Next]_vars => IInv'
  BY CallerStepIInv, OwnerStepIInv, WorkerStepIInv, StutterIInv DEF Next
<1> QED
  BY <1>1, InitIInv, PTL DEF Spec

\* Every flag, semaphore and place has its type: in particular each semaphore
\* that OmxTryPostSem posts stays at 0 or 1 by OmxThread's own protocol.
THEOREM TypeCorrect == Spec => []TypeOK
BY IInvHolds, PTL DEF IInv

\* No stop, resume or exit is lost because an earlier post is still pending.
THEOREM PostsGoOut == Spec => []NoPostIsSwallowed
<1>1. IInv => NoPostIsSwallowed
  BY SuspendingIsHolding, OwnerAssumption
  DEF IInv, TypeOK, SemInv, LockInv, RunInv, ParkInv, NoPostIsSwallowed, Holding, CallPoints
<1> QED
  BY <1>1, IInvHolds, PTL

-----------------------------------------------------------------------------
(* The class implements the pausable thread. *)

\* Status, read off the flags, the mutex and the worker's place.
LEMMA StatusIs ==
  ASSUME IInv
  PROVE  /\ at \in {"none", "ending", "leaving", "left"} =>
              Status = "off" /\ ~bSuspendRequest /\ ~Suspending
         /\ at \notin {"none", "ending", "leaving", "left"} =>
              /\ Suspending => Status = "pausing" /\ bSuspendRequest
              /\ ~Suspending /\ bSuspendRequest => Status = "parked" /\ at = "parked"
              /\ ~bSuspendRequest => Status = "running" /\ ~Suspending
<1>1. Suspending => bSuspendRequest
  BY DEF IInv, ParkInv, Suspending
<1>2. at \in {"none", "ending", "leaving", "left"} => ~bSuspendRequest
  BY OwnerAssumption, SuspendingIsHolding DEF IInv, TypeOK, LockInv, RunInv, ParkInv, Holding
<1>3. bSuspendRequest /\ ~Suspending => at = "parked"
  BY DEF IInv, ParkInv
<1> QED
  BY <1>1, <1>2, <1>3 DEF Status, IInv, TypeOK

LEMMA StatusIsNext ==
  ASSUME IInv'
  PROVE  /\ at' \in {"none", "ending", "leaving", "left"} =>
              Status' = "off" /\ ~bSuspendRequest' /\ ~Suspending'
         /\ at' \notin {"none", "ending", "leaving", "left"} =>
              /\ Suspending' => Status' = "pausing" /\ bSuspendRequest'
              /\ ~Suspending' /\ bSuspendRequest' => Status' = "parked" /\ at' = "parked"
              /\ ~bSuspendRequest' => Status' = "running" /\ ~Suspending'
<1>1. Suspending' => bSuspendRequest'
  BY DEF IInv, ParkInv, Suspending
<1>2. at' \in {"none", "ending", "leaving", "left"} => ~bSuspendRequest'
  <2>1. lock' \in Callers => (Suspending' <=> call'[lock'] = "suspending")
    BY DEF IInv, LockInv, Suspending, Holding
  <2> QED
    BY <2>1, OwnerAssumption DEF IInv, TypeOK, LockInv, RunInv, ParkInv, Holding
<1>3. bSuspendRequest' /\ ~Suspending' => at' = "parked"
  BY DEF IInv, ParkInv
<1> QED
  BY <1>1, <1>2, <1>3 DEF Status, IInv, TypeOK

LEMMA CallerStepRefines ==
  ASSUME IInv, IInv', NEW c \in Callers, CallerStep(c)
  PROVE  [Pausable!Next]_Pausable!vars
<1> USE OwnerAssumption DEF Holding, CallPoints
<1>1. CASE Suspend(c)
  <2>1. /\ call' \in [Callers -> CallPoints] /\ call'[c] = "suspending"
        /\ \A d \in Callers : d # c => call'[d] = call[d]
    BY <1>1, GotoMoves DEF IInv, Suspend
  <2>2. Suspending' <=> TRUE
    BY <1>1, <2>1, SuspendingIsHolding DEF IInv, LockInv, RunInv, Suspending, Suspend, Free
  <2>3. Pausable!AskToPark
    BY <1>1, <2>2, StatusIs, StatusIsNext, SuspendingIsHolding
    DEF IInv, TypeOK, LockInv, RunInv, ParkInv, Suspend, flags, sems, Free, Pausable!AskToPark, Pausable!vars
  <2> QED
    BY <2>3 DEF Pausable!Next
<1>2. CASE SuspendReturns(c)
  <2>1. /\ call' \in [Callers -> CallPoints] /\ call'[c] = "idle"
        /\ \A d \in Callers : d # c => call'[d] = call[d]
    BY <1>2, GotoMoves DEF IInv, SuspendReturns
  <2>2. Suspending' <=> FALSE
    BY <1>2, <2>1, SuspendingIsHolding DEF IInv, LockInv, RunInv, Suspending, SuspendReturns, Free
  <2>3. Pausable!Park
    BY <1>2, <2>2, StatusIs, StatusIsNext, SuspendingIsHolding
    DEF IInv, TypeOK, LockInv, RunInv, ParkInv, SuspendReturns, flags, sems, Free, Pausable!Park, Pausable!vars
  <2> QED
    BY <2>3 DEF Pausable!Next
<1>3. CASE Resume(c)
  <2>1. /\ call' \in [Callers -> CallPoints] /\ call'[c] = "resuming"
        /\ \A d \in Callers : d # c => call'[d] = call[d]
    BY <1>3, GotoMoves DEF IInv, Resume
  <2>2. Suspending' <=> Suspending
    BY <1>3, <2>1, SuspendingIsHolding DEF IInv, LockInv, RunInv, Suspending, Resume, Free
  <2>3. Pausable!Unpark
    BY <1>3, <2>2, StatusIs, StatusIsNext, SuspendingIsHolding
    DEF IInv, TypeOK, LockInv, RunInv, ParkInv, Resume, flags, sems, Free, Pausable!Unpark, Pausable!vars
  <2> QED
    BY <2>3 DEF Pausable!Next
<1>4. CASE PostSuspend(c)
  <2>1. /\ call' \in [Callers -> CallPoints] /\ call'[c] = "idle"
        /\ \A d \in Callers : d # c => call'[d] = call[d]
    BY <1>4, GotoMoves DEF IInv, PostSuspend
  <2>2. Suspending' <=> Suspending
    BY <1>4, <2>1, SuspendingIsHolding DEF IInv, LockInv, RunInv, Suspending, PostSuspend, Free
  <2>3. UNCHANGED Pausable!vars
    BY <1>4, <2>2, StatusIs, StatusIsNext, SuspendingIsHolding
    DEF IInv, TypeOK, LockInv, RunInv, ParkInv, PostSuspend, flags, sems, Free, Pausable!vars
  <2> QED
    BY <2>3 DEF Pausable!Next
<1> QED
  BY <1>1, <1>2, <1>3, <1>4 DEF CallerStep

LEMMA OwnerStepRefines ==
  ASSUME IInv, IInv', OwnerStep
  PROVE  [Pausable!Next]_Pausable!vars
<1> USE OwnerAssumption DEF Holding, CallPoints
<1>1. CASE RunAgain
  <2>1. /\ call' \in [Callers -> CallPoints] /\ call'[Owner] = "resuming"
        /\ \A d \in Callers : d # Owner => call'[d] = call[d]
    BY <1>1, GotoMoves DEF IInv, RunAgain
  <2>2. Suspending' <=> Suspending
    BY <1>1, <2>1, SuspendingIsHolding DEF IInv, LockInv, RunInv, Suspending, RunAgain, Free
  <2>3. Pausable!Unpark
    BY <1>1, <2>2, StatusIs, StatusIsNext, SuspendingIsHolding
    DEF IInv, TypeOK, LockInv, RunInv, ParkInv, RunAgain, flags, sems, Free, Pausable!Unpark, Pausable!vars
  <2> QED
    BY <2>3 DEF Pausable!Next
<1>2. CASE Run
  <2>1. /\ call' \in [Callers -> CallPoints] /\ call'[Owner] = "creating"
        /\ \A d \in Callers : d # Owner => call'[d] = call[d]
    BY <1>2, GotoMoves DEF IInv, Run
  <2>2. Suspending' <=> Suspending
    BY <1>2, <2>1, SuspendingIsHolding DEF IInv, LockInv, RunInv, Suspending, Run, Free
  <2>3. Pausable!Start
    BY <1>2, <2>2, StatusIs, StatusIsNext, SuspendingIsHolding
    DEF IInv, TypeOK, LockInv, RunInv, ParkInv, Run, flags, sems, Free, Pausable!Start, Pausable!vars
  <2> QED
    BY <2>3 DEF Pausable!Next
<1>3. CASE Created
  <2>1. /\ call' \in [Callers -> CallPoints] /\ call'[Owner] = "idle"
        /\ \A d \in Callers : d # Owner => call'[d] = call[d]
    BY <1>3, GotoMoves DEF IInv, Created
  <2>2. Suspending' <=> Suspending
    BY <1>3, <2>1, SuspendingIsHolding DEF IInv, LockInv, RunInv, Suspending, Created, Free
  <2>3. UNCHANGED Pausable!vars
    BY <1>3, <2>2, StatusIs, StatusIsNext, SuspendingIsHolding
    DEF IInv, TypeOK, LockInv, RunInv, ParkInv, Created, flags, sems, Free, Pausable!vars
  <2> QED
    BY <2>3 DEF Pausable!Next
<1>4. CASE BeginExit
  <2>1. /\ call' \in [Callers -> CallPoints] /\ call'[Owner] = "entering"
        /\ \A d \in Callers : d # Owner => call'[d] = call[d]
    BY <1>4, GotoMoves DEF IInv, BeginExit
  <2>2. Suspending' <=> Suspending
    BY <1>4, <2>1, SuspendingIsHolding DEF IInv, LockInv, RunInv, Suspending, BeginExit, Free
  <2>3. UNCHANGED Pausable!vars
    BY <1>4, <2>2, StatusIs, StatusIsNext, SuspendingIsHolding
    DEF IInv, TypeOK, LockInv, RunInv, ParkInv, BeginExit, flags, sems, Free, Pausable!vars
  <2> QED
    BY <2>3 DEF Pausable!Next
<1>5. CASE RequestExit
  <2>1. /\ call' \in [Callers -> CallPoints] /\ call'[Owner] = IF bSuspendRequest THEN "waking" ELSE "exiting"
        /\ \A d \in Callers : d # Owner => call'[d] = call[d]
    BY <1>5, GotoMoves DEF IInv, RequestExit
  <2>2. Suspending' <=> Suspending
    BY <1>5, <2>1, SuspendingIsHolding DEF IInv, LockInv, RunInv, Suspending, RequestExit, Free
  <2>3. UNCHANGED Pausable!vars
    BY <1>5, <2>2, StatusIs, StatusIsNext, SuspendingIsHolding
    DEF IInv, TypeOK, LockInv, RunInv, ParkInv, RequestExit, flags, sems, Free, Pausable!vars
  <2> QED
    BY <2>3 DEF Pausable!Next
<1>6. CASE WakeToExit
  <2>1. /\ call' \in [Callers -> CallPoints] /\ call'[Owner] = "exiting"
        /\ \A d \in Callers : d # Owner => call'[d] = call[d]
    BY <1>6, GotoMoves DEF IInv, WakeToExit
  <2>2. Suspending' <=> Suspending
    BY <1>6, <2>1, SuspendingIsHolding DEF IInv, LockInv, RunInv, Suspending, WakeToExit, Free
  <2>3. Pausable!Unpark
    BY <1>6, <2>2, StatusIs, StatusIsNext, SuspendingIsHolding
    DEF IInv, TypeOK, LockInv, RunInv, ParkInv, WakeToExit, flags, sems, Free, Pausable!Unpark, Pausable!vars
  <2> QED
    BY <2>3 DEF Pausable!Next
<1>7. CASE ExitSeen
  <2>1. /\ call' \in [Callers -> CallPoints] /\ call'[Owner] = "joining"
        /\ \A d \in Callers : d # Owner => call'[d] = call[d]
    BY <1>7, GotoMoves DEF IInv, ExitSeen
  <2>2. Suspending' <=> Suspending
    BY <1>7, <2>1, SuspendingIsHolding DEF IInv, LockInv, RunInv, Suspending, ExitSeen, Free
  <2>3. UNCHANGED Pausable!vars
    BY <1>7, <2>2, StatusIs, StatusIsNext, SuspendingIsHolding
    DEF IInv, TypeOK, LockInv, RunInv, ParkInv, ExitSeen, flags, sems, Free, Pausable!vars
  <2> QED
    BY <2>3 DEF Pausable!Next
<1>8. CASE Join
  <2>1. /\ call' \in [Callers -> CallPoints] /\ call'[Owner] = "idle"
        /\ \A d \in Callers : d # Owner => call'[d] = call[d]
    BY <1>8, GotoMoves DEF IInv, Join
  <2>2. Suspending' <=> Suspending
    BY <1>8, <2>1, SuspendingIsHolding DEF IInv, LockInv, RunInv, Suspending, Join, Free
  <2>3. UNCHANGED Pausable!vars
    BY <1>8, <2>2, StatusIs, StatusIsNext, SuspendingIsHolding
    DEF IInv, TypeOK, LockInv, RunInv, ParkInv, Join, flags, sems, Free, Pausable!vars
  <2> QED
    BY <2>3 DEF Pausable!Next
<1> QED
  BY <1>1, <1>2, <1>3, <1>4, <1>5, <1>6, <1>7, <1>8 DEF OwnerStep

LEMMA WorkerStepRefines ==
  ASSUME IInv, IInv', WorkerStep
  PROVE  [Pausable!Next]_Pausable!vars
<1> USE OwnerAssumption DEF Holding, CallPoints
<1>1. CASE CheckSuspend
  <2>2. Suspending' <=> Suspending
    BY <1>1 DEF Suspending, CheckSuspend
  <2>3. UNCHANGED Pausable!vars
    BY <1>1, <2>2, StatusIs, StatusIsNext, SuspendingIsHolding
    DEF IInv, TypeOK, LockInv, RunInv, ParkInv, CheckSuspend, flags, sems, Free, Pausable!vars
  <2> QED
    BY <2>3 DEF Pausable!Next
<1>2. CASE PostStopRun
  <2>2. Suspending' <=> Suspending
    BY <1>2 DEF Suspending, PostStopRun
  <2>3. UNCHANGED Pausable!vars
    BY <1>2, <2>2, StatusIs, StatusIsNext, SuspendingIsHolding
    DEF IInv, TypeOK, LockInv, RunInv, ParkInv, PostStopRun, flags, sems, Free, Pausable!vars
  <2> QED
    BY <2>3 DEF Pausable!Next
<1>3. CASE WakeUp
  <2>2. Suspending' <=> Suspending
    BY <1>3 DEF Suspending, WakeUp
  <2>3. UNCHANGED Pausable!vars
    BY <1>3, <2>2, StatusIs, StatusIsNext, SuspendingIsHolding
    DEF IInv, TypeOK, LockInv, RunInv, ParkInv, WakeUp, flags, sems, Free, Pausable!vars
  <2> QED
    BY <2>3 DEF Pausable!Next
<1>4. CASE GetReady
  <2>2. Suspending' <=> Suspending
    BY <1>4 DEF Suspending, GetReady
  <2>3. UNCHANGED Pausable!vars
    BY <1>4, <2>2, StatusIs, StatusIsNext, SuspendingIsHolding
    DEF IInv, TypeOK, LockInv, RunInv, ParkInv, GetReady, flags, sems, Free, Pausable!vars
  <2> QED
    BY <2>3 DEF Pausable!Next
<1>5. CASE CallLoop
  <2>2. Suspending' <=> Suspending
    BY <1>5 DEF Suspending, CallLoop
  <2>3. Pausable!EnterLoop
    BY <1>5, <2>2, StatusIs, StatusIsNext, SuspendingIsHolding
    DEF IInv, TypeOK, LockInv, RunInv, ParkInv, CallLoop, flags, sems, Free, Pausable!EnterLoop, Pausable!vars
  <2> QED
    BY <2>3 DEF Pausable!Next
<1>6. CASE LoopReturns
  <2>2. Suspending' <=> Suspending
    BY <1>6 DEF Suspending, LoopReturns
  <2>3. Pausable!LeaveLoop
    BY <1>6, <2>2, StatusIs, StatusIsNext, SuspendingIsHolding
    DEF IInv, TypeOK, LockInv, RunInv, ParkInv, LoopReturns, flags, sems, Free, Pausable!LeaveLoop, Pausable!vars
  <2> QED
    BY <2>3 DEF Pausable!Next
<1>7. CASE TestExit
  <2>2. Suspending' <=> Suspending
    BY <1>7 DEF Suspending, TestExit
  <2>3. Pausable!Stop \/ UNCHANGED Pausable!vars
    BY <1>7, <2>2, StatusIs, StatusIsNext, SuspendingIsHolding
    DEF IInv, TypeOK, LockInv, RunInv, ParkInv, TestExit, flags, sems, Free, Pausable!Stop, Pausable!vars
  <2> QED
    BY <2>3 DEF Pausable!Next
<1>8. CASE ClearRunning
  <2>2. Suspending' <=> Suspending
    BY <1>8 DEF Suspending, ClearRunning
  <2>3. UNCHANGED Pausable!vars
    BY <1>8, <2>2, StatusIs, StatusIsNext, SuspendingIsHolding
    DEF IInv, TypeOK, LockInv, RunInv, ParkInv, ClearRunning, flags, sems, Free, Pausable!vars
  <2> QED
    BY <2>3 DEF Pausable!Next
<1>9. CASE PostExit
  <2>2. Suspending' <=> Suspending
    BY <1>9 DEF Suspending, PostExit
  <2>3. UNCHANGED Pausable!vars
    BY <1>9, <2>2, StatusIs, StatusIsNext, SuspendingIsHolding
    DEF IInv, TypeOK, LockInv, RunInv, ParkInv, PostExit, flags, sems, Free, Pausable!vars
  <2> QED
    BY <2>3 DEF Pausable!Next
<1> QED
  BY <1>1, <1>2, <1>3, <1>4, <1>5, <1>6, <1>7, <1>8, <1>9 DEF WorkerStep

\* Every run of the class is a run of the pausable thread: a worker whose
\* suspend has returned stays out of its loop function until it is resumed.
THEOREM Refinement == Spec => ImplementsPausable
<1>1. Init => Pausable!Init
  BY OwnerAssumption DEF Init, Pausable!Init, Status, Suspending
<1>2. IInv /\ IInv' /\ [Next]_vars => [Pausable!Next]_Pausable!vars
  <2>1. UNCHANGED vars => UNCHANGED Pausable!vars
    BY DEF vars, flags, sems, Pausable!vars, Status, Suspending
  <2> QED
    BY <2>1, CallerStepRefines, OwnerStepRefines, WorkerStepRefines DEF Next
<1> QED
  BY <1>1, <1>2, IInvHolds, PTL DEF Spec, ImplementsPausable, Pausable!Spec
-----------------------------------------------------------------------------
(***************************************************************************)
(* The component that runs three of these threads (OmxVdec).               *)
(***************************************************************************)
LoopPoints == {"out", "work", "ask", "await", "park", "parking", "reopen", "unpark",
               "copy", "gave", "missed"}
Operations ==
  {"park", "parking", "resume", "run", "exit", "exiting", "flush", "close", "settle", "stop",
   "free", "populate", "clear", "post", "end"}
  \X {"submit", "decode", "drain", "decoder", "ports", "port", "change", "flushed", "thread",
      "Idle", "Executing", "Pause"}

VdecTypeOK ==
  /\ sent \in Nat /\ inbox \in Seq(AllKinds \cup {"Enable", "Start"})
  /\ todo \in Seq(Operations)
  /\ status \in [Workers -> {"off", "running", "pausing", "parked"}]
  /\ loop \in [Workers -> LoopPoints]
  /\ m_state \in {"Idle", "Executing", "Pause"}
  /\ enabled \in BOOLEAN /\ bHadInitDecoderFlag \in BOOLEAN
  /\ bResolutionChangeFlag \in BOOLEAN /\ changeLost \in BOOLEAN
  /\ bVdrvNotifyEosFlag \in BOOLEAN /\ bInputEosFlag \in BOOLEAN
  /\ bFlushingPicFlag \in BOOLEAN /\ miscounted \in BOOLEAN
  /\ nNeedToFlushPicNum \in Int /\ semFlushAllFrame \in 0 .. 1
  /\ decoded \in 0 .. Len(Stream) /\ submitted \in 0 .. Len(Stream)
  /\ vdecSize \in Nat /\ pictures \in Seq(Nat)
  /\ portSize \in Nat /\ headerSize \in Nat /\ headers \in Nat

\* The operation under way has the worker it names in the state it made; those to
\* come have not begun.
OneUnderWay ==
  /\ \A w \in Workers : Doing("parking", w) => status[w] = "pausing"
  /\ \A w \in Workers : Doing("exiting", w) => status[w] = "running"
  /\ \A i \in DOMAIN todo : i > 1 => todo[i][1] \notin {"parking", "exiting"}

\* A worker that is parked or off is out of its loop function; the drain thread is
\* parked by one at a time.
ParkedAreOut ==
  /\ \A w \in Workers : status[w] \in {"off", "parked"} => loop[w] = "out"
  /\ loop["decode"] = "parking" => status["drain"] = "pausing" /\ ~Doing("parking", "drain")
  /\ loop["submit"] \in {"out", "work"}
  /\ loop["drain"] \in {"out", "work", "copy", "gave", "missed"}

EngineOps == {<<"flush", "decoder">>, <<"close", "decoder">>}

\* Before the decoder is reset the submit and the decode thread are parked, and
\* nothing but parking comes in between.
ParkComesFirst ==
  \A j \in DOMAIN todo : todo[j] \in EngineOps =>
    /\ \A i \in 1 .. j - 1 : todo[i][1] \in {"park", "parking"}
    /\ \A w \in {"submit", "decode"} :
         \/ status[w] \in {"off", "parked"}
         \/ \E i \in 1 .. j - 1 : todo[i] \in {<<"park", w>>, <<"parking", w>>}

QuitPosts == \A i \in DOMAIN todo : todo[i] = <<"post", "flushed">> => Quitting

\* A picture was taken that the drain thread has not counted.
Uncounted == IF loop["drain"] = "gave" THEN 1 ELSE 0

\* The pictures that a change of resolution waits for are counted, or gone.
PicturesCounted ==
  /\ bFlushingPicFlag => loop["decode"] = "await"
  /\ semFlushAllFrame > 0 => loop["decode"] = "await" /\ ~bFlushingPicFlag
  /\ loop["decode"] = "ask" \/ bFlushingPicFlag =>
       miscounted \/ Len(pictures) + Uncounted <= nNeedToFlushPicNum
  /\ loop["decode"] \in {"park", "parking", "reopen"}
       \/ (loop["decode"] = "await" /\ ~bFlushingPicFlag) => miscounted \/ pictures = <<>>

InChange == {"ask", "await", "park", "parking", "reopen"}

\* Headers of the wrong size are not taken.
ChangeIsSeen ==
  portSize # headerSize /\ ~changeLost =>
    loop["drain"] \notin {"work", "copy"} /\ bResolutionChangeFlag

VInv ==
  /\ VdecTypeOK /\ OneUnderWay /\ ParkedAreOut /\ ParkComesFirst /\ QuitPosts
  /\ loop["decode"] \in InChange => decoded < submitted
  /\ Quitting \/ PicturesCounted
  /\ ChangeIsSeen
-----------------------------------------------------------------------------
\* A program as the message thread takes it: nothing of it has begun.
Begins(p) ==
  /\ p \in Seq(Operations)
  /\ \A i \in DOMAIN p : p[i][1] \notin {"parking", "exiting"}
  /\ \A j \in DOMAIN p : p[j] \in EngineOps =>
       /\ \A i \in 1 .. j - 1 : p[i][1] = "park"
       /\ \A w \in {"submit", "decode"} : \E i \in 1 .. j - 1 : p[i] = <<"park", w>>
  /\ \A i \in DOMAIN p : p[i] = <<"post", "flushed">> => p[Len(p)] = <<"end", "thread">>

LEMMA ConcatIs ==
  ASSUME NEW S, NEW a \in Seq(S), NEW b \in Seq(S)
  PROVE  /\ a \o b \in Seq(S) /\ Len(a \o b) = Len(a) + Len(b)
         /\ DOMAIN (a \o b) = 1 .. Len(a) + Len(b)
         /\ \A i \in DOMAIN a : (a \o b)[i] = a[i]
         /\ \A i \in DOMAIN b : (a \o b)[Len(a) + i] = b[i]
  OBVIOUS

LEMMA ParkAllIs ==
  /\ ParkAll \in Seq(Operations) /\ Len(ParkAll) = 3
  /\ ParkAll[1] = <<"park", "drain">> /\ ParkAll[2] = <<"park", "decode">>
  /\ ParkAll[3] = <<"park", "submit">>
BY DEF ParkAll, Operations

\* The programs that park all workers and then reset the decoder.
LEMMA AfterParkAll ==
  ASSUME NEW b \in Seq(Operations),
         \A i \in DOMAIN b : /\ b[i][1] \notin {"parking", "exiting", "post"}
                             /\ i # 1 => b[i] \notin EngineOps
  PROVE  Begins(ParkAll \o b)
<1> DEFINE p == ParkAll \o b
           n == Len(b)
<1>1. /\ p \in Seq(Operations) /\ DOMAIN p = 1 .. 3 + n /\ n \in Nat /\ DOMAIN b = 1 .. n
      /\ p[1] = <<"park", "drain">> /\ p[2] = <<"park", "decode">> /\ p[3] = <<"park", "submit">>
      /\ \A i \in 1 .. n : p[3 + i] = b[i]
  <2>1. /\ p \in Seq(Operations) /\ DOMAIN p = 1 .. Len(ParkAll) + n
        /\ \A i \in DOMAIN ParkAll : p[i] = ParkAll[i]
        /\ \A i \in DOMAIN b : p[Len(ParkAll) + i] = b[i]
    <3>1. ParkAll \in Seq(Operations)
      BY ParkAllIs
    <3> QED
      BY <3>1, ConcatIs
  <2>2. n \in Nat /\ DOMAIN b = 1 .. n /\ DOMAIN ParkAll = 1 .. 3
    BY ParkAllIs
  <2> HIDE DEF p, n
  <2>3. 1 \in DOMAIN ParkAll /\ 2 \in DOMAIN ParkAll /\ 3 \in DOMAIN ParkAll
    BY <2>2
  <2>4. p[1] = <<"park", "drain">> /\ p[2] = <<"park", "decode">> /\ p[3] = <<"park", "submit">>
    BY <2>1, <2>3, ParkAllIs
  <2>5. DOMAIN p = 1 .. 3 + n /\ \A i \in 1 .. n : p[3 + i] = b[i]
    BY <2>1, <2>2, ParkAllIs
  <2> QED
    BY <2>1, <2>2, <2>4, <2>5
<1> HIDE DEF p, n
<1>2. \A i \in DOMAIN p : i = 1 \/ i = 2 \/ i = 3 \/ (i - 3 \in 1 .. n /\ 3 + (i - 3) = i)
  BY <1>1
<1>3. \A i \in DOMAIN p : p[i][1] \notin {"parking", "exiting", "post"}
  BY <1>1, <1>2
<1>4. \A j \in DOMAIN p : p[j] \in EngineOps => j = 4
  <2> SUFFICES ASSUME NEW j \in DOMAIN p, p[j] \in EngineOps PROVE j = 4
    OBVIOUS
  <2>1. p[1] \notin EngineOps /\ p[2] \notin EngineOps /\ p[3] \notin EngineOps
    BY <1>1 DEF EngineOps
  <2>2. j - 3 \in 1 .. n /\ p[j] = b[j - 3]
    BY <1>1, <1>2, <2>1
  <2>3. j - 3 = 1
    BY <1>1, <2>2
  <2> QED
    BY <1>1, <2>3
<1>5. \A i \in 1 .. 4 - 1 : i = 1 \/ i = 2 \/ i = 3
  OBVIOUS
<1>6. \A j \in DOMAIN p : p[j] \in EngineOps =>
        /\ \A i \in 1 .. j - 1 : p[i][1] = "park"
        /\ \A w \in {"submit", "decode"} : \E i \in 1 .. j - 1 : p[i] = <<"park", w>>
  <2> SUFFICES ASSUME NEW j \in DOMAIN p, p[j] \in EngineOps
               PROVE  /\ \A i \in 1 .. j - 1 : p[i][1] = "park"
                      /\ \A w \in {"submit", "decode"} : \E i \in 1 .. j - 1 : p[i] = <<"park", w>>
    OBVIOUS
  <2>1. j = 4
    BY <1>4
  <2>2. \A i \in 1 .. j - 1 : p[i][1] = "park"
    BY <1>1, <1>5, <2>1
  <2>3. 2 \in 1 .. j - 1 /\ 3 \in 1 .. j - 1
    BY <2>1
  <2> QED
    BY <1>1, <2>2, <2>3
<1>7. \A i \in DOMAIN p : p[i] # <<"post", "flushed">>
  BY <1>3
<1> QED
  BY <1>1, <1>3, <1>6, <1>7 DEF Begins, p

\* The programs that do not touch the decoder.
LEMMA WithoutReset ==
  ASSUME NEW p \in Seq(Operations),
         \A i \in DOMAIN p : p[i][1] \notin {"parking", "exiting"} /\ p[i] \notin EngineOps,
         \A i \in DOMAIN p : p[i] = <<"post", "flushed">> => p[Len(p)] = <<"end", "thread">>
  PROVE  Begins(p)
BY DEF Begins

LEMMA ProgramsBegin ==
  ASSUME NEW m \in AllKinds \cup {"Enable", "Start"}
  PROVE  Begins(Program(m))
<1> USE DEF Operations, EngineOps
<1>1. Begins(FlushProgram)
  <2> DEFINE b == << <<"flush", "decoder">>, <<"resume", "submit">>, <<"resume", "decode">>,
                     <<"resume", "drain">> >>
  <2>1. b \in Seq(Operations) /\ DOMAIN b = 1 .. 4
    OBVIOUS
  <2>2. \A i \in 1 .. 4 : b[i][1] \notin {"parking", "exiting", "post"}
                          /\ (i # 1 => b[i] \notin EngineOps)
    OBVIOUS
  <2> HIDE DEF b
  <2>3. Begins(ParkAll \o b)
    BY <2>1, <2>2, AfterParkAll
  <2> QED
    BY <2>3 DEF FlushProgram, b
<1>2. Begins(ToIdle)
  <2> DEFINE b == << <<"close", "decoder">>, <<"settle", "Idle">> >>
  <2>1. b \in Seq(Operations) /\ DOMAIN b = 1 .. 2
    OBVIOUS
  <2>2. \A i \in 1 .. 2 : b[i][1] \notin {"parking", "exiting", "post"}
                          /\ (i # 1 => b[i] \notin EngineOps)
    OBVIOUS
  <2> HIDE DEF b
  <2>3. Begins(ParkAll \o b)
    BY <2>1, <2>2, AfterParkAll
  <2> QED
    BY <2>3 DEF ToIdle, b
<1>3. Begins(StopPort) /\ Begins(RestartPort) /\ Begins(Start) /\ Begins(<<>>)
  <2>1. Begins(StopPort)
    <3> DEFINE p == StopPort
    <3>1. p \in Seq(Operations) /\ DOMAIN p = 1 .. 3 /\ Len(p) = 3
      BY DEF StopPort
    <3>2. \A i \in 1 .. 3 : p[i][1] \notin {"parking", "exiting", "post"} /\ p[i] \notin EngineOps
      BY DEF StopPort
    <3> HIDE DEF p
    <3>3. Begins(p)
      BY <3>1, <3>2, WithoutReset
    <3> QED
      BY <3>3 DEF p
  <2>2. Begins(RestartPort)
    <3> DEFINE p == RestartPort
    <3>1. p \in Seq(Operations) /\ DOMAIN p = 1 .. 3 /\ Len(p) = 3
      BY DEF RestartPort
    <3>2. \A i \in 1 .. 3 : p[i][1] \notin {"parking", "exiting", "post"} /\ p[i] \notin EngineOps
      BY DEF RestartPort
    <3> HIDE DEF p
    <3>3. Begins(p)
      BY <3>1, <3>2, WithoutReset
    <3> QED
      BY <3>3 DEF p
  <2>3. Begins(Start)
    <3> DEFINE p == Start
    <3>1. p \in Seq(Operations) /\ DOMAIN p = 1 .. 3 /\ Len(p) = 3
      BY DEF Start
    <3>2. \A i \in 1 .. 3 : p[i][1] \notin {"parking", "exiting", "post"} /\ p[i] \notin EngineOps
      BY DEF Start
    <3> HIDE DEF p
    <3>3. Begins(p)
      BY <3>1, <3>2, WithoutReset
    <3> QED
      BY <3>3 DEF p
  <2>4. Begins(<<>>)
    BY DEF Begins
  <2> QED
    BY <2>1, <2>2, <2>3, <2>4
<1>4. Begins(Quit)
  <2> DEFINE p == Quit
  <2>1. p \in Seq(Operations) /\ DOMAIN p = 1 .. 5 /\ Len(p) = 5 /\ p[5] = <<"end", "thread">>
    BY DEF Quit
  <2>2. \A i \in 1 .. 5 : p[i][1] \notin {"parking", "exiting"} /\ p[i] \notin EngineOps
    BY DEF Quit
  <2> HIDE DEF p
  <2>3. Begins(p)
    BY <2>1, <2>2, WithoutReset
  <2> QED
    BY <2>3 DEF p
<1>5. \A st \in {"Pause", "Executing"} : Begins(<< <<"settle", st>> >>)
  BY WithoutReset
<1>6. Begins(<< <<"flush", "ports">>, <<"settle", "Executing">> >>)
  <2> DEFINE p == << <<"flush", "ports">>, <<"settle", "Executing">> >>
  <2>1. p \in Seq(Operations) /\ DOMAIN p = 1 .. 2
    OBVIOUS
  <2>2. \A i \in 1 .. 2 : p[i][1] \notin {"parking", "exiting", "post"} /\ p[i] \notin EngineOps
    OBVIOUS
  <2> HIDE DEF p
  <2>3. Begins(p)
    BY <2>1, <2>2, WithoutReset
  <2> QED
    BY <2>3 DEF p
<1> QED
  BY <1>1, <1>2, <1>3, <1>4, <1>5, <1>6 DEF Program, AllKinds

\* What is left of a program, after its first operation and when that is replaced.
LEMMA TailIs ==
  ASSUME NEW S, NEW s \in Seq(S), s # <<>>
  PROVE  /\ Len(s) \in Nat \ {0} /\ DOMAIN s = 1 .. Len(s) /\ Head(s) = s[1]
         /\ Tail(s) \in Seq(S) /\ Len(Tail(s)) = Len(s) - 1 /\ DOMAIN Tail(s) = 1 .. Len(s) - 1
         /\ \A i \in 1 .. Len(s) - 1 : Tail(s)[i] = s[i + 1]
  OBVIOUS

LEMMA ReplaceIs ==
  ASSUME NEW S, NEW s \in Seq(S), s # <<>>, NEW x \in S
  PROVE  LET t == <<x>> \o Tail(s)
         IN  /\ t \in Seq(S) /\ Len(t) = Len(s) /\ DOMAIN t = 1 .. Len(s) /\ t[1] = x
             /\ t # <<>> /\ Head(t) = x
             /\ \A i \in 2 .. Len(s) : t[i] = s[i]
<1> DEFINE t == <<x>> \o Tail(s)
<1>1. /\ Tail(s) \in Seq(S) /\ Len(Tail(s)) = Len(s) - 1 /\ Len(s) \in Nat \ {0}
      /\ DOMAIN Tail(s) = 1 .. Len(s) - 1 /\ \A i \in 1 .. Len(s) - 1 : Tail(s)[i] = s[i + 1]
  BY TailIs
<1>2. <<x>> \in Seq(S) /\ Len(<<x>>) = 1 /\ DOMAIN <<x>> = 1 .. 1 /\ <<x>>[1] = x
  OBVIOUS
<1>3. /\ t \in Seq(S) /\ Len(t) = 1 + Len(Tail(s)) /\ DOMAIN t = 1 .. 1 + Len(Tail(s))
      /\ t[1] = x /\ \A i \in DOMAIN Tail(s) : t[1 + i] = Tail(s)[i]
  BY <1>1, <1>2, ConcatIs
<1>4. t # <<>> /\ Head(t) = t[1]
  BY <1>1, <1>3, TailIs
<1> HIDE DEF t
<1>5. ASSUME NEW i \in 2 .. Len(s) PROVE t[i] = s[i]
  <2>1. i - 1 \in 1 .. Len(s) - 1 /\ 1 + (i - 1) = i /\ (i - 1) + 1 = i
    BY <1>1
  <2> QED
    BY <1>1, <1>3, <2>1
<1>6. Len(t) = Len(s) /\ DOMAIN t = 1 .. Len(s)
  BY <1>1, <1>3
<1> QED
  BY <1>3, <1>4, <1>5, <1>6 DEF t

\* An operation is done, and it was not the last of Quit.
LEMMA DoneKeeps ==
  ASSUME VdecTypeOK, OneUnderWay, QuitPosts, ParkComesFirst,
         NEW op, NEW on, Doing(op, on), Done, op # "end"
  PROVE  /\ todo' \in Seq(Operations) /\ (Quitting => Quitting') /\ QuitPosts'
         /\ \A i \in DOMAIN todo' : todo'[i][1] \notin {"parking", "exiting"}
         /\ \A w : ~Doing("parking", w)' /\ ~Doing("exiting", w)'
         /\ op \notin {"park", "parking"} => ParkComesFirst'
<1> DEFINE n == Len(todo)
<1>1. todo \in Seq(Operations) /\ todo # <<>> /\ todo' = Tail(todo) /\ Head(todo) = <<op, on>>
  BY DEF VdecTypeOK, Doing, Done
<1>2. /\ n \in Nat \ {0} /\ DOMAIN todo = 1 .. n /\ todo[1] = <<op, on>>
      /\ todo' \in Seq(Operations) /\ Len(todo') = n - 1 /\ DOMAIN todo' = 1 .. n - 1
      /\ \A i \in 1 .. n - 1 : todo'[i] = todo[i + 1]
  BY <1>1, TailIs
<1> HIDE DEF n
<1>3. \A i \in 1 .. n - 1 : i + 1 \in 1 .. n /\ i + 1 > 1
  BY <1>2
<1>4. ASSUME Quitting PROVE Quitting'
  <2>1. todo[n] = <<"end", "thread">>
    BY <1>4 DEF Quitting, n
  <2>2. n # 1
    BY <1>2, <2>1
  <2>3. n - 1 \in 1 .. n - 1 /\ (n - 1) + 1 = n
    BY <1>2, <2>2
  <2>4. todo'[n - 1] = todo[n] /\ todo' # <<>>
    BY <1>2, <2>3
  <2> QED
    BY <1>2, <2>1, <2>4 DEF Quitting
<1>5. QuitPosts'
  BY <1>2, <1>3, <1>4 DEF QuitPosts
<1>6. \A i \in DOMAIN todo' : todo'[i][1] \notin {"parking", "exiting"}
  BY <1>2, <1>3 DEF OneUnderWay
<1>7. ASSUME NEW w, Doing("parking", w)' \/ Doing("exiting", w)' PROVE FALSE
  <2>1. todo' # <<>> /\ Head(todo')[1] \in {"parking", "exiting"}
    BY <1>7 DEF Doing
  <2>2. Head(todo') = todo'[1] /\ 1 \in DOMAIN todo'
    BY <1>2, <2>1, TailIs
  <2> QED
    BY <1>6, <2>1, <2>2
<1>8. ASSUME op \notin {"park", "parking"} PROVE ParkComesFirst'
  <2> SUFFICES ASSUME NEW j \in DOMAIN todo', todo'[j] \in EngineOps PROVE FALSE
    BY DEF ParkComesFirst, EngineOps
  <2>1. j + 1 \in DOMAIN todo /\ todo[j + 1] \in EngineOps /\ 1 \in 1 .. (j + 1) - 1
    BY <1>2, <1>3
  <2> QED
    BY <1>2, <1>8, <2>1 DEF ParkComesFirst
<1> QED
  BY <1>2, <1>4, <1>5, <1>6, <1>7, <1>8

\* An operation has begun and is awaited.
LEMMA DoNextKeeps ==
  ASSUME VdecTypeOK, OneUnderWay, QuitPosts, ParkComesFirst,
         NEW op, NEW on, Doing(op, on), NEW x, <<x, on>> \in Operations, DoNext(x, on),
         op # "end", x # "post"
  PROVE  /\ todo' \in Seq(Operations) /\ (Quitting => Quitting') /\ QuitPosts'
         /\ \A i \in DOMAIN todo' : i > 1 => todo'[i][1] \notin {"parking", "exiting"}
         /\ \A a, b : Doing(a, b)' <=> a = x /\ b = on
         /\ DOMAIN todo' = DOMAIN todo /\ todo'[1] = <<x, on>>
         /\ \A i \in DOMAIN todo : i > 1 => todo'[i] = todo[i]
         /\ op \notin {"park", "parking"} /\ <<x, on>> \notin EngineOps => ParkComesFirst'
<1> DEFINE n == Len(todo)
<1>1. /\ todo \in Seq(Operations) /\ todo # <<>> /\ Head(todo) = <<op, on>>
      /\ todo' = << <<x, on>> >> \o Tail(todo)
  BY DEF VdecTypeOK, Doing, DoNext
<1>2. n \in Nat \ {0} /\ DOMAIN todo = 1 .. n /\ todo[1] = <<op, on>>
  BY <1>1, TailIs
<1>3. /\ todo' \in Seq(Operations) /\ Len(todo') = n /\ DOMAIN todo' = 1 .. n
      /\ todo'[1] = <<x, on>> /\ todo' # <<>> /\ Head(todo') = <<x, on>>
      /\ \A i \in 2 .. n : todo'[i] = todo[i]
  BY <1>1, ReplaceIs
<1> HIDE DEF n
<1>4. \A i \in 1 .. n : i = 1 \/ (i > 1 /\ i \in 2 .. n)
  BY <1>2
<1>5. ASSUME Quitting PROVE Quitting'
  <2>1. todo[n] = <<"end", "thread">>
    BY <1>5 DEF Quitting, n
  <2>2. n \in 2 .. n
    BY <1>2, <2>1
  <2> QED
    BY <1>3, <2>1, <2>2 DEF Quitting
<1>6. QuitPosts'
  BY <1>2, <1>3, <1>4, <1>5 DEF QuitPosts
<1>7. \A i \in 1 .. n : i > 1 => todo'[i] = todo[i]
  BY <1>3, <1>4
<1>8. \A i \in DOMAIN todo' : i > 1 => todo'[i][1] \notin {"parking", "exiting"}
  BY <1>2, <1>3, <1>7 DEF OneUnderWay
<1>9. ASSUME op \notin {"park", "parking"}, <<x, on>> \notin EngineOps PROVE ParkComesFirst'
  <2> SUFFICES ASSUME NEW j \in DOMAIN todo', todo'[j] \in EngineOps PROVE FALSE
    BY DEF ParkComesFirst, EngineOps
  <2>1. j \in DOMAIN todo /\ todo[j] \in EngineOps /\ 1 \in 1 .. j - 1
    BY <1>2, <1>3, <1>4, <1>9
  <2> QED
    BY <1>2, <1>9, <2>1 DEF ParkComesFirst
<1>10. \A a, b : Doing(a, b)' <=> a = x /\ b = on
  BY <1>3 DEF Doing
<1> QED
  BY <1>2, <1>3, <1>5, <1>6, <1>7, <1>8, <1>9, <1>10

\* A step that leaves all but the program and the workers' status.
LEMMA ProgramFrame ==
  ASSUME VInv, UNCHANGED <<sent, inbox, loop, component, eos, flush, change, decoder, headers>>,
         todo' \in Seq(Operations),
         status' \in [Workers -> {"off", "running", "pausing", "parked"}],
         OneUnderWay', ParkedAreOut', ParkComesFirst', QuitPosts', Quitting => Quitting'
  PROVE  VInv'
<1>1. VdecTypeOK'
  BY DEF VInv, VdecTypeOK, component, eos, flush, change, decoder
<1>2. Quitting' \/ PicturesCounted'
  BY DEF VInv, PicturesCounted, Uncounted, flush, decoder
<1> QED
  BY <1>1, <1>2 DEF VInv, ChangeIsSeen, change, decoder

\* A worker is found or made to be out of its loop function, for good.
LEMMA ParkDone ==
  ASSUME VInv, NEW w \in Workers, NEW op \in {"park", "parking"}, Doing(op, w), Done,
         status'[w] \in {"off", "parked"}, \A v \in Workers : v # w => status'[v] = status[v]
  PROVE  ParkComesFirst'
<1> DEFINE n == Len(todo)
<1>1. /\ n \in Nat \ {0} /\ DOMAIN todo = 1 .. n /\ todo[1] = <<op, w>>
      /\ DOMAIN todo' = 1 .. n - 1 /\ \A i \in 1 .. n - 1 : todo'[i] = todo[i + 1]
  <2>1. todo \in Seq(Operations) /\ todo # <<>> /\ todo' = Tail(todo) /\ Head(todo) = <<op, w>>
    BY DEF VInv, VdecTypeOK, Doing, Done
  <2> QED
    BY <2>1, TailIs
<1> HIDE DEF n
<1> SUFFICES ASSUME NEW j \in 1 .. n - 1, todo'[j] \in EngineOps
             PROVE  /\ \A i \in 1 .. j - 1 : todo'[i][1] \in {"park", "parking"}
                    /\ \A v \in {"submit", "decode"} :
                         \/ status'[v] \in {"off", "parked"}
                         \/ \E i \in 1 .. j - 1 : todo'[i] \in {<<"park", v>>, <<"parking", v>>}
  BY <1>1 DEF ParkComesFirst, EngineOps
<1>2. j + 1 \in DOMAIN todo /\ todo[j + 1] \in EngineOps
  BY <1>1
<1>3. /\ \A i \in 1 .. (j + 1) - 1 : todo[i][1] \in {"park", "parking"}
      /\ \A v \in {"submit", "decode"} :
           \/ status[v] \in {"off", "parked"}
           \/ \E i \in 1 .. (j + 1) - 1 : todo[i] \in {<<"park", v>>, <<"parking", v>>}
  BY <1>2 DEF VInv, ParkComesFirst
<1>4. \A i \in 1 .. j - 1 : i \in 1 .. n - 1 /\ i + 1 \in 1 .. (j + 1) - 1
  BY <1>1
<1>5. ASSUME NEW v \in {"submit", "decode"}, status'[v] \notin {"off", "parked"}
      PROVE  \E i \in 1 .. j - 1 : todo'[i] \in {<<"park", v>>, <<"parking", v>>}
  <2>1. v # w /\ status[v] \notin {"off", "parked"}
    BY <1>5 DEF Workers
  <2>2. PICK i \in 1 .. (j + 1) - 1 : todo[i] \in {<<"park", v>>, <<"parking", v>>}
    BY <1>3, <2>1
  <2>3. i # 1
    BY <1>1, <2>1, <2>2
  <2>4. i - 1 \in 1 .. j - 1 /\ (i - 1) + 1 = i /\ i - 1 \in 1 .. n - 1
    BY <1>1, <2>3
  <2> QED
    BY <1>1, <2>2, <2>4
<1> QED
  BY <1>1, <1>3, <1>4, <1>5

LEMMA MsgParkVInv ==
  ASSUME VInv, NEW w \in Workers, MsgPark(w),
         UNCHANGED <<sent, inbox, loop, component, eos, flush, change, decoder, headers>>
  PROVE  VInv'
<1> USE DEF Workers
<1>1. /\ VdecTypeOK /\ OneUnderWay /\ QuitPosts /\ ParkComesFirst /\ ParkedAreOut
      /\ Doing("park", w) /\ ~Locked(w) /\ status \in [Workers -> {"off", "running", "pausing", "parked"}]
  BY DEF VInv, VdecTypeOK, MsgPark
<1>2. CASE status[w] = "running"
  <2>1. /\ status' = [status EXCEPT ![w] = "pausing"] /\ DoNext("parking", w)
        /\ <<"parking", w>> \in Operations
    BY <1>2 DEF MsgPark, Set, Operations
  <2>2. /\ todo' \in Seq(Operations) /\ (Quitting => Quitting') /\ QuitPosts'
        /\ \A i \in DOMAIN todo' : i > 1 => todo'[i][1] \notin {"parking", "exiting"}
        /\ \A a, b : Doing(a, b)' <=> a = "parking" /\ b = w
        /\ DOMAIN todo' = DOMAIN todo /\ todo'[1] = <<"parking", w>>
        /\ \A i \in DOMAIN todo : i > 1 => todo'[i] = todo[i]
    BY <1>1, <2>1, DoNextKeeps
  <2>3. /\ status' \in [Workers -> {"off", "running", "pausing", "parked"}]
        /\ status'[w] = "pausing" /\ \A v \in Workers : v # w => status'[v] = status[v]
    BY <1>1, <2>1
  <2>4. OneUnderWay'
    BY <2>2, <2>3 DEF OneUnderWay
  <2>5. ParkedAreOut'
    BY <1>1, <1>2, <2>2, <2>3 DEF ParkedAreOut, Locked
  <2>6. ParkComesFirst'
    <3>1. todo \in Seq(Operations) /\ todo # <<>> /\ Head(todo) = <<"park", w>>
      BY <1>1 DEF VdecTypeOK, Doing
    <3>2. DOMAIN todo = 1 .. Len(todo) /\ Len(todo) \in Nat /\ todo[1] = <<"park", w>>
      BY <3>1, TailIs
    <3> SUFFICES ASSUME NEW j \in DOMAIN todo, todo'[j] \in EngineOps
                 PROVE  /\ \A i \in 1 .. j - 1 : todo'[i][1] \in {"park", "parking"}
                        /\ \A v \in {"submit", "decode"} :
                             \/ status'[v] \in {"off", "parked"}
                             \/ \E i \in 1 .. j - 1 : todo'[i] \in {<<"park", v>>, <<"parking", v>>}
      BY <2>2 DEF ParkComesFirst, EngineOps
    <3>3. j > 1 /\ todo[j] \in EngineOps
      <4>1. j # 1
        BY <2>2 DEF EngineOps
      <4> QED
        BY <2>2, <3>2, <4>1
    <3>4. /\ \A i \in 1 .. j - 1 : todo[i][1] \in {"park", "parking"}
          /\ \A v \in {"submit", "decode"} :
               \/ status[v] \in {"off", "parked"}
               \/ \E i \in 1 .. j - 1 : todo[i] \in {<<"park", v>>, <<"parking", v>>}
      BY <1>1, <3>3 DEF ParkComesFirst
    <3>5. \A i \in 1 .. j - 1 : i \in DOMAIN todo /\ (i = 1 \/ (i > 1 /\ todo'[i] = todo[i]))
      BY <2>2, <3>2
    <3>6. ASSUME NEW v \in {"submit", "decode"}, status'[v] \notin {"off", "parked"}
          PROVE  \E i \in 1 .. j - 1 : todo'[i] \in {<<"park", v>>, <<"parking", v>>}
      <4>1. CASE v = w
        <5>1. 1 \in 1 .. j - 1
          BY <3>2, <3>3
        <5> QED
          BY <2>2, <4>1, <5>1
      <4>2. CASE v # w
        <5>1. PICK i \in 1 .. j - 1 : todo[i] \in {<<"park", v>>, <<"parking", v>>}
          BY <2>3, <3>4, <3>6, <4>2
        <5>2. i # 1
          BY <3>2, <4>2, <5>1
        <5> QED
          BY <3>5, <5>1, <5>2
      <4> QED
        BY <4>1, <4>2
    <3>7. \A i \in 1 .. j - 1 : todo'[i][1] \in {"park", "parking"}
      BY <2>2, <3>4, <3>5
    <3> QED
      BY <3>6, <3>7
  <2> QED
    BY <2>2, <2>3, <2>4, <2>5, <2>6, ProgramFrame
<1>3. CASE status[w] # "running"
  <2>1. status' = status /\ Done /\ status[w] \in {"off", "parked"}
    BY <1>1, <1>3 DEF MsgPark, Locked
  <2>2. /\ todo' \in Seq(Operations) /\ (Quitting => Quitting') /\ QuitPosts'
        /\ \A i \in DOMAIN todo' : todo'[i][1] \notin {"parking", "exiting"}
        /\ \A v : ~Doing("parking", v)' /\ ~Doing("exiting", v)'
    BY <1>1, <2>1, DoneKeeps
  <2>3. ParkComesFirst'
    BY <1>1, <2>1, ParkDone
  <2>4. OneUnderWay' /\ ParkedAreOut'
    BY <1>1, <2>1, <2>2 DEF OneUnderWay, ParkedAreOut
  <2> QED
    BY <1>1, <2>1, <2>2, <2>3, <2>4, ProgramFrame
<1> QED
  BY <1>2, <1>3

LEMMA MsgOnWorkerVInv ==
  ASSUME VInv, NEW w \in Workers, MsgOnWorker(w)
  PROVE  VInv'
<1> USE DEF Workers
<1>1. /\ VdecTypeOK /\ OneUnderWay /\ QuitPosts /\ ParkComesFirst /\ ParkedAreOut
      /\ status \in [Workers -> {"off", "running", "pausing", "parked"}]
      /\ UNCHANGED <<sent, inbox, loop, component, eos, flush, change, decoder, headers>>
  BY DEF VInv, VdecTypeOK, MsgOnWorker
<1>2. CASE MsgPark(w)
  BY <1>1, <1>2, MsgParkVInv
<1>3. ASSUME NEW op \in {"parking", "resume", "run", "exit", "exiting"}, Doing(op, w), Done,
             NEW st, status' = [status EXCEPT ![w] = st],
             \/ op = "parking" /\ st = "parked" /\ loop[w] = "out"
             \/ op = "exiting" /\ st = "off" /\ loop[w] = "out"
             \/ /\ op \in {"resume", "run", "exit"} /\ ~Locked(w)
                /\ st = status[w] \/ st = "running"
      PROVE  VInv'
  <2>1. /\ todo' \in Seq(Operations) /\ (Quitting => Quitting') /\ QuitPosts'
        /\ \A i \in DOMAIN todo' : todo'[i][1] \notin {"parking", "exiting"}
        /\ \A v : ~Doing("parking", v)' /\ ~Doing("exiting", v)'
        /\ op # "parking" => ParkComesFirst'
    BY <1>1, <1>3, DoneKeeps
  <2>2. /\ status' \in [Workers -> {"off", "running", "pausing", "parked"}]
        /\ status'[w] = st /\ \A v \in Workers : v # w => status'[v] = status[v]
    BY <1>1, <1>3
  <2>3. ParkComesFirst'
    BY <1>3, <2>1, <2>2, ParkDone
  <2>4. OneUnderWay'
    BY <2>1 DEF OneUnderWay
  <2>5. ParkedAreOut'
    BY <1>1, <1>3, <2>1, <2>2 DEF ParkedAreOut, OneUnderWay, Locked
  <2> QED
    BY <1>1, <2>1, <2>2, <2>3, <2>4, <2>5, ProgramFrame
<1>4. CASE MsgParked(w)
  BY <1>3, <1>4 DEF MsgParked, Set
<1>5. CASE MsgResume(w)
  BY <1>1, <1>3, <1>5 DEF MsgResume
<1>6. CASE MsgRun(w)
  BY <1>3, <1>6 DEF MsgRun, Set
<1>7. CASE MsgExit(w) /\ status[w] = "off"
  <2>1. status' = [status EXCEPT ![w] = status[w]]
    BY <1>1, <1>7 DEF MsgExit
  <2> QED
    BY <1>3, <1>7, <2>1 DEF MsgExit
<1>8. CASE MsgExited(w)
  BY <1>3, <1>8 DEF MsgExited, Set
<1>9. CASE MsgExit(w) /\ status[w] # "off"
  <2>1. /\ Doing("exit", w) /\ ~Locked(w) /\ DoNext("exiting", w)
        /\ status' = [status EXCEPT ![w] = "running"] /\ <<"exiting", w>> \in Operations
        /\ <<"exiting", w>> \notin EngineOps
    BY <1>9 DEF MsgExit, Set, Operations, EngineOps
  <2>2. /\ todo' \in Seq(Operations) /\ (Quitting => Quitting') /\ QuitPosts'
        /\ \A i \in DOMAIN todo' : i > 1 => todo'[i][1] \notin {"parking", "exiting"}
        /\ \A a, b : Doing(a, b)' <=> a = "exiting" /\ b = w
        /\ ParkComesFirst'
    BY <1>1, <2>1, DoNextKeeps
  <2>3. /\ status' \in [Workers -> {"off", "running", "pausing", "parked"}]
        /\ status'[w] = "running" /\ \A v \in Workers : v # w => status'[v] = status[v]
    BY <1>1, <2>1
  <2>4. OneUnderWay' /\ ParkedAreOut'
    BY <1>1, <2>1, <2>2, <2>3 DEF OneUnderWay, ParkedAreOut, Locked
  <2> QED
    BY <1>1, <2>2, <2>3, <2>4, ProgramFrame
<1> QED
  BY <1>2, <1>4, <1>5, <1>6, <1>7, <1>8, <1>9 DEF MsgOnWorker

LEMMA TakeMessageVInv ==
  ASSUME VInv, TakeMessage
  PROVE  VInv'
<1>1. /\ todo = <<>> /\ inbox # <<>> /\ todo' = Program(Head(inbox)) /\ inbox' = Tail(inbox)
      /\ UNCHANGED <<sent, threads, component, eos, flush, change, decoder, headers>>
  BY DEF TakeMessage
<1>2. inbox \in Seq(AllKinds \cup {"Enable", "Start"})
  BY DEF VInv, VdecTypeOK
<1>3. Head(inbox) \in AllKinds \cup {"Enable", "Start"} /\ inbox' \in Seq(AllKinds \cup {"Enable", "Start"})
  BY <1>1, <1>2
<1>4. Begins(todo')
  BY <1>1, <1>3, ProgramsBegin
<1>5. VdecTypeOK'
  BY <1>1, <1>3, <1>4
  DEF VInv, VdecTypeOK, Begins, threads, component, eos, flush, change, decoder
<1>6. \A a, b : Doing(a, b)' => a \notin {"parking", "exiting"}
  <2>0. SUFFICES ASSUME NEW a, NEW b, Doing(a, b)' PROVE a \notin {"parking", "exiting"}
    OBVIOUS
  <2>1. todo' \in Seq(Operations) /\ todo' # <<>> /\ Head(todo') = <<a, b>>
    BY <1>4, <2>0 DEF Begins, Doing
  <2>2. Head(todo') = todo'[1] /\ 1 \in DOMAIN todo'
    BY <2>1, TailIs
  <2>3. todo'[1][1] \notin {"parking", "exiting"}
    BY <1>4, <2>2 DEF Begins
  <2> QED
    BY <2>1, <2>2, <2>3
<1>7. OneUnderWay' /\ ParkedAreOut'
  BY <1>1, <1>4, <1>6 DEF VInv, OneUnderWay, ParkedAreOut, Begins, threads
<1>8. ParkComesFirst'
  BY <1>4 DEF ParkComesFirst, Begins
<1>9. QuitPosts'
  BY <1>4 DEF QuitPosts, Quitting, Begins
<1>10. PicturesCounted'
  BY <1>1 DEF VInv, Quitting, PicturesCounted, Uncounted, threads, flush, decoder
<1> QED
  BY <1>1, <1>5, <1>7, <1>8, <1>9, <1>10 DEF VInv, ChangeIsSeen, threads, change, decoder

\* What an operation on the component and on the ports leaves.
LEMMA OperationFrame ==
  ASSUME VInv, NEW op, NEW on, Doing(op, on), Done,
         op \notin {"end", "park", "parking"}, UNCHANGED <<sent, inbox, threads>>,
         VdecTypeOK'
  PROVE  OneUnderWay' /\ ParkedAreOut' /\ ParkComesFirst' /\ QuitPosts' /\ (Quitting => Quitting')
<1>1. /\ (Quitting => Quitting') /\ QuitPosts' /\ ParkComesFirst'
      /\ \A i \in DOMAIN todo' : todo'[i][1] \notin {"parking", "exiting"}
      /\ \A w : ~Doing("parking", w)' /\ ~Doing("exiting", w)'
  BY DoneKeeps DEF VInv
<1>2. OneUnderWay' /\ ParkedAreOut'
  BY <1>1 DEF VInv, OneUnderWay, ParkedAreOut, threads
<1> QED
  BY <1>1, <1>2

LEMMA DoneTypes ==
  ASSUME VdecTypeOK, NEW op, NEW on, Doing(op, on), Done
  PROVE  todo' \in Seq(Operations)
  BY TailIs DEF VdecTypeOK, Doing, Done

\* The decoder is reset while neither of its two threads is at work.
LEMMA QuietEngine ==
  ASSUME VInv, Doing("flush", "decoder") \/ Doing("close", "decoder")
  PROVE  loop["submit"] = "out" /\ loop["decode"] = "out"
<1>1. todo \in Seq(Operations) /\ todo # <<>> /\ Head(todo) \in EngineOps
  BY DEF VInv, VdecTypeOK, Doing, EngineOps
<1>2. 1 \in DOMAIN todo /\ todo[1] \in EngineOps
  BY <1>1, TailIs
<1>3. \A i \in 1 .. 1 - 1 : FALSE
  OBVIOUS
<1>4. \A w \in {"submit", "decode"} : status[w] \in {"off", "parked"}
  BY <1>2, <1>3 DEF VInv, ParkComesFirst
<1> QED
  BY <1>4 DEF VInv, ParkedAreOut, Workers

LEMMA MsgOnComponentVInv ==
  ASSUME VInv, MsgOnComponent
  PROVE  VInv'
<1> USE DEF component, eos, flush, change, decoder
<1>1. CASE MsgFlush \/ MsgClose
  <2>1. PICK op \in {"flush", "close"} : Doing(op, "decoder")
    BY <1>1 DEF MsgFlush, MsgClose
  <2>2. /\ Done /\ headers' = 0 /\ submitted' = 0 /\ decoded' = 0 /\ pictures' = <<>>
        /\ UNCHANGED <<sent, inbox, threads, m_state, enabled, bVdrvNotifyEosFlag, flush, change,
                       vdecSize>>
        /\ bInputEosFlag' \in {FALSE, bInputEosFlag}
        /\ bHadInitDecoderFlag' \in {FALSE, bHadInitDecoderFlag}
    BY <1>1 DEF MsgFlush, MsgClose, NoData
  <2>3. 0 \in 0 .. Len(Stream) /\ <<>> \in Seq(Nat)
    BY VdecAssumption
  <2>4. todo' \in Seq(Operations)
    BY <2>1, <2>2, DoneTypes DEF VInv
  <2>5. bInputEosFlag' \in BOOLEAN /\ bHadInitDecoderFlag' \in BOOLEAN
    BY <2>2 DEF VInv, VdecTypeOK
  <2>6. VdecTypeOK'
    BY <2>2, <2>3, <2>4, <2>5 DEF VInv, VdecTypeOK, threads
  <2>7. OneUnderWay' /\ ParkedAreOut' /\ ParkComesFirst' /\ QuitPosts' /\ (Quitting => Quitting')
    BY <2>1, <2>2, <2>6, OperationFrame
  <2>8. loop["decode"] = "out" /\ loop' = loop
    BY <2>1, <2>2, QuietEngine DEF threads
  <2>9. Quitting \/ PicturesCounted'
    BY <2>2, <2>8 DEF VInv, PicturesCounted
  <2> QED
    BY <2>2, <2>6, <2>7, <2>8, <2>9 DEF VInv, ChangeIsSeen, InChange
<1>2. CASE MsgClearChange
  <2>1. /\ Doing("clear", "change") /\ Done /\ bResolutionChangeFlag' = FALSE
        /\ changeLost' = (portSize # headerSize)
        /\ UNCHANGED <<sent, inbox, threads, component, eos, flush, portSize, headerSize, decoder,
                       headers>>
    BY <1>2 DEF MsgClearChange
  <2>2. todo' \in Seq(Operations) /\ changeLost' \in BOOLEAN
    BY <2>1, DoneTypes DEF VInv
  <2>3. VdecTypeOK'
    BY <2>1, <2>2 DEF VInv, VdecTypeOK, threads
  <2>4. OneUnderWay' /\ ParkedAreOut' /\ ParkComesFirst' /\ QuitPosts' /\ (Quitting => Quitting')
    BY <2>1, <2>3, OperationFrame
  <2>5. Quitting' \/ PicturesCounted'
    BY <2>1, <2>4 DEF VInv, PicturesCounted, Uncounted, threads
  <2> QED
    BY <2>1, <2>3, <2>4, <2>5 DEF VInv, ChangeIsSeen, threads
<1>3. CASE MsgPostFlushed
  <2>1. /\ Doing("post", "flushed") /\ Done /\ semFlushAllFrame' = 1
        /\ UNCHANGED <<sent, inbox, threads, component, eos, bFlushingPicFlag,
                       nNeedToFlushPicNum, miscounted, change, decoder, headers>>
    BY <1>3 DEF MsgPostFlushed
  <2>2. todo' \in Seq(Operations)
    BY <2>1, DoneTypes DEF VInv
  <2>3. VdecTypeOK'
    BY <2>1, <2>2 DEF VInv, VdecTypeOK, threads
  <2>4. OneUnderWay' /\ ParkedAreOut' /\ ParkComesFirst' /\ QuitPosts' /\ (Quitting => Quitting')
    BY <2>1, <2>3, OperationFrame
  <2>5. Quitting
    <3>1. todo \in Seq(Operations) /\ todo # <<>> /\ Head(todo) = <<"post", "flushed">>
      BY <2>1 DEF VInv, VdecTypeOK, Doing
    <3>2. 1 \in DOMAIN todo /\ todo[1] = <<"post", "flushed">>
      BY <3>1, TailIs
    <3> QED
      BY <3>2 DEF VInv, QuitPosts
  <2> QED
    BY <2>1, <2>3, <2>4, <2>5 DEF VInv, ChangeIsSeen, threads
<1>4. ASSUME NEW op \in {"flush", "stop", "free", "populate", "settle"}, NEW on, Doing(op, on), Done,
             UNCHANGED <<sent, inbox, threads, bHadInitDecoderFlag, eos, flush,
                         bResolutionChangeFlag, changeLost, portSize, decoder>>,
             m_state' \in {"Idle", "Executing", "Pause"}, enabled' \in BOOLEAN,
             headerSize' \in {headerSize, portSize}, headers' \in Nat
      PROVE  VInv'
  <2>1. todo' \in Seq(Operations)
    BY <1>4, DoneTypes DEF VInv
  <2>2. VdecTypeOK'
    BY <1>4, <2>1 DEF VInv, VdecTypeOK, threads
  <2>3. OneUnderWay' /\ ParkedAreOut' /\ ParkComesFirst' /\ QuitPosts' /\ (Quitting => Quitting')
    BY <1>4, <2>2, OperationFrame
  <2>4. Quitting' \/ PicturesCounted'
    BY <1>4, <2>3 DEF VInv, PicturesCounted, Uncounted, threads
  <2> QED
    BY <1>4, <2>2, <2>3, <2>4 DEF VInv, ChangeIsSeen, threads
<1>5. /\ m_state \in {"Idle", "Executing", "Pause"} /\ enabled \in BOOLEAN /\ headers \in Nat
  BY DEF VInv, VdecTypeOK
<1>6. CASE MsgFlushPorts
  BY <1>4, <1>5, <1>6 DEF MsgFlushPorts
<1>7. CASE MsgStopPort
  BY <1>4, <1>5, <1>7 DEF MsgStopPort
<1>8. CASE MsgFreed
  BY <1>4, <1>5, <1>8 DEF MsgFreed
<1>9. CASE MsgPopulated
  BY <1>4, <1>5, <1>9 DEF MsgPopulated
<1>10. CASE MsgNotPopulated
  BY <1>4, <1>5, <1>10 DEF MsgNotPopulated
<1>11. ASSUME NEW st \in {"Idle", "Executing", "Pause"}, MsgSettle(st) PROVE VInv'
  BY <1>4, <1>5, <1>11 DEF MsgSettle
<1> QED
  BY <1>1, <1>2, <1>3, <1>6, <1>7, <1>8, <1>9, <1>10, <1>11 DEF MsgOnComponent

\* A step of the others leaves the program, and the submit and decode threads' status.
LEMMA ProgramStays ==
  ASSUME VInv, todo' = todo, status'["submit"] = status["submit"],
         status'["decode"] = status["decode"]
  PROVE  ParkComesFirst' /\ QuitPosts' /\ (Quitting' <=> Quitting)
  BY DEF VInv, ParkComesFirst, QuitPosts, Quitting

LEMMA ClientVInv ==
  ASSUME VInv, Client \/ FillThisBuffer \/ Prepare
  PROVE  VInv'
<1> USE DEF component, eos, flush, change, decoder, command, threads
<1>1. UNCHANGED <<todo, status, loop, enabled, m_state, eos, flush, change, submitted, decoded, pictures>>
  BY DEF Client, Send, SendEnable, FillThisBuffer, Prepare
<1>2. inbox' \in Seq(AllKinds \cup {"Enable", "Start"}) /\ sent' \in Nat
  <2>1. CASE \E k \in Kinds : Send(k)
    <3>1. PICK k \in Kinds : sent' = sent + 1 /\ inbox' = <<k>>
      BY <2>1 DEF Send
    <3>2. k \in AllKinds
      BY VdecAssumption
    <3> QED
      BY <3>1, <3>2 DEF VInv, VdecTypeOK
  <2>2. CASE SendEnable
    BY <2>2 DEF SendEnable, VInv, VdecTypeOK
  <2>3. CASE FillThisBuffer
    BY <2>3 DEF FillThisBuffer, VInv, VdecTypeOK
  <2>4. CASE Prepare
    <3>1. sent' = sent /\ inbox' = Append(inbox, "Start") /\ "Start" \in AllKinds \cup {"Enable", "Start"}
      BY <2>4 DEF Prepare
    <3>2. inbox \in Seq(AllKinds \cup {"Enable", "Start"})
      BY DEF VInv, VdecTypeOK
    <3> HIDE DEF component, eos, flush, change, decoder, command, threads
    <3> QED
      BY <3>1, <3>2 DEF VInv, VdecTypeOK
  <2> QED
    BY <2>1, <2>2, <2>3, <2>4 DEF Client
<1>3. headers' \in Nat /\ vdecSize' \in Nat /\ bHadInitDecoderFlag' \in BOOLEAN
  <2>1. Stream[1] \in Nat
    BY VdecAssumption
  <2>2. headers' = headers \/ headers' = headers + 1
    BY DEF Client, Send, SendEnable, FillThisBuffer, Prepare
  <2>3. vdecSize' = vdecSize \/ vdecSize' = Stream[1]
    BY DEF Client, Send, SendEnable, FillThisBuffer, Prepare
  <2>4. bHadInitDecoderFlag' = bHadInitDecoderFlag \/ bHadInitDecoderFlag' = TRUE
    BY DEF Client, Send, SendEnable, FillThisBuffer, Prepare
  <2>5. headers \in Nat /\ vdecSize \in Nat /\ bHadInitDecoderFlag \in BOOLEAN
    BY DEF VInv, VdecTypeOK
  <2>6. bHadInitDecoderFlag' \in BOOLEAN
    BY <2>4, <2>5
  <2> QED
    BY <2>1, <2>2, <2>3, <2>5, <2>6
<1>4. VdecTypeOK'
  BY <1>1, <1>2, <1>3 DEF VInv, VdecTypeOK
<1>5. OneUnderWay' /\ ParkedAreOut'
  BY <1>1 DEF VInv, OneUnderWay, ParkedAreOut, Doing
<1>6. ParkComesFirst' /\ QuitPosts' /\ (Quitting' <=> Quitting)
  BY <1>1, ProgramStays
<1>7. Quitting' \/ PicturesCounted'
  BY <1>1, <1>6 DEF VInv, PicturesCounted, Uncounted
<1> QED
  BY <1>1, <1>4, <1>5, <1>6, <1>7 DEF VInv, ChangeIsSeen

LEMMA ContinueIs ==
  ASSUME VdecTypeOK, NEW w \in Workers, NEW point \in LoopPoints, Continue(w, point)
  PROVE  /\ loop' \in [Workers -> LoopPoints] /\ loop'[w] = point
         /\ \A v \in Workers : v # w => loop'[v] = loop[v]
  BY DEF VdecTypeOK, Continue

\* A worker inside its loop function is running, or asked to park.
LEMMA BusyRuns ==
  ASSUME VInv, NEW w \in Workers, loop[w] # "out"
  PROVE  status[w] \in {"running", "pausing"}
  BY DEF VInv, VdecTypeOK, ParkedAreOut

\* A worker moves in its loop function, and leaves all status alone.
LEMMA LoopFrame ==
  ASSUME VInv, NEW w \in Workers, UNCHANGED <<command, status>>,
         status[w] \in {"running", "pausing"},
         NEW point \in LoopPoints, Continue(w, point), point # "parking",
         w = "submit" => point \in {"out", "work"},
         w = "drain" => point \in {"out", "work", "copy", "gave", "missed"}
  PROVE  /\ OneUnderWay' /\ ParkedAreOut' /\ ParkComesFirst' /\ QuitPosts' /\ (Quitting' <=> Quitting)
         /\ loop' \in [Workers -> LoopPoints] /\ loop'[w] = point
         /\ \A v \in Workers : v # w => loop'[v] = loop[v]
<1>1. /\ loop' \in [Workers -> LoopPoints] /\ loop'[w] = point
      /\ \A v \in Workers : v # w => loop'[v] = loop[v]
  BY ContinueIs DEF VInv
<1>2. OneUnderWay'
  BY DEF VInv, OneUnderWay, Doing, command
<1>3. ParkedAreOut'
  BY <1>1 DEF VInv, ParkedAreOut, Doing, command, Workers
<1>4. ParkComesFirst' /\ QuitPosts' /\ (Quitting' <=> Quitting)
  BY ProgramStays DEF command
<1> QED
  BY <1>1, <1>2, <1>3, <1>4

LEMMA EnterLoopVInv ==
  ASSUME VInv, NEW w \in Workers, EnterLoop(w)
  PROVE  VInv'
<1> USE DEF component, eos, flush, change, decoder, command, Workers
<1>1. /\ status[w] \in {"running", "pausing"} /\ loop[w] = "out" /\ Continue(w, "work")
      /\ "work" \in LoopPoints /\ (w = "drain" => ~bResolutionChangeFlag)
      /\ UNCHANGED <<command, status, component, eos, flush, change, decoder, headers>>
  BY DEF EnterLoop, Ready, LoopPoints
<1>2. /\ OneUnderWay' /\ ParkedAreOut' /\ ParkComesFirst' /\ QuitPosts' /\ (Quitting' <=> Quitting)
      /\ loop' \in [Workers -> LoopPoints] /\ loop'[w] = "work"
      /\ \A v \in Workers : v # w => loop'[v] = loop[v]
  BY <1>1, LoopFrame
<1>3. VdecTypeOK'
  BY <1>1, <1>2 DEF VInv, VdecTypeOK
<1>4. Quitting' \/ PicturesCounted'
  BY <1>1, <1>2 DEF VInv, PicturesCounted, Uncounted
<1>5. ChangeIsSeen'
  BY <1>1, <1>2 DEF VInv, ChangeIsSeen
<1>6. loop'["decode"] \in InChange => decoded' < submitted'
  BY <1>1, <1>2 DEF VInv, InChange
<1> QED
  BY <1>2, <1>3, <1>4, <1>5, <1>6 DEF VInv

LEMMA SubmitVInv ==
  ASSUME VInv, Submit
  PROVE  VInv'
<1> USE DEF component, eos, flush, change, decoder, command, Workers
<1>1. /\ loop["submit"] = "work" /\ Continue("submit", "out") /\ "out" \in LoopPoints
      /\ UNCHANGED <<command, status, component, bVdrvNotifyEosFlag, flush, change,
                     decoded, vdecSize, pictures, headers>>
  BY DEF Submit, LoopPoints
<1>2. /\ OneUnderWay' /\ ParkedAreOut' /\ ParkComesFirst' /\ QuitPosts' /\ (Quitting' <=> Quitting)
      /\ loop' \in [Workers -> LoopPoints] /\ loop'["submit"] = "out"
      /\ \A v \in Workers : v # "submit" => loop'[v] = loop[v]
  BY <1>1, LoopFrame, BusyRuns
<1>3. submitted' \in 0 .. Len(Stream) /\ submitted' >= submitted /\ bInputEosFlag' \in BOOLEAN
  <2>1. Len(Stream) \in Nat
    BY VdecAssumption
  <2>2. CASE submitted < Len(Stream)
    <3>1. submitted' = submitted + 1 /\ bInputEosFlag' \in BOOLEAN
      BY <2>2 DEF Submit, VInv, VdecTypeOK
    <3> QED
      BY <2>1, <2>2, <3>1 DEF VInv, VdecTypeOK
  <2>3. CASE ~(submitted < Len(Stream))
    BY <2>1, <2>3 DEF Submit, VInv, VdecTypeOK
  <2> QED
    BY <2>2, <2>3
<1>4. VdecTypeOK'
  BY <1>1, <1>2, <1>3 DEF VInv, VdecTypeOK
<1>5. Quitting' \/ PicturesCounted'
  BY <1>1, <1>2 DEF VInv, PicturesCounted, Uncounted
<1>6. loop'["decode"] \in InChange => decoded' < submitted'
  <2>1. loop["decode"] \in InChange => decoded < submitted
    BY DEF VInv
  <2>2. decoded' = decoded /\ decoded \in Int /\ submitted \in Int /\ submitted' \in Int
        /\ loop'["decode"] = loop["decode"]
    BY <1>1, <1>2, <1>3, VdecAssumption DEF VInv, VdecTypeOK
  <2> QED
    BY <1>3, <2>1, <2>2
<1> QED
  BY <1>1, <1>2, <1>4, <1>5, <1>6 DEF VInv, ChangeIsSeen

\* The steps of the decode thread that stay in its own loop function.
LEMMA DecodeVInv ==
  ASSUME VInv, DecodeFrame \/ DecodeEnd \/ ChangeSeen \/ AskFlush \/ FlushSeen \/ liReopenVideoEngine
  PROVE  VInv'
<1> USE DEF component, eos, flush, change, decoder, command, Workers
<1>0. /\ decoded \in Nat /\ submitted \in Nat /\ pictures \in Seq(Nat) /\ Len(pictures) \in Nat
      /\ Len(Stream) \in Nat /\ decoded <= Len(Stream) /\ submitted <= Len(Stream)
      /\ nNeedToFlushPicNum \in Int /\ semFlushAllFrame \in 0 .. 1
      /\ bFlushingPicFlag \in BOOLEAN /\ miscounted \in BOOLEAN /\ vdecSize \in Nat
      /\ bVdrvNotifyEosFlag \in BOOLEAN /\ bInputEosFlag \in BOOLEAN
  BY VdecAssumption DEF VInv, VdecTypeOK
<1>1. HasData => NextSize \in Nat /\ decoded + 1 \in 0 .. Len(Stream)
  <2>1. Stream \in Seq(Nat)
    BY VdecAssumption
  <2> QED
    BY <1>0, <2>1 DEF HasData, NextSize
<1>2. ASSUME NEW point \in {"out", "ask", "await", "park", "unpark"}, Continue("decode", point),
             loop["decode"] # "out", UNCHANGED <<command, status, component, change, submitted, headers>>,
             decoded' \in 0 .. Len(Stream), vdecSize' \in Nat, pictures' \in Seq(Nat),
             bVdrvNotifyEosFlag' \in BOOLEAN, bInputEosFlag' = bInputEosFlag,
             bFlushingPicFlag' \in BOOLEAN, nNeedToFlushPicNum' \in Int,
             semFlushAllFrame' \in 0 .. 1, miscounted' \in BOOLEAN,
             point \in {"ask", "await", "park"} => decoded' < submitted,
             Quitting \/ (loop'["decode"] = point /\ loop'["drain"] = loop["drain"] => PicturesCounted')
      PROVE  VInv'
  <2>0. point \in LoopPoints /\ point # "parking"
    BY <1>2 DEF LoopPoints
  <2>1. /\ OneUnderWay' /\ ParkedAreOut' /\ ParkComesFirst' /\ QuitPosts' /\ (Quitting' <=> Quitting)
        /\ loop' \in [Workers -> LoopPoints] /\ loop'["decode"] = point
        /\ \A v \in Workers : v # "decode" => loop'[v] = loop[v]
    BY <1>2, <2>0, LoopFrame, BusyRuns
  <2>2. VdecTypeOK'
    BY <1>2, <2>1 DEF VInv, VdecTypeOK
  <2>3. loop'["decode"] \in InChange => decoded' < submitted'
    BY <1>2, <2>1 DEF InChange
  <2>4. Quitting' \/ PicturesCounted'
    BY <1>2, <2>1
  <2>5. ChangeIsSeen'
    BY <1>2, <2>1 DEF VInv, ChangeIsSeen
  <2> QED
    BY <2>1, <2>2, <2>3, <2>4, <2>5 DEF VInv
<1>3. CASE DecodeFrame
  <2>1. /\ loop["decode"] = "work" /\ Continue("decode", "out")
        /\ UNCHANGED <<command, status, component, eos, flush, change, submitted, vdecSize, headers>>
    BY <1>3 DEF DecodeFrame
  <2>2. decoded' \in 0 .. Len(Stream) /\ pictures' \in Seq(Nat)
    <3>1. CASE Len(pictures) < MaxPictures
      <4>1. pictures' = Append(pictures, vdecSize) /\ decoded' = decoded + 1 /\ HasData
        BY <1>3, <3>1 DEF DecodeFrame
      <4>2. Append(pictures, vdecSize) \in Seq(Nat)
        BY <1>0
      <4> QED
        BY <1>1, <4>1, <4>2
    <3>2. CASE ~(Len(pictures) < MaxPictures)
      BY <1>0, <1>3, <3>2 DEF DecodeFrame
    <3> QED
      BY <3>1, <3>2
  <2>3. Quitting \/ (loop'["decode"] = "out" => PicturesCounted')
    BY <2>1 DEF VInv, PicturesCounted
  <2> QED
    BY <1>0, <1>2, <2>1, <2>2, <2>3
<1>4. CASE DecodeEnd
  <2>1. /\ loop["decode"] = "work" /\ Continue("decode", "out")
        /\ UNCHANGED <<command, status, component, bInputEosFlag, flush, change, decoder, headers>>
    BY <1>4 DEF DecodeEnd
  <2>2. bVdrvNotifyEosFlag' \in BOOLEAN
    <3>1. bVdrvNotifyEosFlag' = (bVdrvNotifyEosFlag \/ bInputEosFlag)
      BY <1>4 DEF DecodeEnd
    <3> QED
      BY <3>1
  <2>3. Quitting \/ (loop'["decode"] = "out" => PicturesCounted')
    BY <2>1 DEF VInv, PicturesCounted
  <2>4. decoded' \in 0 .. Len(Stream)
    BY <1>0, <2>1
  <2> QED
    BY <1>0, <1>2, <2>1, <2>2, <2>3, <2>4
<1>5. CASE ChangeSeen
  <2>1. /\ loop["decode"] = "work" /\ Continue("decode", "ask") /\ HasData
        /\ nNeedToFlushPicNum' = Len(pictures) /\ miscounted' = (loop["drain"] = "gave")
        /\ UNCHANGED <<command, status, component, eos, bFlushingPicFlag, semFlushAllFrame,
                       change, decoder, headers>>
    BY <1>5 DEF ChangeSeen
  <2>2. Quitting \/ (loop'["decode"] = "ask" /\ loop'["drain"] = loop["drain"] => PicturesCounted')
    <3>1. Quitting \/ (~bFlushingPicFlag /\ ~(semFlushAllFrame > 0))
      BY <2>1 DEF VInv, PicturesCounted
    <3>2. loop["drain"] = "gave" \/ Len(pictures) + Uncounted <= Len(pictures)
      BY <1>0 DEF Uncounted
    <3>3. SUFFICES ASSUME ~Quitting, loop'["decode"] = "ask", loop'["drain"] = loop["drain"]
                   PROVE  PicturesCounted'
      OBVIOUS
    <3>4. Uncounted' = Uncounted /\ Len(pictures)' = Len(pictures)
      BY <2>1, <3>3 DEF Uncounted
    <3>5. miscounted' \/ (Len(pictures) + Uncounted)' <= nNeedToFlushPicNum'
      <4>1. CASE loop["drain"] = "gave"
        BY <2>1, <4>1
      <4>2. CASE loop["drain"] # "gave"
        BY <2>1, <3>2, <3>4, <4>2
      <4> QED
        BY <4>1, <4>2
    <3>6. ~bFlushingPicFlag' /\ ~(semFlushAllFrame > 0)'
      BY <2>1, <3>1, <3>3
    <3> QED
      BY <3>3, <3>5, <3>6 DEF PicturesCounted
  <2>3. decoded' \in 0 .. Len(Stream) /\ decoded' < submitted /\ miscounted' \in BOOLEAN
        /\ nNeedToFlushPicNum' \in Int
    BY <1>0, <2>1 DEF HasData
  <2> QED
    BY <1>0, <1>2, <2>1, <2>2, <2>3
<1>6. CASE AskFlush
  <2>1. /\ loop["decode"] = "ask" /\ Continue("decode", "await") /\ bFlushingPicFlag' = TRUE
        /\ UNCHANGED <<command, status, component, eos, nNeedToFlushPicNum, semFlushAllFrame,
                       miscounted, change, decoder, headers>>
    BY <1>6 DEF AskFlush
  <2>2. Quitting \/ (loop'["decode"] = "await" /\ loop'["drain"] = loop["drain"] => PicturesCounted')
    BY <1>0, <2>1 DEF VInv, PicturesCounted, Uncounted
  <2>3. decoded' \in 0 .. Len(Stream) /\ decoded' < submitted
    BY <1>0, <2>1 DEF VInv, InChange
  <2> QED
    BY <1>0, <1>2, <2>1, <2>2, <2>3
<1>7. CASE FlushSeen
  <2>1. /\ loop["decode"] = "await" /\ Continue("decode", "park") /\ semFlushAllFrame > 0
        /\ semFlushAllFrame' = semFlushAllFrame - 1
        /\ UNCHANGED <<command, status, component, eos, bFlushingPicFlag, nNeedToFlushPicNum,
                       miscounted, change, decoder, headers>>
    BY <1>7 DEF FlushSeen
  <2>2. Quitting \/ (loop'["decode"] = "park" /\ loop'["drain"] = loop["drain"] => PicturesCounted')
    BY <1>0, <2>1 DEF VInv, PicturesCounted, Uncounted
  <2>3. decoded' \in 0 .. Len(Stream) /\ decoded' < submitted /\ semFlushAllFrame' \in 0 .. 1
    BY <1>0, <2>1 DEF VInv, InChange
  <2> QED
    BY <1>0, <1>2, <2>1, <2>2, <2>3
<1>8. CASE liReopenVideoEngine
  <2>1. /\ loop["decode"] = "reopen" /\ Continue("decode", "unpark") /\ vdecSize' = NextSize
        /\ pictures' = <<>>
        /\ UNCHANGED <<command, status, component, eos, flush, change, submitted, decoded, headers>>
    BY <1>8 DEF liReopenVideoEngine
  <2>2. Quitting \/ (loop'["decode"] = "unpark" => PicturesCounted')
    BY <1>0, <2>1 DEF VInv, PicturesCounted
  <2>3. decoded' \in 0 .. Len(Stream) /\ vdecSize' \in Nat /\ pictures' \in Seq(Nat)
    BY <1>0, <1>1, <2>1 DEF VInv, InChange, HasData
  <2> QED
    BY <1>0, <1>2, <2>1, <2>2, <2>3
<1> QED
  BY <1>3, <1>4, <1>5, <1>6, <1>7, <1>8

\* Its steps that park and resume the drain thread.
LEMMA DecodeParksVInv ==
  ASSUME VInv, ParkDrain \/ DrainParked \/ ResumeDrain
  PROVE  VInv'
<1> USE DEF component, eos, flush, change, decoder, command, Workers
<1>1. PICK st, point : /\ status' = [status EXCEPT !["drain"] = st] /\ Continue("decode", point)
                       /\ \/ /\ loop["decode"] = "park" /\ point = "parking" /\ st = "pausing"
                             /\ status["drain"] = "running" /\ ~Locked("drain")
                          \/ /\ loop["decode"] = "park" /\ point = "reopen" /\ st = status["drain"]
                          \/ /\ loop["decode"] = "parking" /\ point = "reopen" /\ st = "parked"
                             /\ loop["drain"] = "out"
                          \/ /\ loop["decode"] = "unpark" /\ point = "out"
                             /\ st = IF status["drain"] = "parked" THEN "running" ELSE status["drain"]
  <2>1. status = [status EXCEPT !["drain"] = status["drain"]]
    BY DEF VInv, VdecTypeOK
  <2> QED
    BY <2>1 DEF ParkDrain, DrainParked, ResumeDrain, Set
<1>2. UNCHANGED <<command, component, eos, flush, change, decoder, headers>>
  BY DEF ParkDrain, DrainParked, ResumeDrain
<1>3. /\ status' \in [Workers -> {"off", "running", "pausing", "parked"}] /\ status'["drain"] = st
      /\ \A v \in Workers : v # "drain" => status'[v] = status[v]
  <2>1. st \in {"off", "running", "pausing", "parked"}
    BY <1>1 DEF VInv, VdecTypeOK
  <2> QED
    BY <1>1, <2>1 DEF VInv, VdecTypeOK
<1>4. /\ loop' \in [Workers -> LoopPoints] /\ loop'["decode"] = point
      /\ \A v \in Workers : v # "decode" => loop'[v] = loop[v]
  <2>1. point \in LoopPoints
    BY <1>1 DEF LoopPoints
  <2> QED
    BY <1>1, <2>1, ContinueIs DEF VInv
<1>5. VdecTypeOK'
  BY <1>2, <1>3, <1>4 DEF VInv, VdecTypeOK
<1>6. ParkComesFirst' /\ QuitPosts' /\ (Quitting' <=> Quitting)
  BY <1>2, <1>3, ProgramStays
<1>7. status["decode"] \in {"running", "pausing"}
  BY <1>1, BusyRuns
<1>8. \A w \in Workers : (Doing("parking", w)' <=> Doing("parking", w))
                         /\ (Doing("exiting", w)' <=> Doing("exiting", w))
  BY <1>2 DEF Doing
<1>9. OneUnderWay'
  <2>1. \A i \in DOMAIN todo' : i > 1 => todo'[i][1] \notin {"parking", "exiting"}
    BY <1>2 DEF VInv, OneUnderWay
  <2>2. Doing("parking", "drain") => st = "pausing"
    BY <1>1 DEF VInv, OneUnderWay, ParkedAreOut
  <2>3. Doing("exiting", "drain") => st = "running"
    BY <1>1 DEF VInv, OneUnderWay, ParkedAreOut, Locked
  <2>4. \A w \in Workers : /\ Doing("parking", w) => status[w] = "pausing"
                           /\ Doing("exiting", w) => status[w] = "running"
    BY DEF VInv, OneUnderWay
  <2> QED
    BY <1>3, <1>8, <2>1, <2>2, <2>3, <2>4 DEF OneUnderWay
<1>10. ParkedAreOut'
  <2>1. \A w \in Workers : status[w] \in {"off", "parked"} => loop[w] = "out"
    BY DEF VInv, ParkedAreOut
  <2>2. \A w \in Workers : status'[w] \in {"off", "parked"} => loop'[w] = "out"
    BY <1>1, <1>3, <1>4, <1>7, <2>1
  <2>3. point = "parking" => st = "pausing" /\ ~Doing("parking", "drain")
    BY <1>1 DEF VInv, OneUnderWay
  <2> QED
    BY <1>3, <1>4, <1>8, <2>2, <2>3 DEF VInv, ParkedAreOut
<1>11. Quitting' \/ PicturesCounted'
  BY <1>1, <1>2, <1>4, <1>6 DEF VInv, PicturesCounted, Uncounted
<1>12. loop'["decode"] \in InChange => decoded' < submitted'
  BY <1>1, <1>2, <1>4 DEF VInv, InChange
<1>13. ChangeIsSeen'
  BY <1>2, <1>4 DEF VInv, ChangeIsSeen
<1> QED
  BY <1>5, <1>6, <1>9, <1>10, <1>11, <1>12, <1>13 DEF VInv

\* The drain thread.
LEMMA DrainVInv ==
  ASSUME VInv, Drain
  PROVE  VInv'
<1> USE DEF component, eos, flush, change, decoder, command, Workers
<1>0. /\ pictures \in Seq(Nat) /\ Len(pictures) \in Nat /\ headers \in Nat
      /\ nNeedToFlushPicNum \in Int /\ semFlushAllFrame \in 0 .. 1
      /\ bFlushingPicFlag \in BOOLEAN /\ miscounted \in BOOLEAN
      /\ bVdrvNotifyEosFlag \in BOOLEAN /\ bResolutionChangeFlag \in BOOLEAN /\ portSize \in Nat
  BY DEF VInv, VdecTypeOK
<1>1. ASSUME NEW point \in {"out", "copy", "gave", "missed"}, Continue("drain", point),
             loop["drain"] # "out",
             UNCHANGED <<command, status, component, bInputEosFlag, changeLost, headerSize,
                         submitted, decoded, vdecSize>>,
             pictures' \in Seq(Nat), headers' \in Nat, portSize' \in Nat,
             bResolutionChangeFlag' \in BOOLEAN, bVdrvNotifyEosFlag' \in BOOLEAN,
             bFlushingPicFlag' \in BOOLEAN, nNeedToFlushPicNum' \in Int,
             semFlushAllFrame' \in 0 .. 1, miscounted' \in BOOLEAN,
             Quitting \/ (loop'["drain"] = point /\ loop'["decode"] = loop["decode"] => PicturesCounted'),
             loop'["drain"] = point => ChangeIsSeen'
      PROVE  VInv'
  <2>0. point \in LoopPoints /\ point # "parking"
    BY <1>1 DEF LoopPoints
  <2>1. /\ OneUnderWay' /\ ParkedAreOut' /\ ParkComesFirst' /\ QuitPosts' /\ (Quitting' <=> Quitting)
        /\ loop' \in [Workers -> LoopPoints] /\ loop'["drain"] = point
        /\ \A v \in Workers : v # "drain" => loop'[v] = loop[v]
    BY <1>1, <2>0, LoopFrame, BusyRuns
  <2>2. VdecTypeOK'
    BY <1>1, <2>1 DEF VInv, VdecTypeOK
  <2>3. loop'["decode"] \in InChange => decoded' < submitted'
    BY <1>1, <2>1 DEF VInv, InChange
  <2>4. Quitting' \/ PicturesCounted'
    BY <1>1, <2>1
  <2> QED
    BY <1>1, <2>1, <2>2, <2>3, <2>4 DEF VInv
<1>2. CASE DrainNothing
  <2>1. /\ loop["drain"] = "work" /\ Continue("drain", "missed")
        /\ UNCHANGED <<command, status, component, eos, flush, change, decoder, headers>>
    BY <1>2 DEF DrainNothing
  <2>2. Quitting \/ (loop'["drain"] = "missed" /\ loop'["decode"] = loop["decode"] => PicturesCounted')
    BY <2>1 DEF VInv, PicturesCounted, Uncounted
  <2>3. loop'["drain"] = "missed" => ChangeIsSeen'
    BY <2>1 DEF VInv, ChangeIsSeen
  <2> QED
    BY <1>0, <1>1, <2>1, <2>2, <2>3
<1>3. CASE DrainSeesChange
  <2>1. /\ loop["drain"] = "work" /\ Continue("drain", "missed") /\ pictures # <<>>
        /\ portSize' = Head(pictures) /\ bResolutionChangeFlag' = TRUE
        /\ UNCHANGED <<command, status, component, eos, flush, changeLost, headerSize, decoder, headers>>
    BY <1>3 DEF DrainSeesChange
  <2>2. Quitting \/ (loop'["drain"] = "missed" /\ loop'["decode"] = loop["decode"] => PicturesCounted')
    BY <2>1 DEF VInv, PicturesCounted, Uncounted
  <2>3. loop'["drain"] = "missed" => ChangeIsSeen'
    BY <2>1 DEF ChangeIsSeen
  <2>4. portSize' \in Nat
    BY <1>0, <2>1
  <2> QED
    BY <1>0, <1>1, <2>1, <2>2, <2>3, <2>4
<1>4. CASE DrainPeek
  <2>1. /\ loop["drain"] = "work" /\ Continue("drain", "copy") /\ headers > 0 /\ headers' = headers - 1
        /\ UNCHANGED <<command, status, component, eos, flush, change, decoder>>
    BY <1>4 DEF DrainPeek
  <2>2. Quitting \/ (loop'["drain"] = "copy" /\ loop'["decode"] = loop["decode"] => PicturesCounted')
    BY <2>1 DEF VInv, PicturesCounted, Uncounted
  <2>3. loop'["drain"] = "copy" => ChangeIsSeen'
    BY <2>1 DEF VInv, ChangeIsSeen
  <2>4. headers' \in Nat
    BY <1>0, <2>1
  <2> QED
    BY <1>0, <1>1, <2>1, <2>2, <2>3, <2>4
<1>5. CASE DrainCopy /\ pictures # <<>>
  <2>1. /\ loop["drain"] = "copy" /\ Continue("drain", "gave") /\ pictures' = Tail(pictures)
        /\ UNCHANGED <<command, status, component, eos, flush, change, submitted, decoded, vdecSize,
                       headers>>
    BY <1>5 DEF DrainCopy
  <2>2. pictures' \in Seq(Nat) /\ Len(pictures') = Len(pictures) - 1
    BY <1>0, <1>5, <2>1
  <2>3. Quitting \/ (loop'["drain"] = "gave" /\ loop'["decode"] = loop["decode"] => PicturesCounted')
    <3> SUFFICES ASSUME ~Quitting, loop'["drain"] = "gave", loop'["decode"] = loop["decode"]
                 PROVE  PicturesCounted'
      OBVIOUS
    <3>1. Len(pictures') + Uncounted' = Len(pictures) + Uncounted
      BY <1>0, <2>1, <2>2 DEF Uncounted
    <3> QED
      BY <1>5, <2>1, <3>1 DEF VInv, PicturesCounted
  <2>4. loop'["drain"] = "gave" => ChangeIsSeen'
    BY <2>1 DEF VInv, ChangeIsSeen
  <2> QED
    BY <1>0, <1>1, <2>1, <2>2, <2>3, <2>4
<1>6. CASE DrainCopy /\ pictures = <<>>
  <2>1. /\ loop["drain"] = "copy" /\ Continue("drain", "missed") /\ pictures' = pictures
        /\ UNCHANGED <<command, status, component, eos, flush, change, submitted, decoded, vdecSize,
                       headers>>
    BY <1>6 DEF DrainCopy
  <2>2. Quitting \/ (loop'["drain"] = "missed" /\ loop'["decode"] = loop["decode"] => PicturesCounted')
    BY <2>1 DEF VInv, PicturesCounted, Uncounted
  <2>3. loop'["drain"] = "missed" => ChangeIsSeen'
    BY <2>1 DEF VInv, ChangeIsSeen
  <2> QED
    BY <1>0, <1>1, <2>1, <2>2, <2>3
<1>7. CASE DrainGave
  <2>1. /\ loop["drain"] = "gave" /\ Continue("drain", "out")
        /\ nNeedToFlushPicNum' = nNeedToFlushPicNum - (IF bFlushingPicFlag THEN 1 ELSE 0)
        /\ UNCHANGED <<command, status, component, eos, bFlushingPicFlag, semFlushAllFrame,
                       miscounted, change, decoder, headers>>
    BY <1>7 DEF DrainGave
  <2>2. Quitting \/ (loop'["drain"] = "out" /\ loop'["decode"] = loop["decode"] => PicturesCounted')
    <3> SUFFICES ASSUME ~Quitting, loop'["drain"] = "out", loop'["decode"] = loop["decode"]
                 PROVE  PicturesCounted'
      OBVIOUS
    <3>1. Uncounted = 1 /\ Uncounted' = 0
      BY <2>1 DEF Uncounted
    <3>2. Len(pictures) + Uncounted <= nNeedToFlushPicNum => Len(pictures') + Uncounted' <= nNeedToFlushPicNum'
      <4>1. nNeedToFlushPicNum' >= nNeedToFlushPicNum - 1 /\ nNeedToFlushPicNum' \in Int
        BY <1>0, <2>1
      <4> QED
        BY <1>0, <2>1, <3>1, <4>1
    <3> QED
      BY <2>1, <3>2 DEF VInv, PicturesCounted
  <2>3. loop'["drain"] = "out" => ChangeIsSeen'
    BY <2>1 DEF VInv, ChangeIsSeen
  <2>4. nNeedToFlushPicNum' \in Int
    BY <1>0, <2>1
  <2> QED
    BY <1>0, <1>1, <2>1, <2>2, <2>3, <2>4
<1>8. CASE DrainMissed
  <2>1. /\ loop["drain"] = "missed" /\ Continue("drain", "out")
        /\ UNCHANGED <<command, status, component, bInputEosFlag, change, decoder>>
    BY <1>8 DEF DrainMissed
  <2>2. Uncounted = 0
    BY <2>1 DEF Uncounted
  <2>3. loop'["drain"] = "out" => Uncounted' = 0
    BY DEF Uncounted
  <2>4. loop'["drain"] = "out" => ChangeIsSeen'
    BY <2>1 DEF VInv, ChangeIsSeen
  <2>5. ASSUME headers' \in Nat, bVdrvNotifyEosFlag' \in BOOLEAN, UNCHANGED flush
        PROVE  VInv'
    <3>1. Quitting \/ (loop'["drain"] = "out" /\ loop'["decode"] = loop["decode"] => PicturesCounted')
      BY <2>1, <2>2, <2>3, <2>5 DEF VInv, PicturesCounted
    <3> QED
      BY <1>0, <1>1, <2>1, <2>4, <2>5, <3>1
  <2>6. CASE SetOutputEos
    <3>1. headers' \in Nat
      BY <1>0, <2>6 DEF SetOutputEos
    <3>2. bVdrvNotifyEosFlag' \in BOOLEAN /\ UNCHANGED flush
      BY <2>6 DEF SetOutputEos
    <3> QED
      BY <2>5, <3>1, <3>2
  <2>7. CASE ~bVdrvNotifyEosFlag /\ ~bFlushingPicFlag /\ UNCHANGED <<flush, bVdrvNotifyEosFlag, headers>>
    BY <1>0, <2>5, <2>7
  <2>8. CASE FlushDone
    <3>1. /\ bFlushingPicFlag /\ nNeedToFlushPicNum <= 0
          /\ bFlushingPicFlag' = FALSE /\ semFlushAllFrame' = 1
          /\ UNCHANGED <<nNeedToFlushPicNum, miscounted, bVdrvNotifyEosFlag, headers>>
      BY <2>8 DEF FlushDone
    <3>2. Quitting \/ (loop["decode"] = "await" /\ (miscounted \/ pictures = <<>>))
      <4>1. SUFFICES ASSUME ~Quitting, ~miscounted PROVE loop["decode"] = "await" /\ pictures = <<>>
        BY <3>1 DEF VInv, PicturesCounted
      <4>2. loop["decode"] = "await" /\ Len(pictures) + Uncounted <= nNeedToFlushPicNum
        BY <3>1, <4>1 DEF VInv, PicturesCounted
      <4>3. Len(pictures) = 0
        BY <1>0, <2>2, <3>1, <4>2
      <4> QED
        BY <1>0, <4>2, <4>3
    <3>3. Quitting \/ (loop'["drain"] = "out" /\ loop'["decode"] = loop["decode"] => PicturesCounted')
      BY <2>1, <3>1, <3>2 DEF PicturesCounted
    <3>4. bFlushingPicFlag' \in BOOLEAN
      BY <3>1
    <3>5. semFlushAllFrame' \in 0 .. 1
      BY <3>1
    <3> QED
      BY <1>0, <1>1, <2>1, <2>4, <3>1, <3>3, <3>4, <3>5
  <2>9. CASE FlushCount
    <3>1. /\ bFlushingPicFlag /\ nNeedToFlushPicNum > 0
          /\ nNeedToFlushPicNum' = nNeedToFlushPicNum - 1
          /\ miscounted' = (miscounted \/ pictures # <<>>)
          /\ UNCHANGED <<bFlushingPicFlag, semFlushAllFrame, bVdrvNotifyEosFlag, headers>>
      BY <2>9 DEF FlushCount
    <3>2. miscounted' \in BOOLEAN /\ (~miscounted' => ~miscounted /\ pictures = <<>>)
      <4>1. miscounted' = (miscounted \/ pictures # <<>>)
        BY <3>1
      <4> QED
        BY <4>1
    <3>3. nNeedToFlushPicNum' \in Int /\ nNeedToFlushPicNum' >= 0
      BY <1>0, <3>1
    <3>4. Quitting \/ (loop'["drain"] = "out" /\ loop'["decode"] = loop["decode"] => PicturesCounted')
      <4> SUFFICES ASSUME ~Quitting, loop'["drain"] = "out", loop'["decode"] = loop["decode"]
                   PROVE  PicturesCounted'
        OBVIOUS
      <4>1. /\ bFlushingPicFlag' /\ loop'["decode"] = "await" /\ ~(semFlushAllFrame' > 0)
        BY <2>1, <3>1 DEF VInv, PicturesCounted
      <4>2. miscounted' \/ Len(pictures') + Uncounted' <= nNeedToFlushPicNum'
        <5>1. SUFFICES ASSUME ~miscounted' PROVE Len(pictures') + Uncounted' <= nNeedToFlushPicNum'
          OBVIOUS
        <5>2. pictures' = <<>>
          BY <2>1, <3>2, <5>1
        <5>3. Len(pictures') = 0
          BY <5>2
        <5> QED
          BY <2>3, <3>3, <5>3
      <4> QED
        BY <4>1, <4>2 DEF PicturesCounted
    <3> QED
      BY <1>0, <1>1, <2>1, <2>4, <3>1, <3>2, <3>3, <3>4
  <2> QED
    BY <1>8, <2>6, <2>7, <2>8, <2>9 DEF DrainMissed
<1> QED
  BY <1>2, <1>3, <1>4, <1>5, <1>6, <1>7, <1>8 DEF Drain

LEMMA InitVInv ==
  ASSUME VdecInit
  PROVE  VInv
<1>1. Stream[1] \in Nat /\ 0 \in 0 .. Len(Stream)
  BY VdecAssumption
<1>2. VdecTypeOK
  <2>1. status \in [Workers -> {"off", "running", "pausing", "parked"}] /\ loop \in [Workers -> LoopPoints]
    BY DEF VdecInit, LoopPoints
  <2>2. /\ inbox \in Seq(AllKinds \cup {"Enable", "Start"}) /\ todo \in Seq(Operations)
        /\ pictures \in Seq(Nat)
    BY DEF VdecInit
  <2>3. /\ enabled \in BOOLEAN /\ bHadInitDecoderFlag \in BOOLEAN
        /\ bResolutionChangeFlag \in BOOLEAN /\ changeLost \in BOOLEAN
        /\ bVdrvNotifyEosFlag \in BOOLEAN /\ bInputEosFlag \in BOOLEAN
        /\ bFlushingPicFlag \in BOOLEAN /\ miscounted \in BOOLEAN
    BY DEF VdecInit
  <2>4. /\ sent \in Nat /\ headers \in Nat /\ nNeedToFlushPicNum \in Int /\ semFlushAllFrame \in 0 .. 1
        /\ m_state \in {"Idle", "Executing", "Pause"}
        /\ vdecSize \in Nat /\ portSize \in Nat /\ headerSize \in Nat
        /\ decoded \in 0 .. Len(Stream) /\ submitted \in 0 .. Len(Stream)
    BY <1>1 DEF VdecInit
  <2> QED
    BY <2>1, <2>2, <2>3, <2>4 DEF VdecTypeOK
<1>3. \A op, on : ~Doing(op, on)
  BY DEF VdecInit, Doing
<1>4. DOMAIN todo = {}
  BY DEF VdecInit
<1>5. \A w \in Workers : loop[w] = "out"
  BY DEF VdecInit
<1>6. OneUnderWay /\ ParkedAreOut /\ ParkComesFirst /\ QuitPosts
  BY <1>3, <1>4, <1>5 DEF OneUnderWay, ParkedAreOut, ParkComesFirst, QuitPosts, Workers
<1>7. PicturesCounted
  BY <1>5 DEF VdecInit, PicturesCounted, Workers
<1> QED
  BY <1>2, <1>5, <1>6, <1>7 DEF VInv, VdecInit, ChangeIsSeen, InChange, Workers

LEMMA NextVInv ==
  ASSUME VInv, [VdecNext]_vdecVars
  PROVE  VInv'
<1>1. CASE UNCHANGED vdecVars
  BY <1>1
  DEF VInv, VdecTypeOK, OneUnderWay, ParkedAreOut, ParkComesFirst, QuitPosts, Quitting, Doing,
      PicturesCounted, Uncounted, ChangeIsSeen, InChange,
      vdecVars, command, threads, component, eos, flush, change, decoder
<1>2. CASE Message
  BY <1>2, TakeMessageVInv, MsgOnComponentVInv, MsgOnWorkerVInv DEF Message
<1>3. CASE Decode
  BY <1>3, DecodeVInv, DecodeParksVInv DEF Decode
<1> QED
  BY <1>1, <1>2, <1>3, ClientVInv, SubmitVInv, DrainVInv, EnterLoopVInv DEF VdecNext

(* The inductive invariant of the component: which operations of the message *)
(* thread's program are done, which worker each of them found or made to    *)
(* stop, and what the decode and the drain thread owe each other meanwhile. *)
THEOREM VInvHolds == VdecSpec => []VInv
<1>1. VdecInit => VInv
  BY InitVInv
<1>2. VInv /\ [VdecNext]_vdecVars => VInv'
  BY NextVInv
<1> QED
  BY <1>1, <1>2, PTL DEF VdecSpec

(* Neither the submit nor the decode thread is in its loop function while  *)
(* the message thread resets or destroys the decoder: omx_vdec.c suspends   *)
(* them first and nothing resumes them in between, for every program of     *)
(* commands, every stream and every number of pictures and headers.         *)
THEOREM EngineResetsAtRest == VdecSpec => []EngineIsQuiet
<1>1. VInv => EngineIsQuiet
  BY QuietEngine DEF EngineIsQuiet
<1> QED
  BY <1>1, VInvHolds, PTL

(* A change of resolution is clean: no picture is written into a header the *)
(* client made for other settings, and no picture of the old size is lost   *)
(* when the decode thread opens the engine again, with the exceptions that  *)
(* ChangeIsClean names.                                                     *)
THEOREM ResolutionChangeIsClean == VdecSpec => []ChangeIsClean
<1>1. VInv => PicturesFit
  BY DEF VInv, ChangeIsSeen, PicturesFit
<1>2. VInv => LostOnlyIfMiscounted
  BY DEF VInv, PicturesCounted, LostOnlyIfMiscounted
<1>3. VInv => ChangeIsClean
  BY <1>1, <1>2 DEF ChangeIsClean
<1> QED
  BY <1>3, VInvHolds, PTL

(* A command that hangs as Stuck says hangs for good: the message thread    *)
(* takes no other message, so that no RESTART_PORT and no QUIT comes, and   *)
(* neither the drain thread nor the decode thread can go on without one.    *)
THEOREM HangsForGood == VdecSpec => StuckForGood
<1>1. ASSUME VInv, [VdecNext]_vdecVars, Stuck PROVE Stuck'
  <2> USE DEF Workers
  <2>1. /\ todo # <<>> /\ Head(todo) \in {<<"parking", "decode">>, <<"exiting", "decode">>}
        /\ loop["decode"] = "await" /\ semFlushAllFrame = 0 /\ loop["drain"] = "out"
        /\ status["drain"] \in {"parked", "off"} \/ bResolutionChangeFlag
        /\ loop \in [Workers -> LoopPoints]
    BY <1>1 DEF Stuck, Doing, VInv, VdecTypeOK
  <2>2. SUFFICES /\ UNCHANGED <<todo, semFlushAllFrame, status, bResolutionChangeFlag>>
                 /\ loop'["decode"] = loop["decode"] /\ loop'["drain"] = loop["drain"]
    BY <1>1, <2>2 DEF Stuck, Doing
  <2>3. ~Client /\ ~TakeMessage /\ ~FillThisBuffer /\ ~Prepare
    BY <2>1 DEF Client, Send, SendEnable, TakeMessage, FillThisBuffer, Prepare
  <2>4. ~MsgOnComponent
    BY <2>1
    DEF MsgOnComponent, MsgFlush, MsgClose, MsgFlushPorts, MsgStopPort, MsgFreed, MsgPopulated,
        MsgNotPopulated, MsgClearChange, MsgPostFlushed, MsgSettle, Doing
  <2>5. \A w \in Workers : ~MsgOnWorker(w)
    BY <2>1
    DEF MsgOnWorker, MsgPark, MsgParked, MsgResume, MsgRun, MsgExit, MsgExited, Doing
  <2>6. ~Decode
    BY <2>1
    DEF Decode, DecodeFrame, DecodeEnd, ChangeSeen, AskFlush, FlushSeen, ParkDrain, DrainParked,
        liReopenVideoEngine, ResumeDrain
  <2>7. ~Drain
    BY <2>1
    DEF Drain, DrainNothing, DrainSeesChange, DrainPeek, DrainCopy, DrainGave, DrainMissed
  <2>8. CASE Submit
    BY <2>1, <2>8 DEF Submit, Continue, command, flush, change
  <2>9. ASSUME NEW w \in Workers, EnterLoop(w)
        PROVE  /\ UNCHANGED <<todo, semFlushAllFrame, status, bResolutionChangeFlag>>
               /\ loop'["decode"] = loop["decode"] /\ loop'["drain"] = loop["drain"]
    <3>1. w = "submit"
      BY <2>1, <2>9 DEF EnterLoop, Ready
    <3> QED
      BY <2>1, <2>9, <3>1 DEF EnterLoop, Continue, command, flush, change
  <2>10. CASE UNCHANGED vdecVars
    BY <2>10 DEF vdecVars, command, threads, flush, change
  <2> QED
    BY <1>1, <2>3, <2>4, <2>5, <2>6, <2>7, <2>8, <2>9, <2>10 DEF VdecNext, Message
<1>2. VdecSpec => [][Stuck => Stuck']_vdecVars
  <2>1. VInv /\ [VdecNext]_vdecVars => [Stuck => Stuck']_vdecVars
    BY <1>1
  <2> QED
    BY <2>1, VInvHolds, PTL DEF VdecSpec
<1> QED
  BY <1>2 DEF StuckForGood
-----------------------------------------------------------------------------
\* What may happen to one worker in a step.
Enters(w) == /\ status'[w] = status[w] /\ status[w] \in {"running", "pausing"}
             /\ loop[w] = "out" /\ loop'[w] # "out"
Leaves(w) == status'[w] = status[w] /\ loop[w] # "out" /\ loop'[w] = "out"
Stays(w) == status'[w] = status[w] /\ (loop'[w] = "out" <=> loop[w] = "out")
IsSet(w) ==
  /\ loop'[w] = loop[w]
  /\ \/ status[w] = "off" /\ status'[w] = "running"
     \/ status[w] = "running" /\ status'[w] = "pausing"
     \/ status[w] = "parked" /\ status'[w] = "running"
     \/ status[w] = "pausing" /\ status'[w] = "parked" /\ loop[w] = "out"
     \/ status[w] = "running" /\ status'[w] = "off" /\ loop[w] = "out"
ThreadStep(w) == Enters(w) \/ Leaves(w) \/ Stays(w) \/ IsSet(w)

LEMMA ThreadStepRefines ==
  ASSUME NEW w \in Workers, ThreadStep(w)
  PROVE  [Thread(w)!Next]_<<status[w], loop[w] # "out">>
<1>1. CASE Enters(w)
  BY <1>1 DEF Enters, Thread!Next, Thread!EnterLoop
<1>2. CASE Leaves(w)
  BY <1>2 DEF Leaves, Thread!Next, Thread!LeaveLoop
<1>3. CASE Stays(w)
  BY <1>3 DEF Stays
<1>4. CASE IsSet(w)
  BY <1>4
  DEF IsSet, Thread!Next, Thread!Start, Thread!AskToPark, Thread!Unpark, Thread!Park, Thread!Stop
<1> QED
  BY <1>1, <1>2, <1>3, <1>4 DEF ThreadStep

\* The message thread's operations set the status of one worker.
LEMMA MsgSetsWorker ==
  ASSUME VInv, NEW v \in Workers, MsgOnWorker(v), NEW w \in Workers
  PROVE  ThreadStep(w)
<1>1. /\ loop' = loop /\ status \in [Workers -> {"off", "running", "pausing", "parked"}]
      /\ Doing("parking", v) => status[v] = "pausing"
      /\ Doing("exiting", v) => status[v] = "running"
  BY DEF MsgOnWorker, VInv, VdecTypeOK, OneUnderWay
<1>2. \A st : status' = [status EXCEPT ![v] = st] =>
                status'[v] = st /\ \A u \in Workers : u # v => status'[u] = status[u]
  BY <1>1
<1>3. CASE MsgPark(v)
  BY <1>1, <1>2, <1>3 DEF MsgPark, Set, ThreadStep, Stays, IsSet
<1>4. CASE MsgParked(v)
  BY <1>1, <1>2, <1>4 DEF MsgParked, Set, ThreadStep, Stays, IsSet
<1>5. CASE MsgResume(v)
  BY <1>1, <1>2, <1>5 DEF MsgResume, ThreadStep, Stays, IsSet
<1>6. CASE MsgRun(v)
  BY <1>1, <1>2, <1>6 DEF MsgRun, Set, Locked, ThreadStep, Stays, IsSet
<1>7. CASE MsgExit(v)
  BY <1>1, <1>2, <1>7 DEF MsgExit, Set, Locked, ThreadStep, Stays, IsSet
<1>8. CASE MsgExited(v)
  BY <1>1, <1>2, <1>8 DEF MsgExited, Set, ThreadStep, Stays, IsSet
<1> QED
  BY <1>3, <1>4, <1>5, <1>6, <1>7, <1>8 DEF MsgOnWorker

\* A worker moves in its own loop function.
LEMMA MoveIsStep ==
  ASSUME VInv, NEW v \in Workers, NEW point, Continue(v, point), UNCHANGED status,
         loop[v] # "out" \/ status[v] \in {"running", "pausing"}, NEW w \in Workers
  PROVE  ThreadStep(w)
<1>1. loop \in [Workers -> LoopPoints]
  BY DEF VInv, VdecTypeOK
<1>2. loop'[v] = point /\ (w # v => loop'[w] = loop[w])
  BY <1>1 DEF Continue
<1> QED
  BY <1>2 DEF ThreadStep, Stays, Enters, Leaves

\* The decode thread parks and resumes the drain thread.
LEMMA DecodeSetsDrain ==
  ASSUME VInv, ParkDrain \/ DrainParked \/ ResumeDrain, NEW w \in Workers
  PROVE  ThreadStep(w)
<1> USE DEF Workers
<1>1. /\ loop \in [Workers -> LoopPoints]
      /\ status \in [Workers -> {"off", "running", "pausing", "parked"}]
      /\ loop["decode"] = "parking" => status["drain"] = "pausing"
  BY DEF VInv, VdecTypeOK, ParkedAreOut
<1>2. \A st : status' = [status EXCEPT !["drain"] = st] =>
                status'["drain"] = st /\ \A u \in Workers : u # "drain" => status'[u] = status[u]
  BY <1>1
<1>3. \A p : Continue("decode", p) =>
               loop'["decode"] = p /\ \A u \in Workers : u # "decode" => loop'[u] = loop[u]
  BY <1>1 DEF Continue
<1>4. CASE ParkDrain
  BY <1>1, <1>2, <1>3, <1>4 DEF ParkDrain, Set, ThreadStep, Stays, IsSet
<1>5. CASE DrainParked
  BY <1>1, <1>2, <1>3, <1>5 DEF DrainParked, Set, ThreadStep, Stays, IsSet
<1>6. CASE ResumeDrain
  BY <1>1, <1>2, <1>3, <1>6 DEF ResumeDrain, ThreadStep, Stays, Leaves, IsSet
<1> QED
  BY <1>4, <1>5, <1>6

LEMMA VdecStepMovesWorkers ==
  ASSUME VInv, VdecNext, NEW w \in Workers
  PROVE  ThreadStep(w)
<1>1. ASSUME UNCHANGED threads PROVE ThreadStep(w)
  BY <1>1 DEF threads, ThreadStep, Stays
<1>2. ASSUME NEW v \in Workers, MsgOnWorker(v) PROVE ThreadStep(w)
  BY <1>2, MsgSetsWorker
<1>3. CASE Client \/ TakeMessage \/ MsgOnComponent \/ FillThisBuffer \/ Prepare
  <2>1. UNCHANGED threads
    BY <1>3
    DEF Client, Send, SendEnable, TakeMessage, MsgOnComponent, MsgFlush, MsgClose, MsgFlushPorts,
        MsgStopPort, MsgFreed, MsgPopulated, MsgNotPopulated, MsgClearChange, MsgPostFlushed,
        MsgSettle, FillThisBuffer, Prepare
  <2> QED
    BY <1>1, <2>1
<1>4. ASSUME NEW v \in Workers, EnterLoop(v) PROVE ThreadStep(w)
  BY <1>4, MoveIsStep DEF EnterLoop
<1>5. CASE Submit
  BY <1>5, MoveIsStep DEF Submit, Workers
<1>6. CASE ParkDrain \/ DrainParked \/ ResumeDrain
  BY <1>6, DecodeSetsDrain
<1>7. CASE DecodeFrame \/ DecodeEnd \/ ChangeSeen \/ AskFlush \/ FlushSeen \/ liReopenVideoEngine
  <2>1. loop["decode"] # "out" /\ UNCHANGED status /\ \E point : Continue("decode", point)
    BY <1>7 DEF DecodeFrame, DecodeEnd, ChangeSeen, AskFlush, FlushSeen, liReopenVideoEngine
  <2> QED
    BY <2>1, MoveIsStep DEF Workers
<1>8. CASE Drain
  <2>1. loop["drain"] # "out" /\ UNCHANGED status /\ \E point : Continue("drain", point)
    BY <1>8 DEF Drain, DrainNothing, DrainSeesChange, DrainPeek, DrainCopy, DrainGave, DrainMissed
  <2> QED
    BY <2>1, MoveIsStep DEF Workers
<1> QED
  BY <1>2, <1>3, <1>4, <1>5, <1>6, <1>7, <1>8 DEF VdecNext, Message, Decode

(* Each worker of the component is the pausable thread that OmxThread       *)
(* implements: whatever the message thread and the decode thread do to the  *)
(* submit, the decode and the drain thread at the same time, a worker that  *)
(* was parked does not enter its loop function before it is resumed, and    *)
(* none is parked, or stopped, inside it.                                   *)
THEOREM WorkersAreThreads == VdecSpec => WorkersArePausable
<1>1. VdecInit => \A w \in Workers : Thread(w)!Init
  BY DEF VdecInit, Thread!Init
<1>2. VInv /\ [VdecNext]_vdecVars =>
        [\A w \in Workers : [Thread(w)!Next]_<<status[w], loop[w] # "out">>]_threads
  <2>1. UNCHANGED vdecVars => UNCHANGED threads
    BY DEF vdecVars
  <2>2. VInv /\ VdecNext => \A w \in Workers : [Thread(w)!Next]_<<status[w], loop[w] # "out">>
    BY VdecStepMovesWorkers, ThreadStepRefines
  <2> QED
    BY <2>1, <2>2
<1> QED
  BY <1>1, <1>2, VInvHolds, PTL DEF VdecSpec, WorkersArePausable
=============================================================================
