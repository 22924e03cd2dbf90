------------------------------ MODULE OmxThread ------------------------------
(***************************************************************************)
(* One thread of the video decoder component: OmxThread_t of                *)
(* libcedarc/openmax/vdec/looper/omx_thread.c, with its mutex and its three *)
(* semaphores (omx_sem.c).  The worker runs loopEntryWrapper; the callers   *)
(* run the methods.  The flags bSuspendRequest, bRunning, bExitPending and  *)
(* bRepeatToReady are read by the worker without the mutex.                 *)
(*                                                                         *)
(* Only the owner (the component's message thread) runs the thread and      *)
(* makes it leave; the helpers (another worker, from a decoder callback)    *)
(* suspend and resume it too.  No ready-to-run function is ever installed.  *)
(***************************************************************************)
EXTENDS Naturals

CONSTANTS
  Callers,    \* the threads that call the methods
  Owner,      \* the one that calls run and requestExitAndWait
  NoCaller    \* the mutex is free

ASSUME OwnerAssumption == Owner \in Callers /\ NoCaller \notin Callers

VARIABLES
  bSuspendRequest, bRunning, bExitPending, bRepeatToReady,
  semStopRun, semSuspend, semExit,   \* values of the three semaphores
  lock,                              \* who holds the mutex
  call,                              \* call[c]: where caller c is
  first,                             \* loopEntryWrapper's local
  at                                 \* where the worker is

flags == <<bSuspendRequest, bRunning, bExitPending, bRepeatToReady>>
sems  == <<semStopRun, semSuspend, semExit>>
vars  == <<flags, sems, lock, call, first, at>>

CallPoints == {"idle", "suspending", "resuming", "creating", "entering", "waking",
               "exiting", "joining"}
WorkerPoints == {"none", "check", "stopping", "parked", "ready", "loop", "test",
                 "ending", "leaving", "left"}

TypeOK ==
  /\ bSuspendRequest \in BOOLEAN
  /\ bRunning \in BOOLEAN
  /\ bExitPending \in BOOLEAN
  /\ bRepeatToReady \in BOOLEAN
  /\ semStopRun \in Nat
  /\ semSuspend \in Nat
  /\ semExit \in Nat
  /\ lock \in Callers \cup {NoCaller}
  /\ call \in [Callers -> CallPoints]
  /\ first \in BOOLEAN
  /\ at \in WorkerPoints

Init ==
  /\ bSuspendRequest = FALSE
  /\ bRunning = FALSE
  /\ bExitPending = FALSE
  /\ bRepeatToReady = FALSE
  /\ semStopRun = 0
  /\ semSuspend = 0
  /\ semExit = 0
  /\ lock = NoCaller
  /\ call = [c \in Callers |-> "idle"]
  /\ first = TRUE
  /\ at = "none"

(* OmxTryPostSem: post only when nothing is posted. *)
TryPost(value) == IF value = 0 THEN 1 ELSE value

-----------------------------------------------------------------------------
(* The callers.  A method that changes several fields does so one at a time *)
(* under the mutex, which the worker never takes.  A call that changes      *)
(* nothing (suspend of a thread that is not running or already suspended,   *)
(* resume of one that is not suspended, run of one that runs) is a step     *)
(* that leaves the state alone.                                             *)

Free(c) == call[c] = "idle" /\ lock = NoCaller

Goto(c, point) == call' = [call EXCEPT ![c] = point]

(* suspend keeps the mutex until the worker has stopped. *)
Suspend(c) ==
  /\ Free(c)
  /\ ~bSuspendRequest
  /\ bRunning
  /\ bSuspendRequest' = TRUE
  /\ lock' = c
  /\ Goto(c, "suspending")
  /\ UNCHANGED <<bRunning, bExitPending, bRepeatToReady, sems, first, at>>

\* Mutant: suspend returns without waiting for mSemStopRun.
SuspendDoesNotWait(c) ==
  /\ call[c] = "suspending"
  /\ lock' = NoCaller
  /\ Goto(c, "idle")
  /\ UNCHANGED <<flags, sems, first, at>>

SuspendReturns(c) ==
  /\ call[c] = "suspending"
  /\ semStopRun > 0
  /\ semStopRun' = semStopRun - 1
  /\ lock' = NoCaller
  /\ Goto(c, "idle")
  /\ UNCHANGED <<flags, semSuspend, semExit, first, at>>

\* Mutant: resume does not test bSuspendRequest.
ResumeAlways(c) ==
  /\ Free(c)
  /\ bSuspendRequest' = FALSE
  /\ lock' = c
  /\ Goto(c, "resuming")
  /\ UNCHANGED <<bRunning, bExitPending, bRepeatToReady, sems, first, at>>

Resume(c) ==
  /\ Free(c)
  /\ bSuspendRequest
  /\ bSuspendRequest' = FALSE
  /\ lock' = c
  /\ Goto(c, "resuming")
  /\ UNCHANGED <<bRunning, bExitPending, bRepeatToReady, sems, first, at>>

\* Mutant: resume clears the request and wakes nobody.
ResumeWithoutPost(c) ==
  /\ call[c] = "resuming"
  /\ lock' = NoCaller
  /\ Goto(c, "idle")
  /\ UNCHANGED <<flags, sems, first, at>>

PostSuspend(c) ==
  /\ call[c] = "resuming"
  /\ semSuspend' = TryPost(semSuspend)
  /\ lock' = NoCaller
  /\ Goto(c, "idle")
  /\ UNCHANGED <<flags, semStopRun, semExit, first, at>>

(* run on a suspended thread resumes it, by way of its ready-to-run step. *)
RunAgain ==
  /\ Free(Owner)
  /\ bRunning
  /\ bSuspendRequest
  /\ bRepeatToReady' = TRUE
  /\ bSuspendRequest' = FALSE
  /\ lock' = Owner
  /\ Goto(Owner, "resuming")
  /\ UNCHANGED <<bRunning, bExitPending, sems, first, at>>

(* run creates the worker, which may be on its way before bRunning is set. *)
Run ==
  /\ Free(Owner)
  /\ ~bRunning
  /\ bExitPending' = FALSE
  /\ first' = TRUE
  /\ at' = "check"
  /\ lock' = Owner
  /\ Goto(Owner, "creating")
  /\ UNCHANGED <<bSuspendRequest, bRunning, bRepeatToReady, sems>>

Created ==
  /\ call[Owner] = "creating"
  /\ bRunning' = TRUE
  /\ lock' = NoCaller
  /\ Goto(Owner, "idle")
  /\ UNCHANGED <<bSuspendRequest, bExitPending, bRepeatToReady, sems, first, at>>

(* requestExitAndWait tests bRunning before it takes the mutex, and keeps    *)
(* the mutex until the worker has posted mSemExit.                          *)
BeginExit ==
  /\ call[Owner] = "idle"
  /\ bRunning
  /\ Goto(Owner, "entering")
  /\ UNCHANGED <<flags, sems, lock, first, at>>

\* Mutant: requestExitAndWait does not wake a suspended worker.
ExitAsleep ==
  /\ call[Owner] = "entering"
  /\ lock = NoCaller
  /\ bExitPending' = TRUE
  /\ lock' = Owner
  /\ Goto(Owner, "exiting")
  /\ UNCHANGED <<bSuspendRequest, bRunning, bRepeatToReady, sems, first, at>>

RequestExit ==
  /\ call[Owner] = "entering"
  /\ lock = NoCaller
  /\ bExitPending' = TRUE
  /\ lock' = Owner
  /\ Goto(Owner, IF bSuspendRequest THEN "waking" ELSE "exiting")
  /\ UNCHANGED <<bSuspendRequest, bRunning, bRepeatToReady, sems, first, at>>

WakeToExit ==
  /\ call[Owner] = "waking"
  /\ bSuspendRequest' = FALSE
  /\ semSuspend' = TryPost(semSuspend)
  /\ Goto(Owner, "exiting")
  /\ UNCHANGED <<bRunning, bExitPending, bRepeatToReady, semStopRun, semExit,
                 lock, first, at>>

ExitSeen ==
  /\ call[Owner] = "exiting"
  /\ semExit > 0
  /\ semExit' = semExit - 1
  /\ lock' = NoCaller
  /\ Goto(Owner, "joining")
  /\ UNCHANGED <<flags, semStopRun, semSuspend, first, at>>

Join ==
  /\ call[Owner] = "joining"
  /\ at = "left"
  /\ at' = "none"
  /\ Goto(Owner, "idle")
  /\ UNCHANGED <<flags, sems, lock, first>>
-----------------------------------------------------------------------------
(* The worker: loopEntryWrapper. *)

CheckSuspend ==
  /\ at = "check"
  /\ at' = IF bSuspendRequest THEN "stopping" ELSE "ready"
  /\ UNCHANGED <<flags, sems, lock, call, first>>

PostStopRun ==
  /\ at = "stopping"
  /\ semStopRun' = TryPost(semStopRun)
  /\ at' = "parked"
  /\ UNCHANGED <<flags, semSuspend, semExit, lock, call, first>>

WakeUp ==
  /\ at = "parked"
  /\ semSuspend > 0
  /\ semSuspend' = semSuspend - 1
  /\ at' = "ready"
  /\ UNCHANGED <<flags, semStopRun, semExit, lock, call, first>>

GetReady ==
  /\ at = "ready"
  /\ first \/ bRepeatToReady
  /\ first' = FALSE
  /\ bRepeatToReady' = FALSE
  /\ at' = "test"
  /\ UNCHANGED <<bSuspendRequest, bRunning, bExitPending, sems, lock, call>>

CallLoop ==
  /\ at = "ready"
  /\ ~first
  /\ ~bRepeatToReady
  /\ at' = "loop"
  /\ UNCHANGED <<flags, sems, lock, call, first>>

LoopReturns ==
  /\ at = "loop"
  /\ at' = "test"
  /\ UNCHANGED <<flags, sems, lock, call, first>>

TestExit ==
  /\ at = "test"
  /\ at' = IF bExitPending THEN "ending" ELSE "check"
  /\ UNCHANGED <<flags, sems, lock, call, first>>

ClearRunning ==
  /\ at = "ending"
  /\ bRunning' = FALSE
  /\ at' = "leaving"
  /\ UNCHANGED <<bSuspendRequest, bExitPending, bRepeatToReady, sems, lock, call, first>>

PostExit ==
  /\ at = "leaving"
  /\ semExit' = TryPost(semExit)
  /\ at' = "left"
  /\ UNCHANGED <<flags, semStopRun, semSuspend, lock, call, first>>
-----------------------------------------------------------------------------
CallerStep(c) == Suspend(c) \/ SuspendReturns(c) \/ Resume(c) \/ PostSuspend(c)
OwnerStep == \/ RunAgain \/ Run \/ Created \/ BeginExit \/ RequestExit
             \/ WakeToExit \/ ExitSeen \/ Join
WorkerStep == \/ CheckSuspend \/ PostStopRun \/ WakeUp \/ GetReady
              \/ CallLoop \/ LoopReturns \/ TestExit \/ ClearRunning \/ PostExit

Next == OwnerStep \/ WorkerStep \/ \E c \in Callers : CallerStep(c)

(* The worker is scheduled and its loop function returns; a caller inside a *)
(* method goes on when it can, and takes a mutex that is free again and     *)
(* again.  Nothing makes a caller call.                                     *)
Fairness ==
  /\ WF_vars(WorkerStep)
  /\ WF_vars(Created \/ WakeToExit \/ ExitSeen \/ Join)
  /\ SF_vars(RequestExit)
  /\ \A c \in Callers : WF_vars(SuspendReturns(c) \/ PostSuspend(c))

Spec == Init /\ [][Next]_vars
FairSpec == Spec /\ Fairness
-----------------------------------------------------------------------------
Suspending == \E c \in Callers : call[c] = "suspending"

(* Every post of a semaphore goes out: the value OmxTryPostSem finds is 0,  *)
(* so that neither a stop, a resume nor an exit is ever swallowed because   *)
(* an earlier one has not been taken yet (OmxTryPostSem drops it then).     *)
NoPostIsSwallowed ==
  /\ at = "stopping" => semStopRun = 0
  /\ at = "leaving" => semExit = 0
  /\ \A c \in Callers : call[c] \in {"resuming", "waking"} => semSuspend = 0

(* suspend and requestExitAndWait return, however the callers' calls and    *)
(* the worker's unlocked reads of the flags interleave.                     *)
CallsReturn == \A c \in Callers : call[c] # "idle" ~> call[c] = "idle"

(* A resumed thread, or one woken to leave, calls its loop function again   *)
(* or leaves, unless it is suspended again.                                 *)
ResumedRuns == (at = "parked" /\ ~bSuspendRequest) ~> (at # "parked")

(* Nobody who waits on one of the three semaphores waits for ever: neither  *)
(* a caller for the worker, nor the worker for a resume already made.       *)
NobodyHangs == CallsReturn /\ ResumedRuns

(* The class is the pausable thread: in particular its worker is not in the *)
(* loop function from the return of suspend until the next resume.          *)
Status ==
  CASE at \in {"none", "ending", "leaving", "left"} -> "off"
    [] Suspending -> "pausing"
    [] bSuspendRequest /\ ~Suspending -> "parked"
    [] OTHER -> "running"

Pausable == INSTANCE PausableThread WITH status <- Status, busy <- (at = "loop")
ImplementsPausable == Pausable!Spec
=============================================================================
