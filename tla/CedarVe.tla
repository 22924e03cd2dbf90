------------------------------- MODULE CedarVe -------------------------------
(***************************************************************************)
(* The video engine driver (cedar_ve.c): what the processes that share the  *)
(* engine do through their open files, the interrupt handler of a unit of   *)
(* the engine, and the system's suspend and resume.  A process uses its     *)
(* file from one thread; it may die whenever it is not inside a call, and   *)
(* then the kernel calls cedardev_release for its file.                     *)
(*                                                                         *)
(* IOCTL_WAIT_VE_DE, _EN and JPEG_DEC are one algorithm on three sets of    *)
(* variables: Wait models them for one unit.  The steps under              *)
(* cedar_devp->sem are atomic.  A process starts a job (it programs the     *)
(* registers it has mapped) only while it holds the unit's lock and has     *)
(* requested the engine, and holds at most one lock.                        *)
(***************************************************************************)
EXTENDS Integers, FiniteSets

CONSTANTS
  Files,      \* the open files, one for each process
  NoFile,
  UnitLock,   \* the lock of the modelled unit
  Locks,      \* all locks of lock_flags
  MaxOpens    \* bound: files opened

ASSUME VeAssumption ==
  /\ IsFiniteSet(Files)
  /\ NoFile \notin Files
  /\ UnitLock \in Locks
  /\ MaxOpens \in Nat

VARIABLES
  ref_count, clk_status,
  mutex,                 \* mutex[l]: the file that holds lock l
  lock_flags,            \* lock_flags[f]: the locks noted in its ve_info
  irq_flag, irq_value,   \* X_irq_flag and X_irq_value of the unit
  hw,                    \* the unit: "idle", "busy", "raised", and on its way in the handler "told"
  at,                    \* at[f]: where file f is
  want,                  \* want[f]: the lock its call is about
  engaged,               \* engaged[f]: f has requested the engine
  job,                   \* job[f]: f's job is "none", "started" or "done"
  suspended, opens,
  given_up,              \* history: see AnswersAreTrue
  crossed                \* history: see AnswersAreTrue

locks  == <<mutex, lock_flags, want>>
engine == <<ref_count, clk_status, engaged>>
irq    == <<irq_flag, irq_value>>
work   == <<hw, job>>
power  == <<suspended, opens>>
history == <<given_up, crossed>>
vars == <<locks, engine, irq, work, at, power, history>>

Points == {"closed", "user", "locking", "locked", "unlocking",
           "asked", "waiting", "woken", "answer", "released"}

TypeOK ==
  /\ ref_count \in Nat
  /\ clk_status \in {0, 1}
  /\ mutex \in [Locks -> Files \cup {NoFile}]
  /\ lock_flags \in [Files -> SUBSET Locks]
  /\ irq_flag \in {0, 1} /\ irq_value \in {0, 1}
  /\ hw \in {"idle", "busy", "raised", "told"}
  /\ at \in [Files -> Points]
  /\ want \in [Files -> Locks]
  /\ engaged \in [Files -> BOOLEAN]
  /\ job \in [Files -> {"none", "started", "done"}]
  /\ suspended \in BOOLEAN
  /\ opens \in Nat
  /\ given_up \in BOOLEAN /\ crossed \in BOOLEAN

Init ==
  /\ ref_count = 0 /\ clk_status = 0
  /\ mutex = [l \in Locks |-> NoFile]
  /\ lock_flags = [f \in Files |-> {}]
  /\ irq_flag = 0 /\ irq_value = 0
  /\ hw = "idle"
  /\ at = [f \in Files |-> "closed"]
  /\ want = [f \in Files |-> UnitLock]
  /\ engaged = [f \in Files |-> FALSE]
  /\ job = [f \in Files |-> "none"]
  /\ suspended = FALSE /\ opens = 0
  /\ given_up = FALSE /\ crossed = FALSE

Goto(f, point) == at' = [at EXCEPT ![f] = point]
InUser(f) == at[f] = "user" /\ ~suspended
-----------------------------------------------------------------------------
(* cedardev_open: the first user of an idle engine starts with clear flags. *)
Open(f) ==
  /\ at[f] = "closed"
  /\ ~suspended
  /\ opens < MaxOpens
  /\ opens' = opens + 1
  /\ irq_flag' = IF ref_count = 0 THEN 0 ELSE irq_flag
  /\ Goto(f, "user")
  /\ UNCHANGED <<locks, engine, irq_value, work, suspended, history>>

\* Mutant: cedardev_release forgets the register lock.
ReleaseOnlyUnitLock(f) ==
  /\ InUser(f)
  /\ mutex' = [l \in Locks |-> IF l = UnitLock /\ l \in lock_flags[f] THEN NoFile ELSE mutex[l]]
  /\ lock_flags' = [lock_flags EXCEPT ![f] = {}]
  /\ engaged' = [engaged EXCEPT ![f] = FALSE]
  /\ given_up' = (given_up \/ job[f] # "none")
  /\ Goto(f, "released")
  /\ UNCHANGED <<want, ref_count, clk_status, irq, work, power, crossed>>

(* cedardev_release: the locks of a file that closes, or whose process      *)
(* dies, are unlocked; its requests of the engine are not returned.         *)
Release(f) ==
  /\ InUser(f)
  /\ mutex' = [l \in Locks |-> IF l \in lock_flags[f] THEN NoFile ELSE mutex[l]]
  /\ lock_flags' = [lock_flags EXCEPT ![f] = {}]
  /\ engaged' = [engaged EXCEPT ![f] = FALSE]
  /\ given_up' = (given_up \/ job[f] # "none")
  /\ Goto(f, "released")
  /\ UNCHANGED <<want, ref_count, clk_status, irq, work, power, crossed>>

(* Then every waiter is let go when nobody has the engine.  What becomes of *)
(* a job of this file is nobody's business.                                 *)
Released(f) ==
  /\ at[f] = "released"
  /\ irq_flag' = IF ref_count = 0 THEN 1 ELSE irq_flag
  /\ given_up' = (given_up \/ ref_count = 0)
  /\ job' = [job EXCEPT ![f] = "none"]
  /\ Goto(f, "closed")
  /\ UNCHANGED <<locks, engine, irq_value, hw, power, crossed>>
-----------------------------------------------------------------------------
(* IOCTL_ENGINE_REQ and IOCTL_ENGINE_REL.  A file requests once. *)

\* Mutant: a second user does not count.
RequestUncounted(f) ==
  /\ InUser(f)
  /\ ~engaged[f]
  /\ engaged' = [engaged EXCEPT ![f] = TRUE]
  /\ ref_count' = 1
  /\ clk_status' = 1
  /\ UNCHANGED <<locks, irq, work, at, power, history>>

Request(f) ==
  /\ InUser(f)
  /\ ~engaged[f]
  /\ engaged' = [engaged EXCEPT ![f] = TRUE]
  /\ ref_count' = ref_count + 1
  /\ clk_status' = IF ref_count' = 1 THEN 1 ELSE clk_status
  /\ UNCHANGED <<locks, irq, work, at, power, history>>

Relinquish(f) ==
  /\ InUser(f)
  /\ engaged[f]
  /\ job[f] = "none"
  /\ engaged' = [engaged EXCEPT ![f] = FALSE]
  /\ ref_count' = ref_count - 1
  /\ clk_status' = IF ref_count' = 0 THEN 0 ELSE clk_status
  /\ hw' = IF ref_count' = 0 /\ hw = "busy" THEN "idle" ELSE hw
  /\ UNCHANGED <<locks, irq, at, job, power, history>>
-----------------------------------------------------------------------------
(* IOCTL_GET_LOCK takes the mutex, then notes it in the file's lock_flags;  *)
(* IOCTL_RELEASE_LOCK does the reverse.                                     *)
AskLock(f, l) ==
  /\ InUser(f)
  /\ lock_flags[f] = {}
  /\ want' = [want EXCEPT ![f] = l]
  /\ Goto(f, "locking")
  /\ UNCHANGED <<mutex, lock_flags, engine, irq, work, power, history>>

TakeLock(f) ==
  /\ at[f] = "locking"
  /\ mutex[want[f]] = NoFile
  /\ mutex' = [mutex EXCEPT ![want[f]] = f]
  /\ Goto(f, "locked")
  /\ UNCHANGED <<lock_flags, want, engine, irq, work, power, history>>

NoteLock(f) ==
  /\ at[f] = "locked"
  /\ lock_flags' = [lock_flags EXCEPT ![f] = @ \cup {want[f]}]
  /\ Goto(f, "user")
  /\ UNCHANGED <<mutex, want, engine, irq, work, power, history>>

GiveLock(f) ==
  /\ InUser(f)
  /\ want[f] \in lock_flags[f]
  /\ job[f] = "none"
  /\ lock_flags' = [lock_flags EXCEPT ![f] = @ \ {want[f]}]
  /\ Goto(f, "unlocking")
  /\ UNCHANGED <<mutex, want, engine, irq, work, power, history>>

DropLock(f) ==
  /\ at[f] = "unlocking"
  /\ mutex' = [mutex EXCEPT ![want[f]] = NoFile]
  /\ Goto(f, "user")
  /\ UNCHANGED <<lock_flags, want, engine, irq, work, power, history>>
-----------------------------------------------------------------------------
(* A job of the unit, and its interrupt. *)
StartJob(f) ==
  /\ InUser(f)
  /\ engaged[f]
  /\ UnitLock \in lock_flags[f]
  /\ job[f] = "none"
  /\ hw \in {"idle", "busy"}
  /\ hw' = "busy"
  /\ job' = [job EXCEPT ![f] = "started"]
  /\ given_up' = (given_up \/ hw = "busy")
  /\ UNCHANGED <<locks, engine, irq, at, power, crossed>>

Finish ==
  /\ hw = "busy"
  /\ clk_status = 1
  /\ hw' = "raised"
  /\ job' = [f \in Files |-> IF job[f] = "started" THEN "done" ELSE job[f]]
  /\ UNCHANGED <<locks, engine, irq, at, power, history>>

(* VideoEngineInterupt writes the value, then the flag, without the lock;   *)
(* on the f1c100s, of one core, no process runs in between.                 *)
Interrupt ==
  /\ hw = "raised"
  /\ irq_value' = 1
  /\ hw' = "told"
  /\ UNCHANGED <<locks, engine, irq_flag, job, at, power, history>>

InterruptFlag ==
  /\ hw = "told"
  /\ hw' = "idle"
  /\ irq_flag' = 1
  /\ given_up' = (given_up \/ ~\E f \in Files : job[f] = "done" /\ at[f] # "answer")
  /\ UNCHANGED <<locks, engine, irq_value, job, at, power, crossed>>
-----------------------------------------------------------------------------
(* IOCTL_WAIT_VE_DE and its kind: clear the value, set it again if the flag *)
(* is up, wait for the flag or for the time to run out, clear the flag,     *)
(* return the value.                                                        *)

\* Mutant: the flag is cleared with the value.
WaitClearsFlag(f) ==
  /\ InUser(f)
  /\ job[f] # "none"
  /\ irq_value' = 0
  /\ irq_flag' = 0
  /\ crossed' = (crossed \/ hw = "told")
  /\ Goto(f, "asked")
  /\ UNCHANGED <<locks, engine, work, power, given_up>>

Wait(f) ==
  /\ InUser(f)
  /\ job[f] # "none"
  /\ irq_value' = 0
  /\ crossed' = (crossed \/ hw = "told")
  /\ Goto(f, "asked")
  /\ UNCHANGED <<locks, engine, irq_flag, work, power, given_up>>

WaitCheck(f) ==
  /\ at[f] = "asked"
  /\ irq_value' = IF irq_flag = 1 THEN 1 ELSE irq_value
  /\ Goto(f, "waiting")
  /\ UNCHANGED <<locks, engine, irq_flag, work, power, history>>

(* The flag, or the timeout. *)
WaitEnds(f) ==
  /\ at[f] = "waiting"
  /\ Goto(f, "woken")
  /\ UNCHANGED <<locks, engine, irq, work, power, history>>

\* Mutant: the flag stays up.
WaitLeavesFlag(f) ==
  /\ at[f] = "woken"
  /\ Goto(f, "answer")
  /\ UNCHANGED <<locks, engine, irq, work, power, history>>

WaitClears(f) ==
  /\ at[f] = "woken"
  /\ irq_flag' = 0
  /\ Goto(f, "answer")
  /\ UNCHANGED <<locks, engine, irq_value, work, power, history>>

(* The answer is read here; whatever it is, the process is through with the *)
(* job.                                                                     *)
WaitReturns(f) ==
  /\ at[f] = "answer"
  /\ job' = [job EXCEPT ![f] = "none"]
  /\ Goto(f, "user")
  /\ UNCHANGED <<locks, engine, irq, hw, power, history>>
-----------------------------------------------------------------------------
(* Suspend and resume: the processes are frozen outside any call. *)
Frozen == \A f \in Files : at[f] \in {"closed", "user"}

Suspend ==
  /\ ~suspended
  /\ Frozen
  /\ hw # "told"
  /\ suspended' = TRUE
  /\ clk_status' = 0
  /\ hw' = IF hw = "busy" THEN "idle" ELSE hw
  /\ UNCHANGED <<locks, ref_count, engaged, irq, job, at, opens, history>>

\* Mutant: resume does not look at ref_count.
ResumeWithoutClock ==
  /\ suspended
  /\ suspended' = FALSE
  /\ UNCHANGED <<locks, engine, irq, work, at, opens, history>>

Resume ==
  /\ suspended
  /\ suspended' = FALSE
  /\ clk_status' = IF ref_count = 0 THEN clk_status ELSE 1
  /\ UNCHANGED <<locks, ref_count, engaged, irq, work, at, opens, history>>
-----------------------------------------------------------------------------
GetLock(f) == TakeLock(f) \/ NoteLock(f)
WaitStep(f) == WaitCheck(f) \/ WaitEnds(f) \/ WaitClears(f) \/ WaitReturns(f)

Next ==
  \/ \E f \in Files :
       \/ Open(f) \/ Release(f) \/ Released(f) \/ Request(f) \/ Relinquish(f)
       \/ (\E l \in Locks : AskLock(f, l)) \/ GetLock(f) \/ GiveLock(f) \/ DropLock(f)
       \/ StartJob(f) \/ Wait(f) \/ WaitStep(f)
  \/ Finish \/ Interrupt \/ InterruptFlag \/ Suspend \/ Resume

Spec == Init /\ [][Next]_vars

(* A call goes on; a mutex that is free again and again is got; a process   *)
(* that holds a lock releases it, in the end, or closes its file (dies),    *)
(* and the system does not stay suspended.                                  *)
Fairness ==
  /\ WF_vars(Resume)
  /\ \A f \in Files :
       /\ WF_vars(Released(f)) /\ SF_vars(TakeLock(f)) /\ WF_vars(NoteLock(f))
       /\ WF_vars(DropLock(f)) /\ WF_vars(WaitStep(f))
       /\ SF_vars(lock_flags[f] # {} /\ (GiveLock(f) \/ Release(f)))

FairSpec == Spec /\ Fairness
-----------------------------------------------------------------------------
(* A wait answers 0 (its time ran out) only when the job's interrupt has    *)
(* not come: an interrupt just before the call, between any two of its      *)
(* unlocked accesses to value and flag, or after the timeout, is not lost,  *)
(* unless the call cleared the value between the handler's two writes.      *)
AnswersInTime ==
  \A f \in Files :
    at[f] = "answer" /\ irq_value = 0 /\ job[f] = "done" => hw = "raised" \/ crossed

(* A wait answers 1 only when the job is done, unless an earlier job's      *)
(* interrupt came when nobody was left to clear its flag, a job was started *)
(* over one that still ran, or a file was closed with a job or while nobody *)
(* had the engine: the driver takes back no late interrupt, and not the     *)
(* flag that cedardev_release sets.                                         *)
AnswersAreFresh ==
  \A f \in Files : at[f] = "answer" /\ irq_value = 1 => job[f] = "done" \/ given_up

(* What WAIT_VE_DE answers agrees with the job, whichever answer it gives,  *)
(* up to the cases the two parts name.                                      *)
AnswersAreTrue == AnswersInTime /\ AnswersAreFresh

Users == {f \in Files : engaged[f]}

(* The clock is on exactly when somebody has the engine, across suspend,    *)
(* resume and deaths, so that no user's request or release cuts off the     *)
(* job of another; a user that dies leaves its count behind.                *)
ClockServesUsers ==
  /\ ~suspended => (clk_status = 1 <=> ref_count > 0)
  /\ ref_count >= Cardinality(Users)

(* The same, as the proof needs it: a suspended engine has no clock.        *)
IInv == TypeOK /\ ClockServesUsers /\ (suspended => clk_status = 0)

(* What the proof of AnswersAreTrue adds.  A lock has one holder: the file  *)
(* that noted it, or that is about to.                                      *)
LocksAgree ==
  \A f \in Files :
    /\ \A l \in lock_flags[f] : mutex[l] = f
    /\ at[f] \in {"locked", "unlocking"} => mutex[want[f]] = f
    /\ at[f] = "unlocking" => want[f] \notin lock_flags[f]

InWait(f) == at[f] \in {"asked", "waiting", "woken", "answer"}

(* A file with a job has the unit's lock and the engine, or has been closed. *)
JobsAreOwned ==
  \A f \in Files :
    /\ InWait(f) => job[f] # "none"
    /\ job[f] # "none" =>
         \/ at[f] = "released"
         \/ UnitLock \in lock_flags[f] /\ engaged[f] /\ (at[f] = "user" \/ InWait(f))
    /\ job[f] = "started" => hw \notin {"raised", "told"}
    /\ at[f] = "released" /\ job[f] # "none" => given_up

(* The interrupt of a job that is done is still on its way, or was noted    *)
(* where the process that waits for it is yet to look.                      *)
InterruptIsNoted ==
  \A f \in Files : job[f] = "done" =>
    \/ hw = "raised"
    \/ at[f] = "user" /\ (hw = "told" \/ irq_flag = 1)
    \/ at[f] = "asked" /\ (crossed \/ irq_value = 1 \/ irq_flag = 1)
    \/ at[f] \in {"waiting", "woken", "answer"} /\ (crossed \/ irq_value = 1)
    \/ at[f] = "released"

(* A flag or value that is up speaks of a job that is done. *)
NotesAreTrue ==
  \/ given_up
  \/ /\ irq_flag = 1 =>
          \E f \in Files : job[f] = "done" /\ at[f] \in {"user", "asked", "waiting", "woken"}
     /\ \A f \in Files : InWait(f) /\ irq_value = 1 => job[f] = "done"

AInv == IInv /\ LocksAgree /\ JobsAreOwned /\ InterruptIsNoted /\ NotesAreTrue

(* A job has the unit to itself, and runs with the clock on: whoever opens, *)
(* closes, dies or gives back the engine meanwhile.                         *)
JobsRunAlone ==
  \A f \in Files : job[f] # "none" /\ at[f] # "released" =>
    /\ ~suspended => clk_status = 1
    /\ \A g \in Files : job[g] # "none" /\ at[g] # "released" => g = f

(* Whoever asks for a lock gets it, although holders die with it. *)
LockIsGiven == \A f \in Files : at[f] = "locking" ~> at[f] # "locking"
=============================================================================
