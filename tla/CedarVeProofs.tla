---------------------------- MODULE CedarVeProofs ----------------------------
(***************************************************************************)
(* Proof, for any finite set of files and of locks, that the engine's clock *)
(* is on exactly when somebody has the engine (CedarVe).                    *)
(***************************************************************************)
EXTENDS CedarVe, FiniteSetTheorems, TLAPS

(* The users are finitely many. *)
LEMMA UsersFinite ==
  IsFiniteSet(Users) /\ Cardinality(Users) \in Nat
<1>1. IsFiniteSet(Users)
  BY VeAssumption, FS_Subset DEF Users
<1> QED
  BY <1>1, FS_CardinalityType

(* A file that requests adds one user. *)
LEMMA OneMore ==
  ASSUME NEW f \in Files, engaged \in [Files -> BOOLEAN], ~engaged[f],
         engaged' = [engaged EXCEPT ![f] = TRUE]
  PROVE  Cardinality(Users') = Cardinality(Users) + 1
<1>1. Users' = Users \cup {f}
  BY DEF Users
<1>2. f \notin Users
  BY DEF Users
<1> QED
  BY <1>1, <1>2, UsersFinite, FS_AddElement

(* A file that lets go takes away one user, if it was one. *)
LEMMA OneLess ==
  ASSUME NEW f \in Files, engaged \in [Files -> BOOLEAN],
         engaged' = [engaged EXCEPT ![f] = FALSE]
  PROVE  Cardinality(Users') = IF engaged[f] THEN Cardinality(Users) - 1 ELSE Cardinality(Users)
<1>1. Users' = Users \ {f}
  BY DEF Users
<1>2. f \in Users <=> engaged[f]
  BY DEF Users
<1> QED
  BY <1>1, <1>2, UsersFinite, FS_RemoveElement

(* Initially nobody has the engine. *)
LEMMA InitIInv == Init => IInv
<1> SUFFICES ASSUME Init PROVE IInv
  OBVIOUS
<1>1. TypeOK
  BY VeAssumption DEF Init, TypeOK, Points
<1>2. Users = {}
  BY DEF Init, Users
<1>3. Cardinality(Users) = 0
  BY <1>2, FS_EmptySet
<1> QED
  BY <1>1, <1>3 DEF Init, IInv, ClockServesUsers

(* The types are kept by every step of an operation. *)
LEMMA TypeStep == TypeOK /\ Cardinality(Users) <= ref_count /\ [Next]_vars => TypeOK'
<1> SUFFICES ASSUME TypeOK, Cardinality(Users) <= ref_count, [Next]_vars PROVE TypeOK'
  OBVIOUS
<1> USE VeAssumption DEF TypeOK, Points, locks, engine, irq, work, power, history, Goto, InUser
<1>1. ASSUME NEW f \in Files, Open(f) PROVE TypeOK'
  BY <1>1 DEF Open
<1>2. ASSUME NEW f \in Files, Release(f) PROVE TypeOK'
  BY <1>2 DEF Release
<1>3. ASSUME NEW f \in Files, Released(f) PROVE TypeOK'
  BY <1>3 DEF Released
<1>4. ASSUME NEW f \in Files, Request(f) PROVE TypeOK'
  BY <1>4 DEF Request
<1>5. ASSUME NEW f \in Files, Relinquish(f) PROVE TypeOK'
  <2>1. f \in Users
    BY <1>5 DEF Relinquish, Users
  <2>2. Cardinality(Users) # 0
    BY <2>1, UsersFinite, FS_EmptySet
  <2>3. ref_count - 1 \in Nat
    BY <2>2, UsersFinite
  <2> QED
    BY <1>5, <2>3 DEF Relinquish
<1>6. ASSUME NEW f \in Files, NEW l \in Locks, AskLock(f, l) PROVE TypeOK'
  BY <1>6 DEF AskLock
<1>7. ASSUME NEW f \in Files, GetLock(f) PROVE TypeOK'
  BY <1>7 DEF GetLock, TakeLock, NoteLock
<1>8. ASSUME NEW f \in Files, GiveLock(f) \/ DropLock(f) PROVE TypeOK'
  BY <1>8 DEF GiveLock, DropLock
<1>9. ASSUME NEW f \in Files, StartJob(f) \/ Wait(f) PROVE TypeOK'
  BY <1>9 DEF StartJob, Wait
<1>10. ASSUME NEW f \in Files, WaitStep(f) PROVE TypeOK'
  BY <1>10 DEF WaitStep, WaitCheck, WaitEnds, WaitClears, WaitReturns
<1>11. ASSUME Finish \/ Interrupt \/ InterruptFlag PROVE TypeOK'
  BY <1>11 DEF Finish, Interrupt, InterruptFlag
<1>12. ASSUME Suspend \/ Resume PROVE TypeOK'
  BY <1>12 DEF Suspend, Resume
<1>13. CASE UNCHANGED vars
  BY <1>13 DEF vars
<1> QED
  BY <1>1, <1>2, <1>3, <1>4, <1>5, <1>6, <1>7, <1>8, <1>9, <1>10, <1>11, <1>12, <1>13 DEF Next

(* Every step keeps the clock with the users. *)
LEMMA NextIInv == IInv /\ [Next]_vars => IInv'
<1> SUFFICES ASSUME IInv, [Next]_vars PROVE IInv'
  OBVIOUS
<1>t. TypeOK'
  BY UsersFinite, TypeStep DEF IInv, ClockServesUsers, TypeOK
<1> DEFINE Clock == ClockServesUsers /\ (suspended => clk_status = 0)
<1>u. TypeOK /\ Clock /\ Cardinality(Users) \in Nat
  BY UsersFinite DEF IInv
<1>s. ASSUME UNCHANGED <<ref_count, clk_status, engaged, suspended>> PROVE Clock'
  BY <1>s, <1>u DEF ClockServesUsers, Users
<1>1. ASSUME NEW f \in Files, Request(f) PROVE Clock'
  <2>1. Cardinality(Users') = Cardinality(Users) + 1
    BY <1>1, <1>u, OneMore DEF Request, TypeOK
  <2>2. ref_count' = ref_count + 1 /\ suspended' = suspended /\ ~suspended
    BY <1>1 DEF Request, InUser, power
  <2>3. clk_status' = IF ref_count' = 1 THEN 1 ELSE clk_status
    BY <1>1 DEF Request
  <2> QED
    BY <2>1, <2>2, <2>3, <1>u DEF ClockServesUsers, TypeOK
<1>2. ASSUME NEW f \in Files, Relinquish(f) PROVE Clock'
  <2>1. Cardinality(Users') = Cardinality(Users) - 1
    BY <1>2, <1>u, OneLess DEF Relinquish, TypeOK
  <2>2. ref_count' = ref_count - 1 /\ suspended' = suspended /\ ~suspended
    BY <1>2 DEF Relinquish, InUser, power
  <2>3. clk_status' = IF ref_count' = 0 THEN 0 ELSE clk_status
    BY <1>2 DEF Relinquish
  <2>4. f \in Users
    BY <1>2 DEF Relinquish, Users
  <2>5. Cardinality(Users) # 0
    BY <2>4, UsersFinite, FS_EmptySet
  <2> QED
    BY <2>1, <2>2, <2>3, <2>5, <1>u DEF ClockServesUsers, TypeOK
<1>3. ASSUME NEW f \in Files, Release(f) PROVE Clock'
  <2>1. Cardinality(Users') <= Cardinality(Users)
    <3>1. Cardinality(Users') = IF engaged[f] THEN Cardinality(Users) - 1 ELSE Cardinality(Users)
      <4>1. engaged' = [engaged EXCEPT ![f] = FALSE]
        BY <1>3 DEF Release
      <4> QED
        BY <4>1, <1>u, OneLess DEF TypeOK
    <3> QED
      BY <3>1, <1>u
  <2>2. Cardinality(Users') \in Nat
    <3>1. IsFiniteSet(Users')
      BY VeAssumption, FS_Subset DEF Users
    <3> QED
      BY <3>1, FS_CardinalityType
  <2>3. UNCHANGED <<ref_count, clk_status, suspended>>
    BY <1>3 DEF Release, power
  <2> QED
    BY <2>1, <2>2, <2>3, <1>u DEF ClockServesUsers, TypeOK
<1>4. ASSUME Suspend PROVE Clock'
  <2>1. suspended' = TRUE /\ clk_status' = 0 /\ UNCHANGED <<ref_count, engaged>>
    BY <1>4 DEF Suspend
  <2>2. Users' = Users
    BY <2>1 DEF Users
  <2> QED
    BY <2>1, <2>2, <1>u DEF ClockServesUsers
<1>5. ASSUME Resume PROVE Clock'
  <2>1. suspended /\ suspended' = FALSE /\ UNCHANGED <<ref_count, engaged>>
    BY <1>5 DEF Resume
  <2>2. clk_status' = IF ref_count = 0 THEN clk_status ELSE 1
    BY <1>5 DEF Resume
  <2>3. Users' = Users
    BY <2>1 DEF Users
  <2> QED
    BY <2>1, <2>2, <2>3, <1>u DEF ClockServesUsers, TypeOK
<1>6. ASSUME NEW f \in Files, Open(f) \/ Released(f) \/ GetLock(f) \/ GiveLock(f) \/ DropLock(f)
                              \/ StartJob(f) \/ Wait(f) \/ WaitStep(f)
      PROVE  Clock'
  BY <1>6, <1>s DEF Open, Released, GetLock, TakeLock, NoteLock, GiveLock, DropLock, StartJob,
                    Wait, WaitStep, WaitCheck, WaitEnds, WaitClears, WaitReturns, engine, power
<1>7. ASSUME NEW f \in Files, NEW l \in Locks, AskLock(f, l) PROVE Clock'
  BY <1>7, <1>s DEF AskLock, engine, power
<1>8. ASSUME Finish \/ Interrupt \/ InterruptFlag PROVE Clock'
  BY <1>8, <1>s DEF Finish, Interrupt, InterruptFlag, engine, power
<1>9. ASSUME UNCHANGED vars PROVE Clock'
  BY <1>9, <1>s DEF vars, engine, power
<1>c. Clock'
  BY <1>1, <1>2, <1>3, <1>4, <1>5, <1>6, <1>7, <1>8, <1>9 DEF Next
<1> QED
  BY <1>t, <1>c DEF IInv

(* The inductive invariant holds of every behaviour. *)
THEOREM IInvHolds == Spec => []IInv
<1> QED
  BY InitIInv, NextIInv, PTL DEF Spec

(* Type correctness. *)
THEOREM TypeCorrect == Spec => []TypeOK
<1>1. IInv => TypeOK
  BY DEF IInv
<1> QED
  BY <1>1, IInvHolds, PTL

(* The clock is on exactly when somebody has the engine, for any number of  *)
(* files, across suspend, resume and deaths (IOCTL_ENGINE_REQ and _REL,     *)
(* cedardev_release, snd_sw_cedar_suspend and _resume).                     *)
THEOREM ClockIsWithUsers == Spec => []ClockServesUsers
<1>1. IInv => ClockServesUsers
  BY DEF IInv
<1> QED
  BY <1>1, IInvHolds, PTL
-----------------------------------------------------------------------------
(* AnswersAreTrue, the agreement of the wait calls with the interrupts.     *)

(* The unit's lock is noted in one file.                                    *)
LEMMA OneHolder ==
  ASSUME LocksAgree, NEW f \in Files, NEW g \in Files,
         UnitLock \in lock_flags[f], UnitLock \in lock_flags[g]
  PROVE  f = g
BY DEF LocksAgree

(* A file that has the engine is counted. *)
LEMMA EngagedCounted ==
  ASSUME IInv, NEW f \in Files, engaged[f]
  PROVE  ref_count # 0
<1>1. f \in Users
  BY DEF Users
<1>2. Cardinality(Users) # 0 /\ Cardinality(Users) \in Nat
  BY <1>1, UsersFinite, FS_EmptySet
<1> QED
  BY <1>2 DEF IInv, TypeOK, ClockServesUsers

(* While a job of an open file is not through, the unit's lock is with it   *)
(* and the engine is in use.                                                *)
LEMMA JobHolder ==
  ASSUME AInv, NEW f \in Files, job[f] # "none", at[f] # "released"
  PROVE  /\ ref_count # 0
         /\ UnitLock \in lock_flags[f]
         /\ \A g \in Files : InWait(g) \/ UnitLock \in lock_flags[g] => g = f
<1>1. UnitLock \in lock_flags[f] /\ engaged[f]
  BY DEF AInv, JobsAreOwned
<1>2. ASSUME NEW g \in Files, InWait(g) PROVE UnitLock \in lock_flags[g]
  BY <1>2 DEF AInv, JobsAreOwned, InWait
<1> QED
  BY <1>1, <1>2, OneHolder, EngagedCounted DEF AInv

LEMMA InitAInv == Init => AInv
<1> SUFFICES ASSUME Init PROVE AInv
  OBVIOUS
<1>1. LocksAgree /\ JobsAreOwned /\ InterruptIsNoted /\ NotesAreTrue
  BY DEF Init, LocksAgree, JobsAreOwned, InterruptIsNoted, NotesAreTrue, InWait
<1> QED
  BY <1>1, InitIInv DEF AInv

(* A lock has one holder through every call and every death.                *)
LEMMA LocksAgreeStep == AInv /\ [Next]_vars => LocksAgree'
<1> SUFFICES ASSUME AInv, [Next]_vars PROVE LocksAgree'
  OBVIOUS
<1> USE VeAssumption DEF AInv, LocksAgree, IInv, TypeOK, Goto, InUser, locks, engine, irq, work, power, history
<1>1. ASSUME NEW f \in Files, Open(f) PROVE LocksAgree'
  BY <1>1 DEF Open
<1>2. ASSUME NEW f \in Files, Release(f) PROVE LocksAgree'
  BY <1>2 DEF Release
<1>3. ASSUME NEW f \in Files, Released(f) PROVE LocksAgree'
  BY <1>3 DEF Released
<1>4. ASSUME NEW f \in Files, Request(f) PROVE LocksAgree'
  BY <1>4 DEF Request
<1>5. ASSUME NEW f \in Files, Relinquish(f) PROVE LocksAgree'
  BY <1>5 DEF Relinquish
<1>6. ASSUME NEW f \in Files, NEW l \in Locks, AskLock(f, l) PROVE LocksAgree'
  BY <1>6 DEF AskLock
<1>7. ASSUME NEW f \in Files, TakeLock(f) PROVE LocksAgree'
  BY <1>7 DEF TakeLock
<1>8. ASSUME NEW f \in Files, NoteLock(f) PROVE LocksAgree'
  BY <1>8 DEF NoteLock
<1>9. ASSUME NEW f \in Files, GiveLock(f) PROVE LocksAgree'
  BY <1>9 DEF GiveLock
<1>10. ASSUME NEW f \in Files, DropLock(f) PROVE LocksAgree'
  BY <1>10 DEF DropLock
<1>11. ASSUME NEW f \in Files, StartJob(f) PROVE LocksAgree'
  BY <1>11 DEF StartJob
<1>12. ASSUME NEW f \in Files, Wait(f) PROVE LocksAgree'
  BY <1>12 DEF Wait
<1>13. ASSUME NEW f \in Files, WaitCheck(f) PROVE LocksAgree'
  BY <1>13 DEF WaitCheck
<1>14. ASSUME NEW f \in Files, WaitEnds(f) PROVE LocksAgree'
  BY <1>14 DEF WaitEnds
<1>15. ASSUME NEW f \in Files, WaitClears(f) PROVE LocksAgree'
  BY <1>15 DEF WaitClears
<1>16. ASSUME NEW f \in Files, WaitReturns(f) PROVE LocksAgree'
  BY <1>16 DEF WaitReturns
<1>17. CASE Finish
  BY <1>17 DEF Finish
<1>18. CASE Interrupt
  BY <1>18 DEF Interrupt
<1>19. CASE InterruptFlag
  BY <1>19 DEF InterruptFlag
<1>20. CASE Suspend
  BY <1>20 DEF Suspend
<1>21. CASE Resume
  BY <1>21 DEF Resume
<1>22. CASE UNCHANGED vars
  BY <1>22 DEF vars
<1> QED
  BY <1>1, <1>2, <1>3, <1>4, <1>5, <1>6, <1>7, <1>8, <1>9, <1>10, <1>11,
     <1>12, <1>13, <1>14, <1>15, <1>16, <1>17, <1>18, <1>19, <1>20, <1>21, <1>22
  DEF Next, GetLock, WaitStep

(* A job keeps the lock and the engine of its file.                         *)
LEMMA JobsAreOwnedStep == AInv /\ [Next]_vars => JobsAreOwned'
<1> SUFFICES ASSUME AInv, [Next]_vars PROVE JobsAreOwned'
  OBVIOUS
<1> USE VeAssumption DEF AInv, LocksAgree, JobsAreOwned, InWait, IInv, TypeOK, Goto, InUser, locks, engine, irq, work, power, history
<1>1. ASSUME NEW f \in Files, Open(f) PROVE JobsAreOwned'
  BY <1>1, JobHolder, EngagedCounted DEF Open
<1>2. ASSUME NEW f \in Files, Release(f) PROVE JobsAreOwned'
  BY <1>2, JobHolder, EngagedCounted DEF Release
<1>3. ASSUME NEW f \in Files, Released(f) PROVE JobsAreOwned'
  BY <1>3, JobHolder, EngagedCounted DEF Released
<1>4. ASSUME NEW f \in Files, Request(f) PROVE JobsAreOwned'
  BY <1>4, JobHolder, EngagedCounted DEF Request
<1>5. ASSUME NEW f \in Files, Relinquish(f) PROVE JobsAreOwned'
  BY <1>5, JobHolder, EngagedCounted DEF Relinquish
<1>6. ASSUME NEW f \in Files, NEW l \in Locks, AskLock(f, l) PROVE JobsAreOwned'
  BY <1>6, JobHolder, EngagedCounted DEF AskLock
<1>7. ASSUME NEW f \in Files, TakeLock(f) PROVE JobsAreOwned'
  BY <1>7, JobHolder, EngagedCounted DEF TakeLock
<1>8. ASSUME NEW f \in Files, NoteLock(f) PROVE JobsAreOwned'
  BY <1>8, JobHolder, EngagedCounted DEF NoteLock
<1>9. ASSUME NEW f \in Files, GiveLock(f) PROVE JobsAreOwned'
  BY <1>9, JobHolder, EngagedCounted DEF GiveLock
<1>10. ASSUME NEW f \in Files, DropLock(f) PROVE JobsAreOwned'
  BY <1>10, JobHolder, EngagedCounted DEF DropLock
<1>11. ASSUME NEW f \in Files, StartJob(f) PROVE JobsAreOwned'
  BY <1>11, JobHolder, EngagedCounted DEF StartJob
<1>12. ASSUME NEW f \in Files, Wait(f) PROVE JobsAreOwned'
  BY <1>12, JobHolder, EngagedCounted DEF Wait
<1>13. ASSUME NEW f \in Files, WaitCheck(f) PROVE JobsAreOwned'
  BY <1>13, JobHolder, EngagedCounted DEF WaitCheck
<1>14. ASSUME NEW f \in Files, WaitEnds(f) PROVE JobsAreOwned'
  BY <1>14, JobHolder, EngagedCounted DEF WaitEnds
<1>15. ASSUME NEW f \in Files, WaitClears(f) PROVE JobsAreOwned'
  BY <1>15, JobHolder, EngagedCounted DEF WaitClears
<1>16. ASSUME NEW f \in Files, WaitReturns(f) PROVE JobsAreOwned'
  BY <1>16, JobHolder, EngagedCounted DEF WaitReturns
<1>17. CASE Finish
  BY <1>17, JobHolder, EngagedCounted DEF Finish
<1>18. CASE Interrupt
  BY <1>18, JobHolder, EngagedCounted DEF Interrupt
<1>19. CASE InterruptFlag
  BY <1>19, JobHolder, EngagedCounted DEF InterruptFlag
<1>20. CASE Suspend
  BY <1>20, JobHolder, EngagedCounted DEF Suspend
<1>21. CASE Resume
  BY <1>21, JobHolder, EngagedCounted DEF Resume
<1>22. CASE UNCHANGED vars
  BY <1>22 DEF vars
<1> QED
  BY <1>1, <1>2, <1>3, <1>4, <1>5, <1>6, <1>7, <1>8, <1>9, <1>10, <1>11,
     <1>12, <1>13, <1>14, <1>15, <1>16, <1>17, <1>18, <1>19, <1>20, <1>21, <1>22
  DEF Next, GetLock, WaitStep

(* No interrupt is lost between the handler and the wait for it.            *)
LEMMA InterruptIsNotedStep == AInv /\ [Next]_vars => InterruptIsNoted'
<1> SUFFICES ASSUME AInv, [Next]_vars PROVE InterruptIsNoted'
  OBVIOUS
<1> USE VeAssumption DEF AInv, LocksAgree, JobsAreOwned, InterruptIsNoted, InWait, IInv, TypeOK, Goto, InUser, locks, engine, irq, work, power, history
<1>1. ASSUME NEW f \in Files, Open(f) PROVE InterruptIsNoted'
  BY <1>1, JobHolder, EngagedCounted DEF Open
<1>2. ASSUME NEW f \in Files, Release(f) PROVE InterruptIsNoted'
  BY <1>2, JobHolder, EngagedCounted DEF Release
<1>3. ASSUME NEW f \in Files, Released(f) PROVE InterruptIsNoted'
  BY <1>3, JobHolder, EngagedCounted DEF Released
<1>4. ASSUME NEW f \in Files, Request(f) PROVE InterruptIsNoted'
  BY <1>4, JobHolder, EngagedCounted DEF Request
<1>5. ASSUME NEW f \in Files, Relinquish(f) PROVE InterruptIsNoted'
  BY <1>5, JobHolder, EngagedCounted DEF Relinquish
<1>6. ASSUME NEW f \in Files, NEW l \in Locks, AskLock(f, l) PROVE InterruptIsNoted'
  BY <1>6, JobHolder, EngagedCounted DEF AskLock
<1>7. ASSUME NEW f \in Files, TakeLock(f) PROVE InterruptIsNoted'
  BY <1>7, JobHolder, EngagedCounted DEF TakeLock
<1>8. ASSUME NEW f \in Files, NoteLock(f) PROVE InterruptIsNoted'
  BY <1>8, JobHolder, EngagedCounted DEF NoteLock
<1>9. ASSUME NEW f \in Files, GiveLock(f) PROVE InterruptIsNoted'
  BY <1>9, JobHolder, EngagedCounted DEF GiveLock
<1>10. ASSUME NEW f \in Files, DropLock(f) PROVE InterruptIsNoted'
  BY <1>10, JobHolder, EngagedCounted DEF DropLock
<1>11. ASSUME NEW f \in Files, StartJob(f) PROVE InterruptIsNoted'
  BY <1>11, JobHolder, EngagedCounted DEF StartJob
<1>12. ASSUME NEW f \in Files, Wait(f) PROVE InterruptIsNoted'
  BY <1>12, JobHolder, EngagedCounted DEF Wait
<1>13. ASSUME NEW f \in Files, WaitCheck(f) PROVE InterruptIsNoted'
  BY <1>13, JobHolder, EngagedCounted DEF WaitCheck
<1>14. ASSUME NEW f \in Files, WaitEnds(f) PROVE InterruptIsNoted'
  BY <1>14, JobHolder, EngagedCounted DEF WaitEnds
<1>15. ASSUME NEW f \in Files, WaitClears(f) PROVE InterruptIsNoted'
  BY <1>15, JobHolder, EngagedCounted DEF WaitClears
<1>16. ASSUME NEW f \in Files, WaitReturns(f) PROVE InterruptIsNoted'
  BY <1>16, JobHolder, EngagedCounted DEF WaitReturns
<1>17. CASE Finish
  BY <1>17, JobHolder, EngagedCounted DEF Finish
<1>18. CASE Interrupt
  BY <1>18, JobHolder, EngagedCounted DEF Interrupt
<1>19. CASE InterruptFlag
  BY <1>19, JobHolder, EngagedCounted DEF InterruptFlag
<1>20. CASE Suspend
  BY <1>20, JobHolder, EngagedCounted DEF Suspend
<1>21. CASE Resume
  BY <1>21, JobHolder, EngagedCounted DEF Resume
<1>22. CASE UNCHANGED vars
  BY <1>22 DEF vars
<1> QED
  BY <1>1, <1>2, <1>3, <1>4, <1>5, <1>6, <1>7, <1>8, <1>9, <1>10, <1>11,
     <1>12, <1>13, <1>14, <1>15, <1>16, <1>17, <1>18, <1>19, <1>20, <1>21, <1>22
  DEF Next, GetLock, WaitStep

(* Flag and value do not outlive the job they speak of.                     *)
LEMMA NotesAreTrueStep == AInv /\ [Next]_vars => NotesAreTrue'
<1> SUFFICES ASSUME AInv, [Next]_vars PROVE NotesAreTrue'
  OBVIOUS
<1> USE VeAssumption DEF AInv, LocksAgree, JobsAreOwned, NotesAreTrue, InWait, IInv, TypeOK, Goto, InUser, locks, engine, irq, work, power, history
<1>1. ASSUME NEW f \in Files, Open(f) PROVE NotesAreTrue'
  BY <1>1, JobHolder, EngagedCounted DEF Open
<1>2. ASSUME NEW f \in Files, Release(f) PROVE NotesAreTrue'
  BY <1>2, JobHolder, EngagedCounted DEF Release
<1>3. ASSUME NEW f \in Files, Released(f) PROVE NotesAreTrue'
  <2>1. CASE given_up \/ ref_count = 0
    BY <1>3, <2>1 DEF Released
  <2>2. CASE ~given_up /\ ref_count # 0
    <3>1. irq_flag' = irq_flag /\ irq_value' = irq_value /\ at[f] = "released"
      BY <1>3, <2>2 DEF Released
    <3>2. ASSUME NEW g \in Files, g # f PROVE job'[g] = job[g] /\ at'[g] = at[g]
      BY <1>3, <3>2 DEF Released
    <3>3. at'[f] = "closed"
      BY <1>3 DEF Released
    <3>4. ASSUME irq_flag' = 1
          PROVE  \E g \in Files : job'[g] = "done" /\ at'[g] \in {"user", "asked", "waiting", "woken"}
      <4>1. PICK g \in Files : job[g] = "done" /\ at[g] \in {"user", "asked", "waiting", "woken"}
        BY <2>2, <3>1, <3>4
      <4>2. g # f
        BY <4>1, <3>1
      <4> QED
        BY <4>1, <4>2, <3>2
    <3>5. ASSUME NEW g \in Files, InWait(g)', irq_value' = 1 PROVE job'[g] = "done"
      <4>1. g # f
        BY <3>3, <3>5
      <4> QED
        BY <4>1, <3>1, <3>2, <3>5, <2>2
    <3> QED
      BY <3>4, <3>5
  <2> QED
    BY <2>1, <2>2
<1>4. ASSUME NEW f \in Files, Request(f) PROVE NotesAreTrue'
  BY <1>4, JobHolder, EngagedCounted DEF Request
<1>5. ASSUME NEW f \in Files, Relinquish(f) PROVE NotesAreTrue'
  BY <1>5, JobHolder, EngagedCounted DEF Relinquish
<1>6. ASSUME NEW f \in Files, NEW l \in Locks, AskLock(f, l) PROVE NotesAreTrue'
  BY <1>6, JobHolder, EngagedCounted DEF AskLock
<1>7. ASSUME NEW f \in Files, TakeLock(f) PROVE NotesAreTrue'
  BY <1>7, JobHolder, EngagedCounted DEF TakeLock
<1>8. ASSUME NEW f \in Files, NoteLock(f) PROVE NotesAreTrue'
  BY <1>8, JobHolder, EngagedCounted DEF NoteLock
<1>9. ASSUME NEW f \in Files, GiveLock(f) PROVE NotesAreTrue'
  BY <1>9, JobHolder, EngagedCounted DEF GiveLock
<1>10. ASSUME NEW f \in Files, DropLock(f) PROVE NotesAreTrue'
  BY <1>10, JobHolder, EngagedCounted DEF DropLock
<1>11. ASSUME NEW f \in Files, StartJob(f) PROVE NotesAreTrue'
  BY <1>11, JobHolder, EngagedCounted DEF StartJob
<1>12. ASSUME NEW f \in Files, Wait(f) PROVE NotesAreTrue'
  BY <1>12, JobHolder, EngagedCounted DEF Wait
<1>13. ASSUME NEW f \in Files, WaitCheck(f) PROVE NotesAreTrue'
  BY <1>13, JobHolder, EngagedCounted DEF WaitCheck
<1>14. ASSUME NEW f \in Files, WaitEnds(f) PROVE NotesAreTrue'
  BY <1>14, JobHolder, EngagedCounted DEF WaitEnds
<1>15. ASSUME NEW f \in Files, WaitClears(f) PROVE NotesAreTrue'
  BY <1>15, JobHolder, EngagedCounted DEF WaitClears
<1>16. ASSUME NEW f \in Files, WaitReturns(f) PROVE NotesAreTrue'
  BY <1>16, JobHolder, EngagedCounted DEF WaitReturns
<1>17. CASE Finish
  BY <1>17, JobHolder, EngagedCounted DEF Finish
<1>18. CASE Interrupt
  BY <1>18, JobHolder, EngagedCounted DEF Interrupt
<1>19. CASE InterruptFlag
  BY <1>19, JobHolder, EngagedCounted DEF InterruptFlag
<1>20. CASE Suspend
  BY <1>20, JobHolder, EngagedCounted DEF Suspend
<1>21. CASE Resume
  BY <1>21, JobHolder, EngagedCounted DEF Resume
<1>22. CASE UNCHANGED vars
  BY <1>22 DEF vars
<1> QED
  BY <1>1, <1>2, <1>3, <1>4, <1>5, <1>6, <1>7, <1>8, <1>9, <1>10, <1>11,
     <1>12, <1>13, <1>14, <1>15, <1>16, <1>17, <1>18, <1>19, <1>20, <1>21, <1>22
  DEF Next, GetLock, WaitStep

LEMMA NextAInv == AInv /\ [Next]_vars => AInv'
BY NextIInv, LocksAgreeStep, JobsAreOwnedStep, InterruptIsNotedStep, NotesAreTrueStep DEF AInv

(* AInv is an invariant: who holds the unit's lock, who has a job, and what *)
(* flag and value say of it agree at every point of the calls and of the    *)
(* handler.                                                                 *)
THEOREM AInvHolds == Spec => []AInv
BY InitAInv, NextAInv, PTL DEF Spec

(* IOCTL_WAIT_VE_DE and its kind answer with the truth, for any number of   *)
(* files and locks, up to the cases AnswersInTime and AnswersAreFresh name. *)
THEOREM WaitsAnswerTrue == Spec => []AnswersAreTrue
<1>1. AInv => AnswersAreTrue
  <2> SUFFICES ASSUME AInv PROVE AnswersAreTrue
    OBVIOUS
  <2>1. AnswersInTime
    BY DEF AInv, InterruptIsNoted, AnswersInTime
  <2>2. AnswersAreFresh
    BY DEF AInv, NotesAreTrue, AnswersAreFresh, InWait
  <2> QED
    BY <2>1, <2>2 DEF AnswersAreTrue
<1> QED
  BY <1>1, AInvHolds, PTL

(* No two files have a job of the unit, and a job has the clock: what       *)
(* cedardev_release and IOCTL_ENGINE_REL of one file do leaves the others'. *)
THEOREM JobsAreAlone == Spec => []JobsRunAlone
<1>1. AInv => JobsRunAlone
  <2> SUFFICES ASSUME AInv, NEW f \in Files, job[f] # "none", at[f] # "released"
               PROVE  /\ ~suspended => clk_status = 1
                      /\ \A g \in Files : job[g] # "none" /\ at[g] # "released" => g = f
    BY DEF JobsRunAlone
  <2>1. \A g \in Files : job[g] # "none" /\ at[g] # "released" =>
                           UnitLock \in lock_flags[g] /\ engaged[g]
    BY DEF AInv, JobsAreOwned
  <2>2. IInv /\ ref_count # 0 /\ ref_count \in Nat
    BY <2>1, EngagedCounted DEF AInv, IInv, TypeOK
  <2>3. ~suspended => clk_status = 1
    BY <2>2 DEF IInv, ClockServesUsers
  <2>4. \A g \in Files : job[g] # "none" /\ at[g] # "released" => g = f
    BY <2>1, OneHolder DEF AInv
  <2> QED
    BY <2>3, <2>4
<1> QED
  BY <1>1, AInvHolds, PTL
=============================================================================
