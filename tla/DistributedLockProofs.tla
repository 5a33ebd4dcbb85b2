------------------------ MODULE DistributedLockProofs ------------------------
(* Proofs about DistributedLock, for every set of calls and processes, every  *)
(* TTL, clock skew and bound.                                                *)
EXTENDS DistributedLock, TLAPS

LEMMA InitTypeOK == Init => TypeOK
  BY LockAssumption DEF Init, TypeOK, NoRow, CallSteps, RenewerSteps

LEMMA StepTypeOK == TypeOK /\ [Next]_vars => TypeOK'
  <1> SUFFICES ASSUME TypeOK, [Next]_vars PROVE TypeOK'
    BY Zenon
  <1> USE LockAssumption
      DEF TypeOK, NoRow, CallSteps, RenewerSteps, Goto, RenewerTo, ForgetExpireAt,
          RenewerEnds, Clock, Fault
  <1>1. CASE UNCHANGED vars
    BY <1>1, Zenon DEF vars
  <1>2. CASE Tick
    BY <1>2 DEF Tick
  <1>3. ASSUME NEW c \in Calls, CallStep(c) PROVE TypeOK'
    <2>1. CASE BeginTryLock(c)
      BY <2>1 DEF BeginTryLock
    <2>2. CASE TryLock(c)
      BY <2>2 DEF TryLock, Inserted
    <2>3. CASE GiveUp(c)
      BY <2>3, Zenon DEF GiveUp
    <2>4. CASE EndFn(c)
      BY <2>4, Zenon DEF EndFn
    <2>5. CASE Unlock(c)
      BY <2>5, Zenon DEF Unlock, Unlocked
    <2> QED
      BY <1>3, <2>1, <2>2, <2>3, <2>4, <2>5, Zenon DEF CallStep
  <1>4. ASSUME NEW c \in Calls, RenewerStep(c) PROVE TypeOK'
    <2>1. CASE BeginRenew(c)
      BY <2>1 DEF BeginRenew
    <2>2. CASE Renew(c)
      BY <2>2 DEF Renew, Renewed
    <2>3. CASE EndRenewer(c)
      BY <2>3, Zenon DEF EndRenewer
    <2> QED
      BY <1>4, <2>1, <2>2, <2>3, Zenon DEF RenewerStep
  <1>5. ASSUME NEW c \in Calls, FailedStep(c) PROVE TypeOK'
    <2>1. CASE TryLockFails(c)
      BY <2>1 DEF TryLockFails, Inserted
    <2>2. CASE UnlockFails(c)
      BY <2>2 DEF UnlockFails, Unlocked
    <2>3. CASE RenewFails(c)
      BY <2>3 DEF RenewFails, Renewed
    <2> QED
      BY <1>5, <2>1, <2>2, <2>3, Zenon DEF FailedStep
  <1>6. ASSUME NEW p \in Processes, CleanupExpiredLocks(p) \/ CancelContext(p) \/ Crash(p)
        PROVE  TypeOK'
    <2>1. CASE CleanupExpiredLocks(p)
      BY <2>1, Zenon DEF CleanupExpiredLocks, CleanedFor
    <2>2. CASE CancelContext(p)
      BY <2>2, Zenon DEF CancelContext
    <2>3. CASE Crash(p)
      BY <2>3 DEF Crash, Died
    <2> QED
      BY <1>6, <2>1, <2>2, <2>3, Zenon
  <1> QED
    BY <1>1, <1>2, <1>3, <1>4, <1>5, <1>6, Zenon DEF Next, LockStep

\* All variables keep their types.
THEOREM LockTypeCorrect == Spec => []TypeOK
  BY InitTypeOK, StepTypeOK, PTL DEF Spec

-----------------------------------------------------------------------------
(* Live locks                                                               *)

\* A lock that is live on every clock is removed only by its owner's Unlock.
THEOREM LiveLocksAreSafe == Spec => LiveLockIsSafe
  <1>1. TypeOK /\ [Next]_vars =>
          [ (/\ row.owner # Free
             /\ now + MaxSkew <= row.expireAt
             /\ row'.owner # row.owner)
            => \E c \in Calls : Owner[c] = row.owner /\ pc[c] = "unlock" /\ pc'[c] = "done" ]_vars
    <2> SUFFICES ASSUME TypeOK, Next, row.owner # Free,
                        now + MaxSkew <= row.expireAt, row'.owner # row.owner
                 PROVE  \E c \in Calls :
                          Owner[c] = row.owner /\ pc[c] = "unlock" /\ pc'[c] = "done"
      BY Zenon
    <2> USE LockAssumption DEF TypeOK, NoRow, Goto
    <2>1. \A p \in Processes : CleanedFor(p) = row
      BY DEF CleanedFor, Clock
    <2>2. ~Tick
      BY Zenon DEF Tick
    <2>3. ASSUME NEW c \in Calls, CallStep(c) PROVE Unlock(c) /\ Owner[c] = row.owner
      BY <2>1, <2>3, Zenon DEF CallStep, BeginTryLock, TryLock, GiveUp, EndFn, Unlock, Unlocked
    <2>4. ASSUME NEW c \in Calls, RenewerStep(c) PROVE FALSE
      BY <2>4 DEF RenewerStep, BeginRenew, Renew, EndRenewer, Renewed
    <2>5. ASSUME NEW c \in Calls, FailedStep(c) PROVE UnlockFails(c) /\ Owner[c] = row.owner
      BY <2>1, <2>5 DEF FailedStep, TryLockFails, UnlockFails, RenewFails, Unlocked, Renewed
    <2>6. ASSUME NEW p \in Processes, CleanupExpiredLocks(p) \/ CancelContext(p) \/ Crash(p)
          PROVE  FALSE
      BY <2>1, <2>6, Zenon DEF CleanupExpiredLocks, CancelContext, Crash
    <2> QED
      BY <2>2, <2>3, <2>4, <2>5, <2>6 DEF Next, LockStep, Unlock, UnlockFails
  <1> QED
    BY <1>1, LockTypeCorrect, PTL DEF Spec, LiveLockIsSafe

-----------------------------------------------------------------------------
(* Timely statements: mutual exclusion                                      *)

Holds(c) == pc[c] \in {"fn", "unlock"}

\* One call at a time is between its TryLock and its Unlock.  Calls of one
\* process share the owner id, so owning the row would not tell them apart:
\* that the Unlock of one call is never pending while another holds the lock
\* has to be part of the invariant.
OneHolder == \A c, d \in Calls : Holds(c) /\ Holds(d) => c = d

HolderOwnsLiveRow ==
  \A c \in Calls : Holds(c) => row.owner = Owner[c] /\ now + MaxSkew <= row.expireAt

\* What pending statements will write is still in the future.
PendingIsInTime ==
  \A c \in Calls :
    /\ pc[c] = "try" => now + MaxSkew <= expireAt[c]
    /\ renewer[c] = "renewing" => now + MaxSkew <= newExpireAt[c]

TimelyInv == TypeOK /\ OneHolder /\ HolderOwnsLiveRow /\ PendingIsInTime

LEMMA InitTimelyInv == Init => TimelyInv
  BY InitTypeOK, Zenon DEF Init, TimelyInv, OneHolder, HolderOwnsLiveRow, PendingIsInTime, Holds

LEMMA StepTimelyInv == TimelyInv /\ [TimelyNext]_vars => TimelyInv'
  <1> SUFFICES ASSUME TimelyInv, [TimelyNext]_vars PROVE TimelyInv'
    BY Zenon
  <1>0. TypeOK /\ TypeOK'
    BY StepTypeOK, Zenon DEF TimelyInv, TimelyNext, TimelyTick, Next
  <1> SUFFICES OneHolder' /\ HolderOwnsLiveRow' /\ PendingIsInTime'
    BY <1>0, Zenon DEF TimelyInv
  <1> USE LockAssumption, LockSkewAssumption, <1>0
      DEF TimelyInv, OneHolder, HolderOwnsLiveRow, PendingIsInTime, Holds, TypeOK, NoRow,
          Goto, RenewerTo, ForgetExpireAt, RenewerEnds, Clock, Fault
  <1>1. CASE UNCHANGED vars
    BY <1>1, Zenon DEF vars
  <1>2. CASE TimelyTick
    BY <1>2, Zenon DEF TimelyTick, Tick, InTime
  <1>3. ASSUME NEW p \in Processes, \E c \in Calls : Holds(c)
        PROVE  row.owner # Free /\ CleanedFor(p) = row
    BY <1>3 DEF CleanedFor
  <1>4. ASSUME NEW c \in Calls, CallStep(c)
        PROVE  OneHolder' /\ HolderOwnsLiveRow' /\ PendingIsInTime'
    <2>1. CASE BeginTryLock(c)
      BY <2>1 DEF BeginTryLock
    <2>2. CASE TryLock(c)
      BY <1>3, <2>2 DEF TryLock, Inserted
    <2>3. CASE GiveUp(c)
      BY <2>3 DEF GiveUp
    <2>4. CASE EndFn(c)
      BY <2>4 DEF EndFn
    <2>5. CASE Unlock(c)
      BY <2>5 DEF Unlock, Unlocked
    <2> QED
      BY <1>4, <2>1, <2>2, <2>3, <2>4, <2>5, Zenon DEF CallStep
  <1>5. ASSUME NEW c \in Calls, RenewerStep(c)
        PROVE  OneHolder' /\ HolderOwnsLiveRow' /\ PendingIsInTime'
    <2>1. CASE BeginRenew(c)
      BY <2>1 DEF BeginRenew
    <2>2. CASE Renew(c)
      BY <2>2 DEF Renew, Renewed
    <2>3. CASE EndRenewer(c)
      BY <2>3, Zenon DEF EndRenewer
    <2> QED
      BY <1>5, <2>1, <2>2, <2>3, Zenon DEF RenewerStep
  <1>6. ASSUME NEW c \in Calls, FailedStep(c)
        PROVE  OneHolder' /\ HolderOwnsLiveRow' /\ PendingIsInTime'
    <2>1. CASE TryLockFails(c)
      BY <1>3, <2>1 DEF TryLockFails, Inserted
    <2>2. CASE UnlockFails(c)
      BY <2>2 DEF UnlockFails, Unlocked
    <2>3. CASE RenewFails(c)
      BY <2>3 DEF RenewFails, Renewed
    <2> QED
      BY <1>6, <2>1, <2>2, <2>3, Zenon DEF FailedStep
  <1>7. ASSUME NEW p \in Processes, CleanupExpiredLocks(p) \/ CancelContext(p) \/ Crash(p)
        PROVE  OneHolder' /\ HolderOwnsLiveRow' /\ PendingIsInTime'
    <2>1. CASE CleanupExpiredLocks(p)
      BY <1>3, <2>1, Zenon DEF CleanupExpiredLocks
    <2>2. CASE CancelContext(p)
      BY <2>2, Zenon DEF CancelContext
    <2>3. CASE Crash(p)
      BY <2>3, Zenon DEF Crash, Died
    <2> QED
      BY <1>7, <2>1, <2>2, <2>3, Zenon
  <1> QED
    BY <1>1, <1>2, <1>4, <1>5, <1>6, <1>7, Zenon DEF TimelyNext, LockStep

LEMMA TimelyInvHolds == TimelySpec => []TimelyInv
  BY InitTimelyInv, StepTimelyInv, PTL DEF TimelySpec

\* If fn ends or is renewed, and statements land, before the expiry they work
\* with, fn runs in one call at a time: for any number of calls, whichever
\* share a process and so an owner id, and any clock skew up to a TTL.
THEOREM TimelyLocksExclude == TimelySpec => []MutualExclusion
  <1>1. TimelyInv => MutualExclusion
    BY Zenon DEF TimelyInv, OneHolder, Holds, MutualExclusion
  <1> QED
    BY <1>1, TimelyInvHolds, PTL

-----------------------------------------------------------------------------
(* Refinement of Mutex                                                      *)

LEMMA HolderIs ==
  OneHolder => /\ \A c \in Calls : Holds(c) => Holder = c
               /\ (\A c \in Calls : ~Holds(c)) => Holder = Free
  BY Zenon DEF OneHolder, Holds, Holder

LEMMA HolderIsPrime ==
  OneHolder' => /\ \A c \in Calls : Holds(c)' => Holder' = c
                /\ (\A c \in Calls : ~Holds(c)') => Holder' = Free
  BY Zenon DEF OneHolder, Holds, Holder

\* A step changes who holds the lock for one call at most: its TryLock takes a
\* free lock; its Unlock or the crash of its process frees it.
LEMMA StepOfHolder ==
  ASSUME TimelyInv, TimelyInv', [TimelyNext]_vars
  PROVE  [Abstract!Next]_Holder
  <1> USE LockAssumption DEF TimelyInv, TypeOK, Holds, Goto
  <1>1. SUFFICES \/ \A c \in Calls : Holds(c)' <=> Holds(c)
                 \/ \E c \in Calls : Holds(c)' /\ \A d \in Calls : ~Holds(d)
                 \/ \E c \in Calls : Holds(c) /\ \A d \in Calls : ~Holds(d)'
    <2>1. CASE \A c \in Calls : Holds(c)' <=> Holds(c)
      BY <2>1, HolderIs, HolderIsPrime, Zenon
    <2>2. ASSUME NEW c \in Calls, Holds(c)', \A d \in Calls : ~Holds(d)
          PROVE  Abstract!Next
      BY <2>2, HolderIs, HolderIsPrime, Zenon DEF Abstract!Next, Abstract!Acquire
    <2>3. ASSUME NEW c \in Calls, Holds(c), \A d \in Calls : ~Holds(d)'
          PROVE  Abstract!Next
      BY <2>3, HolderIs, HolderIsPrime, Zenon DEF Abstract!Next, Abstract!Release
    <2> QED
      BY <1>1, <2>1, <2>2, <2>3, Zenon
  <1>2. CASE UNCHANGED pc
    BY <1>2, Zenon
  <1>3. ASSUME NEW c \in Calls, CallStep(c) \/ FailedStep(c), ~UNCHANGED pc
        PROVE  \A d \in Calls : d # c => (Holds(d)' <=> Holds(d))
    BY <1>3 DEF CallStep, BeginTryLock, TryLock, GiveUp, EndFn, Unlock,
                FailedStep, TryLockFails, UnlockFails, RenewFails
  <1>4. ASSUME NEW c \in Calls, CallStep(c) \/ FailedStep(c), ~UNCHANGED pc
        PROVE  \/ \A d \in Calls : Holds(d)' <=> Holds(d)
               \/ Holds(c)' /\ \A d \in Calls : ~Holds(d)
               \/ Holds(c) /\ \A d \in Calls : ~Holds(d)'
    BY <1>3, <1>4, Zenon DEF OneHolder
  <1>5. ASSUME NEW p \in Processes, Crash(p)
        PROVE  \/ \A d \in Calls : Holds(d)' <=> Holds(d)
               \/ \E c \in Calls : Holds(c) /\ \A d \in Calls : ~Holds(d)'
    BY <1>5, Zenon DEF Crash, Died, OneHolder
  <1> QED
    BY <1>2, <1>4, <1>5, Zenon
    DEF vars, TimelyNext, TimelyTick, Tick, LockStep, RenewerStep, BeginRenew, Renew,
        EndRenewer, CleanupExpiredLocks, CancelContext

\* With timely statements, the rows of distributed_locks implement Mutex.
THEOREM TimelyLockImplementsMutex == TimelySpec => ImplementsMutex
  <1>1. Init => Abstract!Init
    BY Zenon DEF Init, Abstract!Init, Holder
  <1> QED
    BY <1>1, TimelyInvHolds, StepOfHolder, PTL DEF TimelySpec, ImplementsMutex, Abstract!Spec
=============================================================================
