--------------------------- MODULE DistributedLock ---------------------------
(***************************************************************************)
(* The database lock of pkg/lock/gorm/lock.go for one lock key.  A call is *)
(* one WithLock call; the calls of a process share its GormLock and so its *)
(* owner id.  Every statement or transaction is atomic; time passes and    *)
(* other calls run between any two of them.                                *)
(***************************************************************************)
EXTENDS Integers, FiniteSets

CONSTANTS
  Calls,      \* WithLock calls on the key
  Processes,  \* replicas, each with one GormLock owner id
  Owner,      \* the process of each call
  Free,       \* no owner, no holder
  TTL,        \* ttl, above DefaultAutoRenewThreshold so that renewal is on
  MaxSkew,    \* how far a replica's wall clock may run ahead of real time
  MaxTime,    \* bound: real time stops here
  MaxFaults   \* bound: database errors and crashes in one behaviour

ASSUME LockAssumption ==
  /\ Owner \in [Calls -> Processes]
  /\ Free \notin Processes \cup Calls
  /\ TTL \in Nat \ {0}
  /\ MaxSkew \in Nat
  /\ MaxTime \in Nat
  /\ MaxFaults \in Nat

\* The clocks of the replicas agree better than a lock lasts.
ASSUME LockSkewAssumption == MaxSkew <= TTL

VARIABLES
  now,        \* real time
  skew,       \* lead of each process's wall clock over real time
  row,        \* the distributed_locks row of the key; owner Free if there is none
  pc,         \* where each call stands
  expireAt,   \* the expire_at the pending TryLock of a call will write
  renewer,    \* where the autoRenew goroutine of each call stands
  newExpireAt,\* the expire_at the pending Renew of a call will write
  cancelled,  \* processes whose application context is done
  faults      \* database errors and crashes so far

vars == <<now, skew, row, pc, expireAt, renewer, newExpireAt, cancelled, faults>>

CallSteps == {"start", "try", "retry", "fn", "unlock", "done"}

RenewerSteps == {"none", "waiting", "renewing", "over"}

NoRow == [owner |-> Free, expireAt |-> 0]

Clock(p) == now + skew[p]

TypeOK ==
  /\ now \in Nat
  /\ skew \in [Processes -> 0..MaxSkew]
  /\ row \in [owner : Processes \cup {Free}, expireAt : Nat]
  /\ pc \in [Calls -> CallSteps]
  /\ expireAt \in [Calls -> Nat]
  /\ renewer \in [Calls -> RenewerSteps]
  /\ newExpireAt \in [Calls -> Nat]
  /\ cancelled \subseteq Processes
  /\ faults \in Nat

Init ==
  /\ now = 0
  /\ skew \in [Processes -> 0..MaxSkew]
  /\ row = NoRow
  /\ pc = [c \in Calls |-> "start"]
  /\ expireAt = [c \in Calls |-> 0]
  /\ renewer = [c \in Calls |-> "none"]
  /\ newExpireAt = [c \in Calls |-> 0]
  /\ cancelled = {}
  /\ faults = 0

Goto(c, step) == pc' = [pc EXCEPT ![c] = step]

RenewerTo(c, step) == renewer' = [renewer EXCEPT ![c] = step]

\* A goroutine that leaves TryLock or Renew forgets the expiry it computed.
ForgetExpireAt(c) == expireAt' = [expireAt EXCEPT ![c] = 0]

RenewerEnds(c) ==
  /\ RenewerTo(c, "over")
  /\ newExpireAt' = [newExpireAt EXCEPT ![c] = 0]

-----------------------------------------------------------------------------
(* The row                                                                  *)

\* Seeded bugs: the cleaning delete forgets the expiry, compares with <=, or
\* only cleans the own row.
CleanedFor_All(p) == NoRow
CleanedFor_AtExpiry(p) == IF row.expireAt <= Clock(p) THEN NoRow ELSE row
CleanedFor_Own(p) == IF row.owner = p /\ row.expireAt < Clock(p) THEN NoRow ELSE row

\* DELETE ... WHERE expire_at < now, with the wall clock of process p.
CleanedFor(p) == IF row.expireAt < Clock(p) THEN NoRow ELSE row

\* DELETE ... WHERE lock_key = ? AND owner = ?
Unlocked(p) == IF row.owner = p THEN NoRow ELSE row

\* UPDATE expire_at ... WHERE lock_key = ? AND owner = ?: neither the expiry
\* nor the call that took the lock is looked at.
Renewed(c) == [owner |-> row.owner, expireAt |-> newExpireAt[c]]

\* INSERT ... ON CONFLICT DO NOTHING.
Inserted(c) == [owner |-> Owner[c], expireAt |-> expireAt[c]]

-----------------------------------------------------------------------------
(* Lock and TryLock                                                         *)

\* TryLock computes expire_at before it opens its transaction.
BeginTryLock(c) ==
  /\ pc[c] \in {"start", "retry"}
  /\ expireAt' = [expireAt EXCEPT ![c] = Clock(Owner[c]) + TTL]
  /\ Goto(c, "try")
  /\ UNCHANGED <<now, skew, row, renewer, newExpireAt, cancelled, faults>>

\* The transaction deletes an expired row of the key and inserts its own.
\* WithLock then starts the renewal goroutine and fn.
TryLock(c) ==
  /\ pc[c] = "try"
  /\ \/ /\ CleanedFor(Owner[c]).owner = Free
        /\ row' = Inserted(c)
        /\ Goto(c, "fn")
        /\ RenewerTo(c, "waiting")
     \/ /\ CleanedFor(Owner[c]).owner # Free
        /\ Goto(c, "retry")
        /\ UNCHANGED <<row, renewer>>
  /\ ForgetExpireAt(c)
  /\ UNCHANGED <<now, skew, newExpireAt, cancelled, faults>>

\* Lock gives up when its context is done while it waits for the next try.
GiveUp(c) ==
  /\ pc[c] = "retry"
  /\ Owner[c] \in cancelled
  /\ Goto(c, "done")
  /\ UNCHANGED <<now, skew, row, expireAt, renewer, newExpireAt, cancelled, faults>>

-----------------------------------------------------------------------------
(* fn and Unlock                                                            *)

\* fn returns; renewDone is closed before the deferred Unlock runs.
EndFn(c) ==
  /\ pc[c] = "fn"
  /\ Goto(c, "unlock")
  /\ UNCHANGED <<now, skew, row, expireAt, renewer, newExpireAt, cancelled, faults>>

\* Deleting no row is an error that WithLock only logs.
Unlock(c) ==
  /\ pc[c] = "unlock"
  /\ row' = Unlocked(Owner[c])
  /\ Goto(c, "done")
  /\ UNCHANGED <<now, skew, expireAt, renewer, newExpireAt, cancelled, faults>>

-----------------------------------------------------------------------------
(* autoRenew                                                                *)

RenewDone(c) == pc[c] \in {"unlock", "done"}

\* The ticker fires at most once per clock unit; done is checked once more and
\* then Renew computes the new expiry.
BeginRenew(c) ==
  /\ renewer[c] = "waiting"
  /\ ~RenewDone(c)
  /\ newExpireAt[c] < Clock(Owner[c]) + TTL
  /\ newExpireAt' = [newExpireAt EXCEPT ![c] = Clock(Owner[c]) + TTL]
  /\ RenewerTo(c, "renewing")
  /\ UNCHANGED <<now, skew, row, pc, expireAt, cancelled, faults>>

\* A renewal that finds no row of this owner ends the goroutine; fn goes on.
Renew(c) ==
  /\ renewer[c] = "renewing"
  /\ \/ /\ row.owner = Owner[c]
        /\ row' = Renewed(c)
        /\ RenewerTo(c, "waiting")
        /\ UNCHANGED newExpireAt
     \/ /\ row.owner # Owner[c]
        /\ RenewerEnds(c)
        /\ UNCHANGED row
  /\ UNCHANGED <<now, skew, pc, expireAt, cancelled, faults>>

\* The goroutine sees done closed or the application context cancelled.
EndRenewer(c) ==
  /\ renewer[c] = "waiting"
  /\ RenewDone(c) \/ Owner[c] \in cancelled
  /\ RenewerEnds(c)
  /\ UNCHANGED <<now, skew, row, pc, expireAt, cancelled, faults>>

-----------------------------------------------------------------------------
(* Maintenance, shutdown, faults and time                                   *)

\* The component's periodic CleanupExpiredLocks.
CleanupExpiredLocks(p) ==
  /\ row.owner # Free
  /\ row' = CleanedFor(p)
  /\ UNCHANGED <<now, skew, pc, expireAt, renewer, newExpireAt, cancelled, faults>>

CancelContext(p) ==
  /\ p \notin cancelled
  /\ cancelled' = cancelled \cup {p}
  /\ UNCHANGED <<now, skew, row, pc, expireAt, renewer, newExpireAt, faults>>

Fault == faults < MaxFaults /\ faults' = faults + 1

\* TryLock fails: the transaction rolled back, or it committed and only the
\* answer was lost.  Lock and WithLock return the error.
TryLockFails(c) ==
  /\ Fault
  /\ pc[c] = "try"
  /\ \/ UNCHANGED row
     \/ CleanedFor(Owner[c]).owner = Free /\ row' = Inserted(c)
  /\ ForgetExpireAt(c)
  /\ Goto(c, "done")
  /\ UNCHANGED <<now, skew, renewer, newExpireAt, cancelled>>

UnlockFails(c) ==
  /\ Fault
  /\ pc[c] = "unlock"
  /\ row' \in {row, Unlocked(Owner[c])}
  /\ Goto(c, "done")
  /\ UNCHANGED <<now, skew, expireAt, renewer, newExpireAt, cancelled>>

\* One failed renewal ends the goroutine for good; fn is not told.
RenewFails(c) ==
  /\ Fault
  /\ renewer[c] = "renewing"
  /\ \/ UNCHANGED row
     \/ row.owner = Owner[c] /\ row' = Renewed(c)
  /\ RenewerEnds(c)
  /\ UNCHANGED <<now, skew, pc, expireAt, cancelled>>

\* A process dies with all its calls and renewal goroutines.
Died(p, f, end) == [c \in Calls |-> IF Owner[c] = p THEN end ELSE f[c]]

Crash(p) ==
  /\ Fault
  /\ pc' = Died(p, pc, "done")
  /\ expireAt' = Died(p, expireAt, 0)
  /\ renewer' = Died(p, renewer, "over")
  /\ newExpireAt' = Died(p, newExpireAt, 0)
  /\ UNCHANGED <<now, skew, row, cancelled>>

Tick ==
  /\ now < MaxTime
  /\ now' = now + 1
  /\ UNCHANGED <<skew, row, pc, expireAt, renewer, newExpireAt, cancelled, faults>>

\* Statements land, and fn ends or is renewed, before the expiry they work
\* with is past on the fastest clock.
InTime(c) ==
  /\ pc[c] \in {"fn", "unlock"} => now + 1 + MaxSkew <= row.expireAt
  /\ pc[c] = "try" => now + 1 + MaxSkew <= expireAt[c]
  /\ renewer[c] = "renewing" => now + 1 + MaxSkew <= newExpireAt[c]

TimelyTick == Tick /\ \A c \in Calls : InTime(c)

-----------------------------------------------------------------------------
(* Specifications                                                           *)

CallStep(c) ==
  BeginTryLock(c) \/ TryLock(c) \/ GiveUp(c) \/ EndFn(c) \/ Unlock(c)

RenewerStep(c) == BeginRenew(c) \/ Renew(c) \/ EndRenewer(c)

FailedStep(c) == TryLockFails(c) \/ UnlockFails(c) \/ RenewFails(c)

LockStep ==
  \/ \E c \in Calls : CallStep(c) \/ RenewerStep(c) \/ FailedStep(c)
  \/ \E p \in Processes : CleanupExpiredLocks(p) \/ CancelContext(p) \/ Crash(p)

Next == Tick \/ LockStep

TimelyNext == TimelyTick \/ LockStep

Spec == Init /\ [][Next]_vars

TimelySpec == Init /\ [][TimelyNext]_vars

\* Time passes, and goroutines, fn included, keep running.
TimelyFairSpec ==
  /\ TimelySpec
  /\ WF_vars(TimelyTick)
  /\ \A c \in Calls : WF_vars(CallStep(c)) /\ WF_vars(RenewerStep(c))

-----------------------------------------------------------------------------
(* Properties                                                               *)

\* With timely statements, fn runs in one call at a time.
MutualExclusion ==
  \A c, d \in Calls : pc[c] = "fn" /\ pc[d] = "fn" => c = d

\* The call that holds the lock, from its TryLock to its Unlock.
Holder ==
  IF \E c \in Calls : pc[c] \in {"fn", "unlock"}
    THEN CHOOSE c \in Calls : pc[c] \in {"fn", "unlock"}
    ELSE Free

Abstract == INSTANCE Mutex WITH holder <- Holder

\* With timely statements, the rows implement the mutex callers expect.
ImplementsMutex == Abstract!Spec

\* A lock that no clock sees expired goes away only by an Unlock issued by its
\* own process: neither another replica's TryLock, whose expiry was computed
\* before its transaction, nor Unlock nor the cleanup task can take it.
LiveLockIsSafe ==
  [][ /\ row.owner # Free
      /\ now + MaxSkew <= row.expireAt
      /\ row'.owner # row.owner
      => \E c \in Calls : Owner[c] = row.owner /\ pc[c] = "unlock" /\ pc'[c] = "done" ]_vars

\* A waiting call gets the lock or gives up: after the last fault, and with
\* time enough for one TTL to run out, an orphaned row blocks nobody for ever.
WaiterProceeds ==
  \A c \in Calls :
    (faults = MaxFaults /\ now + TTL + MaxSkew < MaxTime /\ pc[c] = "retry")
      ~> pc[c] \in {"fn", "unlock", "done"}
=============================================================================
