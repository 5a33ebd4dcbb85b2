--------------------------- MODULE LeaderElection ---------------------------
(***************************************************************************)
(* Leader election over one row of the leader_leases table, as done by     *)
(* pkg/core/leader/leader.go.  A holder is one process incarnation: its    *)
(* holder id carries a fresh UUID, so a restarted replica is a new holder. *)
(* Every SQL statement is atomic; anything may happen between two of them. *)
(***************************************************************************)
EXTENDS Integers, TLC

CONSTANTS
  Holders,        \* process incarnations that may compete for the lease
  None,           \* holder id of the row before it exists
  LeaseDuration,  \* leaseDuration in clock units (one unit = renewInterval)
  MaxSkew,        \* how far a replica's wall clock may run ahead of real time
  MaxTime,        \* bound: real time stops here
  MaxFaults       \* bound: database errors and crashes in one behaviour

ASSUME LeaderAssumption ==
  /\ None \notin Holders
  /\ LeaseDuration \in Nat \ {0}
  /\ MaxSkew \in Nat
  /\ MaxTime \in Nat
  /\ MaxFaults \in Nat

\* The clocks of the replicas agree better than a lease lasts.
ASSUME SkewAssumption == MaxSkew <= LeaseDuration

VARIABLES
  now,            \* real time
  skew,           \* lead of each replica's wall clock over real time
  lease,          \* the leader_leases row of the component
  isLeader,       \* the holders whose le.isLeader flag, the answer of IsLeader(), is up
  currentVersion, \* le.currentVersion
  leading,        \* the holders whose local isLeader in RunLeaderElection is true
  pc,             \* where the election goroutine stands
  at,             \* the wall-clock time taken at the start of the last call
  faults          \* database errors and crashes so far

electionVars ==
  <<now, skew, lease, isLeader, currentVersion, leading, pc, at, faults>>

\* Where the goroutine of RunLeaderElection can stand; a process that is off
\* has not started, one that is down has crashed.
Steps == {"off", "select", "update", "readBack", "insert", "startLeading",
          "renew", "loseLeading", "release", "exitLeading", "stopped", "down"}

\* LeaderLease: acquired_at is written and never read, so it is left out.
\* version 0 stands for a row that does not exist yet.
NoLease == [holder |-> None, expiresAt |-> -1, version |-> 0]

LeaseRow == [holder : Holders \cup {None}, expiresAt : Int, version : Nat]

Clock(h) == now + skew[h]

LeaseExists == lease.version > 0

TypeOK ==
  /\ now \in Nat
  /\ skew \in [Holders -> 0..MaxSkew]
  /\ lease \in LeaseRow
  /\ isLeader \subseteq Holders
  /\ currentVersion \in [Holders -> Nat]
  /\ leading \subseteq Holders
  /\ pc \in [Holders -> Steps]
  /\ at \in [Holders -> Nat]
  /\ faults \in Nat

Init ==
  /\ now = 0
  /\ skew \in [Holders -> 0..MaxSkew]
  /\ lease = NoLease
  /\ isLeader = {}
  /\ currentVersion = [h \in Holders |-> 0]
  /\ leading = {}
  /\ pc = [h \in Holders |-> "off"]
  /\ at = [h \in Holders |-> 0]
  /\ faults = 0

Goto(h, step) == pc' = [pc EXCEPT ![h] = step]

-----------------------------------------------------------------------------
(* The row                                                                  *)

\* UPDATE ... WHERE component = ? AND expires_at < now, as TryAcquire issues.
\* Seeded bugs: the comparison is <=; only the previous holder may take over.
ExpiredFor_AtExpiry(h) == LeaseExists /\ lease.expiresAt <= at[h]
ExpiredFor_OwnOnly(h) == LeaseExists /\ lease.holder = h /\ lease.expiresAt < at[h]

ExpiredFor(h) == LeaseExists /\ lease.expiresAt < at[h]

TakeOver(h) ==
  [holder |-> h, expiresAt |-> at[h] + LeaseDuration, version |-> lease.version + 1]

\* The row TryAcquire inserts when there is none.
FirstLease(h) ==
  [holder |-> h, expiresAt |-> at[h] + LeaseDuration, version |-> 1]

\* UPDATE ... WHERE holder_id = ? AND version = ?, as Renew issues.
Renewable(h) ==
  LeaseExists /\ lease.holder = h /\ lease.version = currentVersion[h]

Renewed(h) ==
  [holder |-> lease.holder, expiresAt |-> at[h] + LeaseDuration,
   version |-> lease.version + 1]

\* UPDATE expires_at = now - 1s WHERE holder_id = ?, as Release issues: it
\* neither checks nor bumps the version.
\* Seeded bug: the update is not restricted to the own row.
Released_AnyRow(h) == [lease EXCEPT !.expiresAt = at[h] - 1]
Released(h) ==
  IF lease.holder = h THEN [lease EXCEPT !.expiresAt = at[h] - 1] ELSE lease

-----------------------------------------------------------------------------
(* TryAcquire                                                               *)

\* The election goroutine starts with the component's Start.
StartElection(h) ==
  /\ pc[h] = "off"
  /\ Goto(h, "select")
  /\ UNCHANGED <<now, skew, lease, isLeader, currentVersion, leading, at, faults>>

\* The acquire ticker fires while the loop is not leading.
BeginTryAcquire(h) ==
  /\ pc[h] = "select"
  /\ h \notin leading
  /\ at' = [at EXCEPT ![h] = Clock(h)]
  /\ Goto(h, "update")
  /\ UNCHANGED <<now, skew, lease, isLeader, currentVersion, leading, faults>>

\* The conditional update takes an expired row over, or touches nothing.
TryAcquireUpdate(h) ==
  /\ pc[h] = "update"
  /\ \/ /\ ExpiredFor(h)
        /\ lease' = TakeOver(h)
        /\ Goto(h, "readBack")
     \/ /\ ~ExpiredFor(h)
        /\ Goto(h, "insert")
        /\ UNCHANGED lease
  /\ UNCHANGED <<now, skew, isLeader, currentVersion, leading, at, faults>>

\* The version is read back by a second statement, not by the update itself.
TryAcquireReadBack(h) ==
  /\ pc[h] = "readBack"
  /\ currentVersion' = [currentVersion EXCEPT ![h] = lease.version]
  /\ isLeader' = isLeader \cup {h}
  /\ Goto(h, "startLeading")
  /\ UNCHANGED <<now, skew, lease, leading, at, faults>>

\* No row was updated: insert one, which the unique component index refuses
\* when the row exists.
TryAcquireInsert(h) ==
  /\ pc[h] = "insert"
  /\ \/ /\ ~LeaseExists
        /\ lease' = FirstLease(h)
        /\ currentVersion' = [currentVersion EXCEPT ![h] = 1]
        /\ isLeader' = isLeader \cup {h}
        /\ Goto(h, "startLeading")
     \/ /\ LeaseExists
        /\ isLeader' = isLeader \ {h}
        /\ Goto(h, "select")
        /\ UNCHANGED <<lease, currentVersion>>
  /\ UNCHANGED <<now, skew, leading, at, faults>>

\* TryAcquire returned true: the loop leads and calls onStartLeading.
OnStartLeading(h) ==
  /\ pc[h] = "startLeading"
  /\ leading' = leading \cup {h}
  /\ Goto(h, "select")
  /\ UNCHANGED <<now, skew, lease, isLeader, currentVersion, at, faults>>

-----------------------------------------------------------------------------
(* Renew                                                                    *)

\* The renew ticker fires at most once per clock unit, and only while leading.
\* Renew goes on only if the flag is up, which LoopAgreesWithFlag shows it is.
BeginRenew(h) ==
  /\ pc[h] = "select"
  /\ h \in leading
  /\ h \in isLeader
  /\ Clock(h) > at[h]
  /\ at' = [at EXCEPT ![h] = Clock(h)]
  /\ Goto(h, "renew")
  /\ UNCHANGED <<now, skew, lease, isLeader, currentVersion, leading, faults>>

\* le.currentVersion++ after a successful renewal; the seeded bug forgets it.
Counted_Not(h) == currentVersion
Counted(h) == [currentVersion EXCEPT ![h] = @ + 1]

RenewUpdate(h) ==
  /\ pc[h] = "renew"
  /\ \/ /\ Renewable(h)
        /\ lease' = Renewed(h)
        /\ currentVersion' = Counted(h)
        /\ Goto(h, "select")
        /\ UNCHANGED isLeader
     \/ /\ ~Renewable(h)
        /\ isLeader' = isLeader \ {h}
        /\ Goto(h, "loseLeading")
        /\ UNCHANGED <<lease, currentVersion>>
  /\ UNCHANGED <<now, skew, leading, at, faults>>

-----------------------------------------------------------------------------
(* Stopping                                                                 *)

\* stopCh or ctx is done: a leader lowers its flag and releases the row, any
\* other process leaves the loop.
Stop(h) ==
  /\ pc[h] = "select"
  /\ \/ /\ h \in leading
        /\ isLeader' = isLeader \ {h}
        /\ at' = [at EXCEPT ![h] = Clock(h)]
        /\ Goto(h, "release")
     \/ /\ h \notin leading
        /\ Goto(h, "stopped")
        /\ UNCHANGED <<isLeader, at>>
  /\ UNCHANGED <<now, skew, lease, currentVersion, leading, faults>>

ReleaseUpdate(h) ==
  /\ pc[h] = "release"
  /\ lease' = Released(h)
  /\ Goto(h, "exitLeading")
  /\ UNCHANGED <<now, skew, isLeader, currentVersion, leading, at, faults>>

\* onStopLeading, after a lost renewal or on the way out.
OnStopLeading(h) ==
  /\ pc[h] \in {"loseLeading", "exitLeading"}
  /\ leading' = leading \ {h}
  /\ Goto(h, IF pc[h] = "exitLeading" THEN "stopped" ELSE "select")
  /\ UNCHANGED <<now, skew, lease, isLeader, currentVersion, at, faults>>

-----------------------------------------------------------------------------
(* Faults and time                                                          *)

Fault == faults < MaxFaults /\ faults' = faults + 1

\* What a failed statement leaves behind: nothing, or its effect when only the
\* answer was lost.
Perhaps(enabled, row) == {lease} \cup {r \in {row} : enabled}

TryAcquireFails(h) ==
  /\ Fault
  /\ \/ pc[h] = "update" /\ lease' \in Perhaps(ExpiredFor(h), TakeOver(h))
     \/ pc[h] = "readBack" /\ UNCHANGED lease
     \/ pc[h] = "insert" /\ lease' \in Perhaps(~LeaseExists, FirstLease(h))
  /\ isLeader' = isLeader \ {h}
  /\ Goto(h, "select")
  /\ UNCHANGED <<now, skew, currentVersion, leading, at>>

RenewFails(h) ==
  /\ Fault
  /\ pc[h] = "renew"
  /\ lease' \in Perhaps(Renewable(h), Renewed(h))
  /\ isLeader' = isLeader \ {h}
  /\ Goto(h, "loseLeading")
  /\ UNCHANGED <<now, skew, currentVersion, leading, at>>

\* A failed release is only logged.
ReleaseFails(h) ==
  /\ Fault
  /\ pc[h] = "release"
  /\ lease' \in Perhaps(TRUE, Released(h))
  /\ Goto(h, "exitLeading")
  /\ UNCHANGED <<now, skew, isLeader, currentVersion, leading, at>>

\* The process dies wherever it stands; nobody calls Release for it.
Crash(h) ==
  /\ Fault
  /\ pc[h] \notin {"off", "stopped", "down"}
  /\ isLeader' = isLeader \ {h}
  /\ leading' = leading \ {h}
  /\ Goto(h, "down")
  /\ UNCHANGED <<now, skew, lease, currentVersion, at>>

Tick ==
  /\ now < MaxTime
  /\ now' = now + 1
  /\ UNCHANGED <<skew, lease, isLeader, currentVersion, leading, pc, at, faults>>

\* A replica whose statements reach the database in time: the row of a leader
\* is renewed before the fastest clock sees it expired, and an acquisition
\* lands before the lease it asks for would have run out.
InTime(h) ==
  /\ (h \in isLeader \/ pc[h] = "readBack") /\ lease.holder = h
       => now + 1 + MaxSkew <= lease.expiresAt
  /\ pc[h] \in {"update", "insert"} => now + 1 + MaxSkew <= at[h] + LeaseDuration

TimelyTick == Tick /\ \A h \in Holders : InTime(h)

-----------------------------------------------------------------------------
(* Specifications                                                           *)

\* One iteration of the loop without its callbacks.
LoopStep(h) ==
  \/ BeginTryAcquire(h)
  \/ TryAcquireUpdate(h)
  \/ TryAcquireReadBack(h)
  \/ TryAcquireInsert(h)
  \/ BeginRenew(h)
  \/ RenewUpdate(h)
  \/ ReleaseUpdate(h)

\* What the environment decides: deployment, shutdown, database errors, death.
EnvironmentStep(h) ==
  \/ StartElection(h)
  \/ Stop(h)
  \/ TryAcquireFails(h)
  \/ RenewFails(h)
  \/ ReleaseFails(h)
  \/ Crash(h)

HolderStep(h) ==
  \/ LoopStep(h)
  \/ OnStartLeading(h)
  \/ OnStopLeading(h)
  \/ EnvironmentStep(h)

Next == Tick \/ \E h \in Holders : HolderStep(h)

TimelyNext == TimelyTick \/ \E h \in Holders : HolderStep(h)

Spec == Init /\ [][Next]_electionVars

TimelySpec == Init /\ [][TimelyNext]_electionVars

\* Time passes and a running goroutine keeps running; deployments, shutdowns
\* and faults are not owed.
FairSpec ==
  /\ Spec
  /\ WF_electionVars(Tick)
  /\ \A h \in Holders :
       WF_electionVars(LoopStep(h) \/ OnStartLeading(h) \/ OnStopLeading(h))

\* Processes are interchangeable where no fairness singles one out.
Symmetry == Permutations(Holders)

-----------------------------------------------------------------------------
(* Properties                                                               *)

\* A process that believes it leads and still owns the row knows the row's
\* version, so only a database error or another holder can make its next Renew
\* fail: the read-back after TryAcquire and the counting in Renew never leave a
\* leader with a version of its own row that it cannot renew.
OwnRowIsRenewable ==
  \A h \in Holders :
    h \in isLeader /\ lease.holder = h => lease.version = currentVersion[h]

\* Whenever the loop waits in its select, its local isLeader and the flag that
\* IsLeader() answers agree, so the early return of Renew is never taken and a
\* demoted process always goes back to TryAcquire.
LoopAgreesWithFlag ==
  \A h \in Holders : pc[h] = "select" => (h \in leading <=> h \in isLeader)

\* TryAcquire takes the row from another holder only after the lease has
\* expired by the taker's own clock, however late its update lands.
NeverPreempts ==
  [][ \A h \in Holders :
        LeaseExists /\ lease.holder # h /\ lease'.holder = h
          => lease.expiresAt < Clock(h) ]_electionVars

\* A Renew or a Release that lands after another holder took the row changes
\* nothing: a stale leader neither extends nor expires its successor's lease.
LateCallsAreHarmless ==
  [][ \A h \in Holders :
        pc[h] \in {"renew", "release"} /\ pc'[h] # pc[h] /\ lease.holder # h
          => UNCHANGED lease ]_electionVars

\* The version never decreases, and a row never changes hands under the same
\* version: the version Renew compares fences off every earlier holder.
VersionFences ==
  [][ /\ lease'.version >= lease.version
      /\ lease'.holder # lease.holder => lease'.version > lease.version ]_electionVars

\* With timely renewals, at most one replica answers true to IsLeader().
AtMostOneLeader ==
  \A g, h \in Holders : g \in isLeader /\ h \in isLeader => g = h

\* Leadership recovers: after the last database error or crash, and with time
\* enough for one lease to run out, some process ends up leading for as long as
\* one keeps running.  A row left behind by a dead or demoted holder, or by an
\* update whose answer was lost, delays this by its lease and no more.
LeadershipRecovers ==
  \A h \in Holders :
    (/\ faults = MaxFaults
     /\ now + LeaseDuration + MaxSkew < MaxTime
     /\ pc[h] = "select")
      ~> leading # {} \/ pc[h] = "stopped"

\* A leader knows its lease: TryAcquire, Renew and Release keep the version, the
\* flag and the loop's own variable in step with the row, so that a process that
\* owns the row can renew it and one that was demoted competes again.
LeaderKnowsItsLease == OwnRowIsRenewable /\ LoopAgreesWithFlag

\* The row fences its holders off from each other: no takeover before expiry, no
\* effect of a late Renew or Release, no version that two holders share.
LeaseIsFenced == NeverPreempts /\ LateCallsAreHarmless /\ VersionFences
=============================================================================
