------------------------ MODULE LeaderElectionProofs ------------------------
(***************************************************************************)
(* Proofs about LeaderElection, for every set of holders, lease duration,  *)
(* clock skew and bound, and about LeaderGatedComponent: the gated         *)
(* component is an election with callbacks attached, and however its terms *)
(* and goroutines overlap one run of an informer is live.  The last part   *)
(* is about Wiring: what the elected replica runs meets its subscribers.   *)
(***************************************************************************)
EXTENDS LeaderGatedComponent, Sequences, TLAPS

\* The flag is up only between a successful TryAcquire and the next refused
\* Renew, and the loop leads only from onStartLeading to onStopLeading.
FlagFollowsLoop ==
  \A h \in Holders :
    /\ h \in isLeader => pc[h] \in {"startLeading", "select", "renew"}
    /\ h \in leading =>
         pc[h] \in {"select", "renew", "loseLeading", "release", "exitLeading"}
    /\ pc[h] = "startLeading" => h \in isLeader
    /\ pc[h] \in {"select", "renew"} => (h \in leading <=> h \in isLeader)

\* The time a call works with was read from the caller's clock in the past.
CallTimesArePast == \A h \in Holders : at[h] <= Clock(h)

\* OwnRowIsRenewable is not inductive by itself: it needs to know that a
\* process between update and read-back does not count as a leader yet.
ElectionInv == TypeOK /\ FlagFollowsLoop /\ CallTimesArePast /\ OwnRowIsRenewable

-----------------------------------------------------------------------------
LEMMA InitElectionInv == Init => ElectionInv
  <1> SUFFICES ASSUME Init PROVE ElectionInv
    BY Zenon
  <1>1. TypeOK
    BY LeaderAssumption DEF Init, TypeOK, LeaseRow, NoLease, Steps
  <1>2. FlagFollowsLoop
    BY Zenon DEF Init, FlagFollowsLoop
  <1>3. CallTimesArePast
    <2>1. now = 0 /\ at = [h \in Holders |-> 0] /\ skew \in [Holders -> 0..MaxSkew]
      BY Zenon DEF Init
    <2>2. ASSUME NEW h \in Holders PROVE at[h] <= Clock(h)
      <3>1. at[h] = 0 /\ skew[h] \in 0..MaxSkew
        BY <2>1, Zenon
      <3> QED
        BY <2>1, <3>1, LeaderAssumption DEF Clock
    <2> QED
      BY <2>2, Zenon DEF CallTimesArePast
  <1>4. OwnRowIsRenewable
    BY Zenon DEF Init, OwnRowIsRenewable
  <1> QED
    BY <1>1, <1>2, <1>3, <1>4, Zenon DEF ElectionInv

\* Every step keeps the types.
LEMMA StepTypeOK == TypeOK /\ Next => TypeOK'
  <1> SUFFICES ASSUME TypeOK, Next PROVE TypeOK'
    BY Zenon
  <1> USE LeaderAssumption DEF TypeOK, LeaseRow, Steps, Goto, Clock
  <1>1. CASE Tick
    BY <1>1 DEF Tick
  <1>2. ASSUME NEW h \in Holders, HolderStep(h) PROVE TypeOK'
    <2>1. CASE StartElection(h)
      BY <2>1, Zenon DEF StartElection
    <2>2. CASE BeginTryAcquire(h)
      BY <2>2 DEF BeginTryAcquire
    <2>3. CASE TryAcquireUpdate(h)
      BY <2>3 DEF TryAcquireUpdate, TakeOver
    <2>4. CASE TryAcquireReadBack(h)
      BY <2>4, Zenon DEF TryAcquireReadBack
    <2>5. CASE TryAcquireInsert(h)
      BY <2>5 DEF TryAcquireInsert, FirstLease
    <2>6. CASE OnStartLeading(h)
      BY <2>6, Zenon DEF OnStartLeading
    <2>7. CASE BeginRenew(h)
      BY <2>7 DEF BeginRenew
    <2>8. CASE RenewUpdate(h)
      BY <2>8 DEF RenewUpdate, Renewed, Counted
    <2>9. CASE Stop(h)
      BY <2>9 DEF Stop
    <2>10. CASE ReleaseUpdate(h)
      BY <2>10 DEF ReleaseUpdate, Released
    <2>11. CASE OnStopLeading(h)
      BY <2>11, Zenon DEF OnStopLeading
    <2>12. CASE TryAcquireFails(h)
      BY <2>12 DEF TryAcquireFails, Fault, Perhaps, TakeOver, FirstLease
    <2>13. CASE RenewFails(h)
      BY <2>13 DEF RenewFails, Fault, Perhaps, Renewed
    <2>14. CASE ReleaseFails(h)
      BY <2>14 DEF ReleaseFails, Fault, Perhaps, Released
    <2>15. CASE Crash(h)
      BY <2>15 DEF Crash, Fault
    <2> QED
      BY <1>2, <2>1, <2>2, <2>3, <2>4, <2>5, <2>6, <2>7, <2>8, <2>9, <2>10,
         <2>11, <2>12, <2>13, <2>14, <2>15, Zenon
      DEF HolderStep, LoopStep, EnvironmentStep
  <1> QED
    BY <1>1, <1>2, Zenon DEF Next

\* Every step keeps the inductive invariant.
LEMMA StepElectionInv == ElectionInv /\ [Next]_electionVars => ElectionInv'
  <1> SUFFICES ASSUME ElectionInv, [Next]_electionVars PROVE ElectionInv'
    BY Zenon
  <1> USE LeaderAssumption DEF FlagFollowsLoop, CallTimesArePast, OwnRowIsRenewable, Goto, Clock
  <1>0. TypeOK /\ FlagFollowsLoop /\ CallTimesArePast /\ OwnRowIsRenewable
    BY Zenon DEF ElectionInv
  <1>1. CASE UNCHANGED electionVars
    BY <1>0, <1>1, Zenon DEF ElectionInv, electionVars, TypeOK
  <1>2. CASE Tick
    <2>1. TypeOK'
      BY <1>0, <1>2, StepTypeOK, Zenon DEF Next
    <2> QED
      BY <1>0, <1>2, <2>1 DEF ElectionInv, Tick, TypeOK
  <1>3. ASSUME NEW h \in Holders, HolderStep(h) PROVE ElectionInv'
    <2>0. TypeOK'
      BY <1>0, <1>3, StepTypeOK, Zenon DEF Next
    <2> USE DEF TypeOK, LeaseRow
    <2> SUFFICES FlagFollowsLoop' /\ CallTimesArePast' /\ OwnRowIsRenewable'
      BY <2>0, Zenon DEF ElectionInv
    <2>1. CASE StartElection(h)
      BY <1>0, <2>0, <2>1, Zenon DEF StartElection
    <2>2. CASE BeginTryAcquire(h)
      BY <1>0, <2>0, <2>2 DEF BeginTryAcquire
    <2>3. CASE TryAcquireUpdate(h)
      BY <1>0, <2>0, <2>3 DEF TryAcquireUpdate, TakeOver
    <2>4. CASE TryAcquireReadBack(h)
      BY <1>0, <2>0, <2>4, Zenon DEF TryAcquireReadBack
    <2>5. CASE TryAcquireInsert(h)
      BY <1>0, <2>0, <2>5 DEF TryAcquireInsert, FirstLease
    <2>6. CASE OnStartLeading(h)
      BY <1>0, <2>0, <2>6, Zenon DEF OnStartLeading
    <2>7. CASE BeginRenew(h)
      BY <1>0, <2>0, <2>7 DEF BeginRenew
    <2>8. CASE RenewUpdate(h)
      BY <1>0, <2>0, <2>8 DEF RenewUpdate, Renewable, Renewed, Counted
    <2>9. CASE Stop(h)
      BY <1>0, <2>0, <2>9 DEF Stop
    <2>10. CASE ReleaseUpdate(h)
      BY <1>0, <2>0, <2>10, Zenon DEF ReleaseUpdate, Released
    <2>11. CASE OnStopLeading(h)
      BY <1>0, <2>0, <2>11, Zenon DEF OnStopLeading
    <2>12. CASE TryAcquireFails(h)
      BY <1>0, <2>0, <2>12 DEF TryAcquireFails, Fault, Perhaps, TakeOver, FirstLease
    <2>13. CASE RenewFails(h)
      BY <1>0, <2>0, <2>13 DEF RenewFails, Fault, Perhaps, Renewable, Renewed
    <2>14. CASE ReleaseFails(h)
      BY <1>0, <2>0, <2>14 DEF ReleaseFails, Fault, Perhaps, Released
    <2>15. CASE Crash(h)
      BY <1>0, <2>0, <2>15, Zenon DEF Crash, Fault
    <2> QED
      BY <1>3, <2>1, <2>2, <2>3, <2>4, <2>5, <2>6, <2>7, <2>8, <2>9, <2>10,
         <2>11, <2>12, <2>13, <2>14, <2>15, Zenon
      DEF HolderStep, LoopStep, EnvironmentStep
  <1> QED
    BY <1>1, <1>2, <1>3, Zenon DEF Next

LEMMA ElectionInvHolds == Spec => []ElectionInv
  BY InitElectionInv, StepElectionInv, PTL DEF Spec

\* All variables keep their types, whatever the statements' fate.
THEOREM TypeCorrect == Spec => []TypeOK
  <1>1. ElectionInv => TypeOK
    BY Zenon DEF ElectionInv
  <1> QED
    BY <1>1, ElectionInvHolds, PTL

\* A leader whose row is still its own can renew it: TryAcquire's separate
\* read-back and Renew's counting never lose track of the row's version.
THEOREM LeaderCanRenewItsRow == Spec => []OwnRowIsRenewable
  <1>1. ElectionInv => OwnRowIsRenewable
    BY Zenon DEF ElectionInv
  <1> QED
    BY <1>1, ElectionInvHolds, PTL

\* The loop of RunLeaderElection and the flag behind IsLeader() agree whenever
\* the loop waits.
THEOREM LoopAndFlagAgree == Spec => []LoopAgreesWithFlag
  <1>1. ElectionInv => LoopAgreesWithFlag
    BY Zenon DEF ElectionInv, FlagFollowsLoop, LoopAgreesWithFlag
  <1> QED
    BY <1>1, ElectionInvHolds, PTL

\* A leader knows its lease: TryAcquire, Renew and the loop keep version, flag
\* and row in step, for any number of processes and faults.
THEOREM LeadersKnowTheirLeases == Spec => []LeaderKnowsItsLease
  BY LeaderCanRenewItsRow, LoopAndFlagAgree, PTL DEF LeaderKnowsItsLease

-----------------------------------------------------------------------------
(* What a step may do to the row                                            *)

\* A new version is written by the row's holder, or by one that finds no row or
\* an expired one.
NewVersionBy(h) ==
  /\ lease'.version = lease.version + 1
  /\ lease'.holder = h
  /\ lease.holder = h \/ ~LeaseExists \/ lease.expiresAt < Clock(h)

\* Only Release and a stutter keep the version, and neither moves the row.
LEMMA StepOfRow ==
  ASSUME ElectionInv, [Next]_electionVars
  PROVE  \/ \E h \in Holders : NewVersionBy(h)
         \/ lease'.version = lease.version /\ lease'.holder = lease.holder
  <1> USE DEF ElectionInv, TypeOK, LeaseRow, LeaseExists
  <1>1. CASE UNCHANGED electionVars
    BY <1>1, Zenon DEF electionVars
  <1>2. CASE Tick
    BY <1>2, Zenon DEF Tick
  <1>3. ASSUME NEW h \in Holders, HolderStep(h), lease' # lease
        PROVE  \/ NewVersionBy(h)
               \/ lease'.version = lease.version /\ lease'.holder = lease.holder
    <2> USE DEF NewVersionBy
    <2>0. at[h] <= Clock(h) /\ Clock(h) \in Int
      BY LeaderAssumption DEF CallTimesArePast, Clock
    <2>1. CASE TryAcquireUpdate(h)
      BY <1>3, <2>0, <2>1 DEF TryAcquireUpdate, ExpiredFor, TakeOver
    <2>2. CASE TryAcquireInsert(h)
      BY <1>3, <2>2 DEF TryAcquireInsert, FirstLease
    <2>3. CASE RenewUpdate(h)
      BY <1>3, <2>3 DEF RenewUpdate, Renewable, Renewed
    <2>4. CASE ReleaseUpdate(h)
      BY <1>3, <2>4, Zenon DEF ReleaseUpdate, Released
    <2>5. CASE TryAcquireFails(h)
      BY <1>3, <2>0, <2>5 DEF TryAcquireFails, Perhaps, ExpiredFor, TakeOver, FirstLease
    <2>6. CASE RenewFails(h)
      BY <1>3, <2>6 DEF RenewFails, Perhaps, Renewable, Renewed
    <2>7. CASE ReleaseFails(h)
      BY <1>3, <2>7, Zenon DEF ReleaseFails, Perhaps, Released
    <2> QED
      BY <1>3, <2>1, <2>2, <2>3, <2>4, <2>5, <2>6, <2>7, Zenon
      DEF HolderStep, LoopStep, EnvironmentStep, StartElection, BeginTryAcquire,
          TryAcquireReadBack, OnStartLeading, BeginRenew, Stop, OnStopLeading, Crash
  <1> QED
    BY <1>1, <1>2, <1>3, Zenon DEF Next

\* TryAcquire "never pre-empts an active holder", however late its update lands.
THEOREM NoPreemption == Spec => NeverPreempts
  <1>1. ElectionInv /\ [Next]_electionVars
          => [\A h \in Holders : LeaseExists /\ lease.holder # h /\ lease'.holder = h
                => lease.expiresAt < Clock(h)]_electionVars
    BY StepOfRow, Zenon DEF NewVersionBy
  <1> QED
    BY <1>1, ElectionInvHolds, PTL DEF Spec, NeverPreempts

\* The version never goes back and every change of hands raises it.
THEOREM VersionsFenceHolders == Spec => VersionFences
  <1>1. ElectionInv /\ [Next]_electionVars
          => [/\ lease'.version >= lease.version
              /\ lease'.holder # lease.holder => lease'.version > lease.version]_electionVars
    BY StepOfRow DEF NewVersionBy, ElectionInv, TypeOK, LeaseRow
  <1> QED
    BY <1>1, ElectionInvHolds, PTL DEF Spec, VersionFences

\* A Renew or Release that comes after a takeover leaves the new lease alone.
THEOREM StaleCallsAreHarmless == Spec => LateCallsAreHarmless
  <1>1. ElectionInv /\ [Next]_electionVars
          => [\A h \in Holders :
                pc[h] \in {"renew", "release"} /\ pc'[h] # pc[h] /\ lease.holder # h
                  => UNCHANGED lease]_electionVars
    <2> SUFFICES ASSUME ElectionInv, Next, NEW h \in Holders,
                        pc[h] \in {"renew", "release"}, pc'[h] # pc[h], lease.holder # h
                 PROVE  UNCHANGED lease
      BY Zenon
    <2> USE DEF ElectionInv, TypeOK, LeaseRow
    <2>1. HolderStep(h)
      <3>1. ~Tick
        BY Zenon DEF Tick
      <3>2. \A g \in Holders : HolderStep(g) => \E step \in Steps : Goto(g, step)
        BY Zenon DEF HolderStep, LoopStep, EnvironmentStep, StartElection, BeginTryAcquire,
               TryAcquireUpdate, TryAcquireReadBack, TryAcquireInsert, OnStartLeading,
               BeginRenew, RenewUpdate, Stop, ReleaseUpdate, OnStopLeading,
               TryAcquireFails, RenewFails, ReleaseFails, Crash, Steps
      <3> QED
        BY <3>1, <3>2, Zenon DEF Next, Goto
    <2>2. \/ RenewUpdate(h) \/ RenewFails(h) \/ ReleaseUpdate(h) \/ ReleaseFails(h) \/ Crash(h)
      BY <2>1, Zenon DEF HolderStep, LoopStep, EnvironmentStep, StartElection, BeginTryAcquire,
                  TryAcquireUpdate, TryAcquireReadBack, TryAcquireInsert, OnStartLeading,
                  BeginRenew, Stop, OnStopLeading, TryAcquireFails
    <2> QED
      BY <2>2, Zenon DEF RenewUpdate, RenewFails, ReleaseUpdate, ReleaseFails, Crash,
                  Perhaps, Renewable, Released
  <1> QED
    BY <1>1, ElectionInvHolds, PTL DEF Spec, LateCallsAreHarmless

\* The row fences holders off from each other, however late statements land and
\* whatever fails: no early takeover, no late effect, no shared version.
THEOREM LeasesFenceHolders == Spec => LeaseIsFenced
  BY NoPreemption, StaleCallsAreHarmless, VersionsFenceHolders, PTL DEF LeaseIsFenced

-----------------------------------------------------------------------------
(* Timely renewals: at most one leader                                      *)

\* A leader, or a process between its takeover and its read-back, owns a row
\* that no clock sees expired.
ClaimsOwnLiveRow ==
  \A h \in Holders :
    h \in isLeader \/ pc[h] = "readBack" =>
      LeaseExists /\ lease.holder = h /\ now + MaxSkew <= lease.expiresAt

\* An acquisition on its way asks for a lease that is still worth having.
PendingIsInTime ==
  \A h \in Holders :
    pc[h] \in {"update", "insert"} => now + MaxSkew <= at[h] + LeaseDuration

\* A row never outlives what its holder's last call asked for, so a renewal
\* never shortens a lease.
RowEndsWithLastCall ==
  \A h \in Holders : lease.holder = h => lease.expiresAt <= at[h] + LeaseDuration

TimelyInv == ElectionInv /\ ClaimsOwnLiveRow /\ PendingIsInTime /\ RowEndsWithLastCall

LEMMA InitTimelyInv == Init => TimelyInv
  <1> SUFFICES ASSUME Init PROVE TimelyInv
    BY Zenon
  <1> QED
    BY InitElectionInv, LeaderAssumption, Zenon
    DEF Init, TimelyInv, ClaimsOwnLiveRow, PendingIsInTime, RowEndsWithLastCall, NoLease

LEMMA StepTimelyInv == TimelyInv /\ [TimelyNext]_electionVars => TimelyInv'
  <1> SUFFICES ASSUME TimelyInv, [TimelyNext]_electionVars PROVE TimelyInv'
    BY Zenon
  <1>0. [Next]_electionVars /\ ElectionInv /\ TypeOK /\ FlagFollowsLoop /\ CallTimesArePast
    BY Zenon DEF TimelyNext, Next, TimelyTick, TimelyInv, ElectionInv
  <1>1. ElectionInv' /\ TypeOK'
    BY <1>0, StepElectionInv, Zenon DEF ElectionInv
  <1> SUFFICES ClaimsOwnLiveRow' /\ PendingIsInTime' /\ RowEndsWithLastCall'
    BY <1>1, Zenon DEF TimelyInv
  <1> USE LeaderAssumption, SkewAssumption, <1>0, <1>1
      DEF TimelyInv, ClaimsOwnLiveRow, PendingIsInTime, RowEndsWithLastCall,
          FlagFollowsLoop, CallTimesArePast, TypeOK, LeaseRow, LeaseExists, Goto, Clock
  <1>2. CASE UNCHANGED electionVars
    BY <1>2, Zenon DEF electionVars
  <1>3. CASE TimelyTick
    BY <1>3, Zenon DEF TimelyTick, Tick, InTime
  <1>4. ASSUME NEW h \in Holders, HolderStep(h)
        PROVE  ClaimsOwnLiveRow' /\ PendingIsInTime' /\ RowEndsWithLastCall'
    <2>1. CASE StartElection(h)
      BY <2>1, ZenonT(60) DEF StartElection
    <2>2. CASE BeginTryAcquire(h)
      BY <2>2 DEF BeginTryAcquire
    <2>3. CASE TryAcquireUpdate(h)
      BY <2>3 DEF TryAcquireUpdate, TakeOver, ExpiredFor
    <2>4. CASE TryAcquireReadBack(h)
      BY <2>4, ZenonT(60) DEF TryAcquireReadBack
    <2>5. CASE TryAcquireInsert(h)
      BY <2>5 DEF TryAcquireInsert, FirstLease
    <2>6. CASE OnStartLeading(h)
      BY <2>6, ZenonT(60) DEF OnStartLeading
    <2>7. CASE BeginRenew(h)
      BY <2>7 DEF BeginRenew
    <2>8. CASE RenewUpdate(h)
      BY <2>8 DEF RenewUpdate, Renewable, Renewed
    <2>9. CASE Stop(h)
      BY <2>9 DEF Stop
    <2>10. CASE ReleaseUpdate(h)
      BY <2>10 DEF ReleaseUpdate, Released
    <2>11. CASE OnStopLeading(h)
      BY <2>11, ZenonT(60) DEF OnStopLeading
    <2>12. CASE TryAcquireFails(h)
      BY <2>12 DEF TryAcquireFails, Fault, Perhaps, ExpiredFor, TakeOver, FirstLease
    <2>13. CASE RenewFails(h)
      BY <2>13 DEF RenewFails, Fault, Perhaps, Renewable, Renewed
    <2>14. CASE ReleaseFails(h)
      BY <2>14 DEF ReleaseFails, Fault, Perhaps, Released
    <2>15. CASE Crash(h)
      BY <2>15, ZenonT(60) DEF Crash, Fault
    <2> QED
      BY <1>4, <2>1, <2>2, <2>3, <2>4, <2>5, <2>6, <2>7, <2>8, <2>9, <2>10,
         <2>11, <2>12, <2>13, <2>14, <2>15, Zenon
      DEF HolderStep, LoopStep, EnvironmentStep
  <1> QED
    BY <1>2, <1>3, <1>4, Zenon DEF TimelyNext

\* If statements reach the database before the lease they rely on runs out, at
\* most one replica answers true to IsLeader(), for any number of replicas, any
\* lease and any clock skew up to a lease.
THEOREM TimelyLeadersAreUnique == TimelySpec => []AtMostOneLeader
  <1>1. TimelyInv => AtMostOneLeader
    BY Zenon DEF TimelyInv, ClaimsOwnLiveRow, AtMostOneLeader
  <1> QED
    BY <1>1, InitTimelyInv, StepTimelyInv, PTL DEF TimelySpec

-----------------------------------------------------------------------------
(* The election underneath                                                  *)

\* The callbacks and the goroutines change nothing of the election.
LEMMA StepIsElectionStep == [LifecycleNext]_vars => [Next]_electionVars
  <1> SUFFICES ASSUME [LifecycleNext]_vars PROVE [Next]_electionVars
    BY Zenon
  <1>1. CASE UNCHANGED vars
    BY <1>1, Zenon DEF vars, electionVars
  <1>2. CASE Tick /\ UNCHANGED lifecycleVars
    BY <1>2, Zenon DEF Next
  <1>3. ASSUME NEW h \in Holders, ComponentStep(h) PROVE [Next]_electionVars
    <2>1. CASE ElectionStep(h)
      BY <2>1, Zenon DEF ElectionStep, Next, HolderStep, EnvironmentStep
    <2>2. CASE StartLeading(h) \/ StopLeading(h)
      BY <2>2, Zenon DEF StartLeading, StopLeading, Next, HolderStep
    <2>3. CASE RunStep(h) \/ Signal(h)
      BY <2>3, Zenon DEF RunStep, Signal
    <2>4. CASE Leave(h) \/ ProcessCrash(h)
      BY <2>4, Zenon DEF Leave, ProcessCrash, Next, HolderStep, EnvironmentStep
    <2> QED
      BY <1>3, <2>1, <2>2, <2>3, <2>4, Zenon DEF ComponentStep
  <1> QED
    BY <1>1, <1>2, <1>3, Zenon DEF LifecycleNext

\* Discovery and engine (component.go:152-183) only attach callbacks to the loop of
\* RunLeaderElection: all that is proved of the election holds of the component.
THEOREM LifecycleImplementsElection == LifecycleSpec => Spec
  <1>1. LifecycleInit => Init
    BY Zenon DEF LifecycleInit
  <1> QED
    BY <1>1, StepIsElectionStep, PTL DEF LifecycleSpec, Spec

-----------------------------------------------------------------------------
(* The informers                                                            *)

LifecycleTypes ==
  /\ shutdown \subseteq Holders
  /\ term \in [Holders -> 0..MaxTerms]
  /\ open \subseteq Holders
  /\ subscribed \subseteq Holders
  /\ started \subseteq Holders \X Informers
  /\ runs \in [Holders -> SUBSET Run]

\* No goroutine has a stop channel that has not been made yet.
RunsAreOfTerms == \A h \in Holders : \A r \in runs[h] : r.term <= term[h]

LifecycleInv == LifecycleTypes /\ RunsAreOfTerms

\* No term has begun and no informer runs.
LEMMA InitLifecycleInv == LifecycleInit => LifecycleInv
  BY TermAssumption DEF LifecycleInit, LifecycleInv, LifecycleTypes, RunsAreOfTerms

\* A goroutine inside Run moves on or returns, with the channel it was given.
LEMMA RunStepInv ==
  ASSUME LifecycleInv, NEW h \in Holders, RunStep(h)
  PROVE  LifecycleInv'
  <1> USE DEF LifecycleInv, LifecycleTypes
  <1> PICK r \in runs[h] : CheckStarted(h, r) \/ StartController(h, r) \/ LeaveController(h, r)
    BY Zenon DEF RunStep
  <1>0. r \in Run /\ UNCHANGED <<shutdown, term, open, subscribed>>
    BY Zenon DEF RunStep
  <1>1. \E to \in {"checked", "running"} : runs' \in {Move(h, r, to), Return(h, r)}
    BY Zenon DEF CheckStarted, StartController, LeaveController
  <1>2. PICK to \in {"checked", "running"} : runs' \in {Move(h, r, to), Return(h, r)}
    BY <1>1, Zenon
  <1>3. [r EXCEPT !.at = to] \in Run /\ [r EXCEPT !.at = to].term = r.term
    BY <1>0, <1>2, Zenon DEF Run
  <1>4. runs' \in [Holders -> SUBSET Run]
    BY <1>2, <1>3 DEF Move, Return
  <1>5. started' \subseteq Holders \X Informers
    BY <1>0 DEF CheckStarted, StartController, LeaveController, Run
  <1>6. RunsAreOfTerms'
    <2>1. \A g \in Holders : \A x \in runs'[g] : x \in runs[g] \/ (g = h /\ x = [r EXCEPT !.at = to])
      BY <1>2 DEF Move, Return
    <2>2. r.term <= term[h]
      BY Zenon DEF RunsAreOfTerms
    <2> QED
      BY <1>0, <1>3, <2>1, <2>2, Zenon DEF RunsAreOfTerms
  <1> QED
    BY <1>0, <1>4, <1>5, <1>6, Zenon

\* The callbacks open and close channels, the goroutines run with the one they were given.
LEMMA StepLifecycleInv == LifecycleInv /\ [LifecycleNext]_vars => LifecycleInv'
  <1> SUFFICES ASSUME LifecycleInv, [LifecycleNext]_vars PROVE LifecycleInv'
    BY Zenon
  <1> USE DEF LifecycleInv, LifecycleTypes, RunsAreOfTerms, lifecycleVars
  <1>1. CASE UNCHANGED vars
    BY <1>1, Zenon DEF vars
  <1>2. CASE Tick /\ UNCHANGED lifecycleVars
    BY <1>2, Zenon
  <1>3. ASSUME NEW h \in Holders, ElectionStep(h) \/ Leave(h) PROVE LifecycleInv'
    BY <1>3, Zenon DEF ElectionStep, Leave
  <1>4. ASSUME NEW h \in Holders, StartLeading(h) PROVE LifecycleInv'
    <2> USE <1>4, TermAssumption DEF StartLeading
    <2>1. Spawned(term[h] + 1) \subseteq Run /\ \A r \in Spawned(term[h] + 1) : r.term = term[h] + 1
      BY DEF Spawned, Run
    <2>2. term' \in [Holders -> 0..MaxTerms] /\ runs' \in [Holders -> SUBSET Run]
      BY <2>1
    <2>3. ASSUME NEW k \in Holders, NEW r \in runs'[k] PROVE r.term <= term'[k]
      <3>1. CASE k = h
        <4>1. r \in runs[h] => r.term <= term[h] /\ r.term \in 1..MaxTerms
          BY DEF Run
        <4> QED
          BY <2>1, <2>3, <3>1, <4>1
      <3>2. CASE k # h
        BY <2>3, <3>2, Zenon
      <3> QED
        BY <3>1, <3>2, Zenon
    <2> QED
      BY <2>2, <2>3, Zenon
  <1>5. ASSUME NEW h \in Holders, StopLeading(h) \/ Signal(h) PROVE LifecycleInv'
    BY <1>5, Zenon DEF StopLeading, Signal
  <1>6. ASSUME NEW h \in Holders, ProcessCrash(h) PROVE LifecycleInv'
    BY <1>6, Zenon DEF ProcessCrash
  <1>7. ASSUME NEW h \in Holders, RunStep(h) PROVE LifecycleInv'
    BY <1>7, RunStepInv, Zenon
  <1> QED
    BY <1>1, <1>2, <1>3, <1>4, <1>5, <1>6, <1>7, Zenon DEF LifecycleNext, ComponentStep

\* A channel that is still open is that of the last term, for which every informer
\* was given one goroutine.
LEMMA OneLiveRunFollows == LifecycleInv => OneLiveRun
  <1> SUFFICES ASSUME LifecycleInv, NEW h \in Holders, NEW r \in Running(h), NEW s \in Running(h),
                      r.informer = s.informer, ~StopChClosed(h, r.term), ~StopChClosed(h, s.term)
               PROVE  r = s
    BY Zenon DEF OneLiveRun
  <1>1. r \in Run /\ s \in Run /\ r.term <= term[h] /\ s.term <= term[h] /\ term[h] \in Nat
    BY TermAssumption DEF LifecycleInv, LifecycleTypes, RunsAreOfTerms, Running
  <1>2. r.term = term[h] /\ s.term = term[h]
    BY <1>1 DEF StopChClosed, Run
  <1> QED
    BY <1>1, <1>2 DEF Running, Run

\* However many processes, terms, informers and faults there are, an informer never feeds
\* the store twice (informer.go:175-215, discovery/component.go:166-181).
THEOREM LifecyclesAreSound == LifecycleSpec => []LifecycleIsSound
  <1>1. LifecycleSpec => []TypeOK
    BY LifecycleImplementsElection, TypeCorrect, PTL
  <1>2. LifecycleSpec => []LifecycleInv
    BY InitLifecycleInv, StepLifecycleInv, PTL DEF LifecycleSpec
  <1>3. TypeOK /\ LifecycleInv => LifecycleIsSound
    BY OneLiveRunFollows, Zenon DEF LifecycleInv, LifecycleTypes, LifecycleTypeOK, LifecycleIsSound
  <1> QED
    BY <1>1, <1>2, <1>3, PTL
-----------------------------------------------------------------------------
(* Informers and subscribers of the replicas *)

\* Wiring's own constants and variables; it shares None, MaxFaults, MaxTerms, faults, started and
\* subscribed by name, and no theorem is about both modules.
CONSTANTS Replicas

VARIABLES config, replica, built, gated, todo, directory, live, leader, ending, terms, broken, ungated

Wire == INSTANCE Wiring

(* What makes a component run: it has no election, holds the lease, or has not *)
(* yet stopped after losing it.                                                *)
Entitled(p) ==
  \/ config.store = "memory"
  \/ p \in ungated \cup ending
  \/ leader[p[2]] = p[1]

WiringShapes ==
  /\ gated \subseteq Wire!Parts /\ live \subseteq Wire!Parts
  /\ ending \subseteq Wire!Parts /\ ungated \subseteq Wire!Parts
  /\ built = [p \in Wire!Parts |-> built[p]]
  /\ todo = [p \in Wire!Parts |-> todo[p]]
  /\ leader \in [Wire!Components -> Replicas \cup {None}]
  /\ replica \in [Replicas -> {"new", "up", "stopping", "down"}]

(* Set up means gated, unless there is one replica or the lease table failed. *)
BuiltIsGated == \A p \in Wire!Parts : built[p] # None => config.store = "memory" \/ p \in gated \cup ungated

(* Only entitled components subscribe and run. *)
OnlyEntitled == \A p \in Wire!Parts : todo[p] # None \/ p \in live => Entitled(p)

(* With a memory store one replica alone is not down, and nothing runs on one  *)
(* that has not been started or is down.                                       *)
AloneInMemory ==
  /\ config.store = "memory" => \A q, r \in Replicas : replica[q] # "down" /\ replica[r] # "down" => q = r
  /\ \A p \in live : replica[p[1]] \in {"up", "stopping"}

WiringInv == WiringShapes /\ BuiltIsGated /\ OnlyEntitled /\ AloneInMemory

(* A part is a replica and one of its two components. *)
LEMMA PartIsPair ==
  /\ \A p \in Wire!Parts : p = <<p[1], p[2]>> /\ p[1] \in Replicas /\ p[2] \in Wire!Components
  /\ \A r \in Replicas, c \in Wire!Components : <<r, c>> \in Wire!Parts
  BY DEF Wire!Parts

(* Replicas begin with nothing built and nothing running (newDiscoveryComponent). *)
LEMMA InitWiring == Wire!Init => WiringInv
  <1> SUFFICES ASSUME Wire!Init PROVE WiringInv
    BY Zenon
  <1>1. WiringShapes
    BY SMTT(60) DEF Wire!Init, WiringShapes
  <1>2. AloneInMemory
    BY DEF Wire!Init, AloneInMemory
  <1> QED
    BY <1>1, <1>2, Zenon DEF Wire!Init, WiringInv, BuiltIsGated, OnlyEntitled

(* Init of a component (component.go:122-148) gates it by an election, or leaves it  *)
(* among those that could not ensure the table.                                      *)
LEMMA SetUpKeepsWiring ==
  ASSUME WiringInv, NEW r \in Replicas, NEW c \in Wire!Components,
         Wire!Built(r, c), Wire!SetUpElection(r, c),
         UNCHANGED <<config, replica, todo, directory, subscribed, started, live, leader, ending, terms, broken>>
  PROVE  WiringInv'
  <1> USE DEF WiringInv
  <1>1. WiringShapes'
    <2>1. gated' \subseteq Wire!Parts /\ ungated' \subseteq Wire!Parts
      BY PartIsPair, ZenonT(60) DEF WiringShapes, Wire!SetUpElection
    <2>2. built' = [p \in Wire!Parts |-> built'[p]]
      BY Zenon DEF WiringShapes, Wire!Built
    <2> QED
      BY <2>1, <2>2, Zenon DEF WiringShapes
  <1>2. BuiltIsGated'
    <2> SUFFICES ASSUME NEW p \in Wire!Parts, built'[p] # None
                 PROVE  config.store = "memory" \/ p \in gated' \cup ungated'
      BY Zenon DEF BuiltIsGated
    <2>1. CASE p = <<r, c>>
      BY <2>1, PartIsPair, Zenon DEF Wire!SetUpElection, WiringShapes
    <2>2. CASE p # <<r, c>>
      <3>1. built'[p] = built[p]
        BY <2>2, PartIsPair, Zenon DEF Wire!Built, WiringShapes
      <3> QED
        BY <3>1, Zenon DEF BuiltIsGated, Wire!SetUpElection
    <2> QED
      BY <2>1, <2>2, Zenon
  <1>3. OnlyEntitled'
    BY Zenon DEF OnlyEntitled, Entitled, Wire!SetUpElection
  <1>4. AloneInMemory'
    BY Zenon DEF AloneInMemory
  <1> QED
    BY <1>1, <1>2, <1>3, <1>4, Zenon

(* Every step of a replica or of the lease keeps the invariant. *)
LEMMA StepWiring ==
  ASSUME None \notin Replicas, None # <<>>, WiringInv, [Wire!Next]_(Wire!vars)
  PROVE  WiringInv'
  <1> USE DEF WiringInv
  <1>1. CASE UNCHANGED Wire!vars
    BY <1>1, Zenon DEF Wire!vars, WiringShapes, BuiltIsGated, OnlyEntitled, Entitled, AloneInMemory
  <1>2. ASSUME NEW r \in Replicas, Wire!InitDiscovery(r) \/ Wire!InitEngine(r) PROVE WiringInv'
    BY <1>2, SetUpKeepsWiring, Zenon DEF Wire!InitDiscovery, Wire!InitEngine, Wire!Components
  <1>3. ASSUME NEW r \in Replicas, Wire!NewListWatchersFails(r) PROVE WiringInv'
    BY <1>3 DEF Wire!NewListWatchersFails, Wire!Building, WiringShapes, BuiltIsGated, OnlyEntitled, Entitled, AloneInMemory
  <1>4. ASSUME NEW r \in Replicas, Wire!InitNacosClientsFails(r) PROVE WiringInv'
    BY <1>4, Zenon DEF Wire!InitNacosClientsFails, WiringShapes, BuiltIsGated, OnlyEntitled, Entitled, AloneInMemory
  <1>5. ASSUME NEW r \in Replicas, Wire!StartComponents(r) PROVE WiringInv'
    <2> USE <1>5 DEF Wire!StartComponents
    <2>1. WiringShapes'
      BY Zenon DEF WiringShapes
    <2>2. OnlyEntitled'
      <3> SUFFICES ASSUME NEW p \in Wire!Parts, todo'[p] # None \/ p \in live PROVE Entitled(p)'
        BY Zenon DEF OnlyEntitled
      <3>1. CASE p[1] = r /\ p \notin gated
        BY <3>1, PartIsPair, Zenon DEF BuiltIsGated, Entitled
      <3>2. CASE ~(p[1] = r /\ p \notin gated)
        BY <3>2, Zenon DEF OnlyEntitled, Entitled
      <3> QED
        BY <3>1, <3>2, Zenon
    <2>3. AloneInMemory'
      BY DEF WiringShapes, AloneInMemory
    <2> QED
      BY <2>1, <2>2, <2>3, Zenon DEF BuiltIsGated
  <1>6. ASSUME NEW r \in Replicas, Wire!StopReplica(r) PROVE WiringInv'
    BY <1>6, SMTT(60) DEF Wire!StopReplica, WiringShapes, BuiltIsGated, OnlyEntitled, Entitled, AloneInMemory
  <1>7. ASSUME NEW r \in Replicas, NEW c \in Wire!Components, Wire!OnStartLeading(r, c) PROVE WiringInv'
    <2> USE <1>7 DEF Wire!OnStartLeading
    <2>1. WiringShapes'
      BY Zenon DEF WiringShapes, Wire!StartBusinessLogic
    <2>2. OnlyEntitled'
      <3> SUFFICES ASSUME NEW p \in Wire!Parts, todo'[p] # None \/ p \in live PROVE Entitled(p)'
        BY Zenon DEF OnlyEntitled
      <3>1. CASE p = <<r, c>>
        BY <3>1, Zenon DEF Entitled, WiringShapes
      <3>2. CASE p # <<r, c>>
        <4>1. Entitled(p)
          BY <3>2, Zenon DEF Wire!StartBusinessLogic, WiringShapes, OnlyEntitled
        <4>2. p[1] \in Replicas /\ p[2] \in Wire!Components
          BY PartIsPair, Zenon
        <4> QED
          BY <4>1, <4>2, Zenon DEF Entitled, WiringShapes
      <3> QED
        BY <3>1, <3>2, Zenon
    <2> QED
      BY <2>1, <2>2, Zenon DEF BuiltIsGated, AloneInMemory
  <1>8. ASSUME NEW r \in Replicas, NEW c \in Wire!Components, Wire!LoseLease(r, c) PROVE WiringInv'
    BY <1>8, PartIsPair DEF Wire!LoseLease, WiringShapes, BuiltIsGated, OnlyEntitled, Entitled, AloneInMemory
  <1>9. ASSUME NEW r \in Replicas, NEW c \in Wire!Components, Wire!OnStopLeading(r, c) PROVE WiringInv'
    BY <1>9, PartIsPair, ZenonT(60) DEF Wire!OnStopLeading, WiringShapes, BuiltIsGated, OnlyEntitled, Entitled, AloneInMemory
  <1>10. ASSUME NEW r \in Replicas, NEW c \in Wire!Components, Wire!Subscribe(r, c) \/ Wire!SubscribeFails(r, c)
         PROVE  WiringInv'
    <2> USE <1>10 DEF Wire!Subscribe, Wire!SubscribeFails
    <2>1. WiringShapes'
      BY Zenon DEF WiringShapes
    <2>2. \A p \in Wire!Parts : todo'[p] # None => todo[p] # None
      BY Zenon DEF WiringShapes
    <2> QED
      BY <2>1, <2>2, Zenon DEF BuiltIsGated, OnlyEntitled, Entitled, AloneInMemory
  <1>11. ASSUME NEW r \in Replicas, NEW c \in Wire!Components, Wire!RunInformers(r, c) PROVE WiringInv'
    <2> USE <1>11 DEF Wire!RunInformers
    <2>1. <<r, c>> \in Wire!Parts /\ todo[<<r, c>>] # None /\ Entitled(<<r, c>>)
      BY PartIsPair, Zenon DEF Wire!StartInformers, OnlyEntitled
    <2>2. CASE c = "discovery" /\ r \in broken /\ <<r, c>> \notin started
      <3> USE <2>2
      <3>1. WiringShapes'
        BY Zenon DEF WiringShapes
      <3>2. OnlyEntitled'
        <4> SUFFICES ASSUME NEW p \in Wire!Parts, todo'[p] # None \/ p \in live' PROVE Entitled(p)'
          BY Zenon DEF OnlyEntitled
        <4>1. p[1] # r /\ Entitled(p)
          BY Zenon DEF OnlyEntitled
        <4> QED
          BY <4>1, PartIsPair, SMTT(60) DEF Entitled, WiringShapes
      <3>3. AloneInMemory'
        BY PartIsPair, SMTT(60) DEF WiringShapes, AloneInMemory
      <3> QED
        BY <3>1, <3>2, <3>3, Zenon DEF BuiltIsGated
    <2>3. CASE ~(c = "discovery" /\ r \in broken /\ <<r, c>> \notin started)
      <3> USE <2>3
      <3>1. WiringShapes'
        BY <2>1, ZenonT(60) DEF WiringShapes
      <3>2. OnlyEntitled'
        BY <2>1, SMTT(60) DEF OnlyEntitled, Entitled, WiringShapes
      <3>3. AloneInMemory'
        BY SMTT(60) DEF AloneInMemory
      <3> QED
        BY <3>1, <3>2, <3>3, Zenon DEF BuiltIsGated
    <2> QED
      BY <2>2, <2>3, Zenon
  <1> QED
    BY <1>1, <1>2, <1>3, <1>4, <1>5, <1>6, <1>7, <1>8, <1>9, <1>10, <1>11, Zenon DEF Wire!Next

(* What has been built, is still to be subscribed and is on the bus of a replica. *)

Configs ==
  [store : {"memory", "database"},
   discovery : {{"zookeeper"}, {"nacos2"}, {"zookeeper", "nacos2"}, {"mock"}},
   engine : {"kubernetes", "mock"}]

Kinds ==
  {"ServiceProviderMapping", "RPCInstance", "ZKConfig", "ZKMetadata", "NacosService", "DynamicConfig",
   "ConditionRoute", "TagRoute", "ServiceProviderMetadata", "ServiceConsumerMetadata", "RuntimeInstance",
   "LifecycleEvent", "Instance", "Application", "Service"}

In(s) == {s[j] : j \in 1 .. Len(s)}

SubscribersOf(c) == IF c = "discovery" THEN Wire!InitSubscribes(config) ELSE Wire!InitSubscribers

PartOf(c) == [informers |-> Wire!InitInformers(Wire!Types(c)), subscribers |-> SubscribersOf(c)]

PartsAreBuilt ==
  /\ config \in Configs
  /\ subscribed \subseteq Wire!Parts /\ broken \subseteq Replicas /\ gated \cap ungated = {}
  /\ live \subseteq started /\ started \subseteq subscribed
  /\ \A p \in gated \cup ungated \cup subscribed : built[p] # None
  /\ \A p \in Wire!Parts : built[p] # None => built[p] = PartOf(p[2])

(* A subscriber is on the bus or still to be put there until all of them are. *)
OnTheBus ==
  /\ directory = [r \in Replicas |-> directory[r]]
  /\ \A p \in Wire!Parts : todo[p] # None =>
       /\ built[p] # None /\ todo[p] \in Seq(Kinds)
       /\ \A k \in In(SubscribersOf(p[2])) : k \in directory[p[1]] \cup In(todo[p])
  /\ \A p \in subscribed : In(SubscribersOf(p[2])) \subseteq directory[p[1]]

BusInv == WiringInv /\ PartsAreBuilt /\ OnTheBus

NoneIsNoPart ==
  /\ None \notin Replicas /\ None # <<>>
  /\ \A i, s : None # [informers |-> i, subscribers |-> s]

(* What two sequences have, their concatenation has. *)
LEMMA InConcatenation ==
  ASSUME NEW s \in Seq(Kinds), NEW t \in Seq(Kinds)
  PROVE  s \o t \in Seq(Kinds) /\ In(s) \cup In(t) \subseteq In(s \o t)
<1>1. /\ s \o t \in Seq(Kinds) /\ Len(s \o t) = Len(s) + Len(t)
      /\ \A i \in 1 .. Len(s) : (s \o t)[i] = s[i]
      /\ \A i \in 1 .. Len(t) : (s \o t)[Len(s) + i] = t[i]
      /\ Len(s) \in Nat /\ Len(t) \in Nat
  OBVIOUS
<1>2. \A i \in 1 .. Len(s) : s[i] \in In(s \o t)
  BY <1>1 DEF In
<1>3. ASSUME NEW i \in 1 .. Len(t) PROVE t[i] \in In(s \o t)
  <2>1. Len(s) + i \in 1 .. Len(s \o t) /\ t[i] = (s \o t)[Len(s) + i]
    BY <1>1
  <2> QED BY <2>1, Zenon DEF In
<1> QED BY <1>1, <1>2, <1>3, Zenon DEF In

(* What a sequence that is listed has. *)
LEMMA InOne ==
  ASSUME NEW a \in Kinds
  PROVE  <<a>> \in Seq(Kinds) /\ a \in In(<<a>>)
<1> DEFINE s == <<a>>
<1>1. s \in Seq(Kinds) /\ Len(s) = 1 /\ s[1] = a
  OBVIOUS
<1> HIDE DEF s
<1>2. s \in Seq(Kinds) /\ a \in In(s)
  BY <1>1 DEF In
<1> QED BY <1>2, Zenon DEF s

LEMMA InTwo ==
  ASSUME NEW a \in Kinds, NEW b \in Kinds
  PROVE  <<a, b>> \in Seq(Kinds) /\ {a, b} \subseteq In(<<a, b>>)
<1> DEFINE s == <<a, b>>
<1>1. s \in Seq(Kinds) /\ Len(s) = 2 /\ s[1] = a /\ s[2] = b
  OBVIOUS
<1> HIDE DEF s
<1>2. s \in Seq(Kinds) /\ {a, b} \subseteq In(s)
  BY <1>1 DEF In
<1> QED BY <1>2, Zenon DEF s

LEMMA InFour ==
  ASSUME NEW a \in Kinds, NEW b \in Kinds, NEW c \in Kinds, NEW d \in Kinds
  PROVE  <<a, b, c, d>> \in Seq(Kinds) /\ {a, b, c, d} \subseteq In(<<a, b, c, d>>)
<1> DEFINE s == <<a, b, c, d>>
<1>1. s \in Seq(Kinds) /\ Len(s) = 4 /\ s[1] = a /\ s[2] = b /\ s[3] = c /\ s[4] = d
  OBVIOUS
<1> HIDE DEF s
<1>2. s \in Seq(Kinds) /\ {a, b, c, d} \subseteq In(s)
  BY <1>1 DEF In
<1> QED BY <1>2, Zenon DEF s

(* The subscribers of discovery (component.go:150-186) and of the engine. *)
LEMMA SubscribersAre ==
  ASSUME PartsAreBuilt
  PROVE  /\ \A c : SubscribersOf(c) \in Seq(Kinds)
         /\ "RuntimeInstance" \in In(SubscribersOf("engine"))
         /\ {"RPCInstance", "ServiceConsumerMetadata", "ServiceProviderMetadata", "Instance"}
              \subseteq In(SubscribersOf("discovery"))
         /\ "nacos2" \in config.discovery => "NacosService" \in In(SubscribersOf("discovery"))
         /\ "zookeeper" \in config.discovery =>
              {"ZKMetadata", "ZKConfig"} \subseteq In(SubscribersOf("discovery"))
         /\ config.engine = "kubernetes" => "LifecycleEvent" \in In(SubscribersOf("discovery"))
<1> DEFINE base == <<"RPCInstance", "ServiceConsumerMetadata", "ServiceProviderMetadata", "Instance">>
           nacos == IF "nacos2" \in config.discovery THEN <<"NacosService">> ELSE <<>>
           zk == IF "zookeeper" \in config.discovery THEN <<"ZKMetadata", "ZKConfig">> ELSE <<>>
           k8s == IF config.engine = "kubernetes" THEN <<"LifecycleEvent">> ELSE <<>>
<1>0. {"RPCInstance", "ServiceConsumerMetadata", "ServiceProviderMetadata", "Instance", "NacosService",
       "ZKMetadata", "ZKConfig", "LifecycleEvent", "RuntimeInstance"} \subseteq Kinds /\ <<>> \in Seq(Kinds)
  BY DEF Kinds
<1>1. /\ base \in Seq(Kinds)
      /\ {"RPCInstance", "ServiceConsumerMetadata", "ServiceProviderMetadata", "Instance"} \subseteq In(base)
  BY <1>0, InFour, Zenon
<1>2. nacos \in Seq(Kinds) /\ ("nacos2" \in config.discovery => "NacosService" \in In(nacos))
  BY <1>0, InOne, Zenon
<1>3. zk \in Seq(Kinds) /\ ("zookeeper" \in config.discovery => {"ZKMetadata", "ZKConfig"} \subseteq In(zk))
  BY <1>0, InTwo, Zenon
<1>4. k8s \in Seq(Kinds) /\ (config.engine = "kubernetes" => "LifecycleEvent" \in In(k8s))
  BY <1>0, InOne, Zenon
<1>5. SubscribersOf("discovery") = ((base \o nacos) \o zk) \o k8s
  BY Zenon DEF SubscribersOf, Wire!InitSubscribes
<1> HIDE DEF base, nacos, zk, k8s
<1>6. base \o nacos \in Seq(Kinds) /\ In(base) \cup In(nacos) \subseteq In(base \o nacos)
  BY <1>1, <1>2, InConcatenation, Zenon
<1>7. /\ (base \o nacos) \o zk \in Seq(Kinds)
      /\ In(base \o nacos) \cup In(zk) \subseteq In((base \o nacos) \o zk)
  BY <1>3, <1>6, InConcatenation, Zenon
<1>8. /\ SubscribersOf("discovery") \in Seq(Kinds)
      /\ In((base \o nacos) \o zk) \cup In(k8s) \subseteq In(SubscribersOf("discovery"))
  BY <1>4, <1>5, <1>7, InConcatenation, Zenon
<1>9. \A c : SubscribersOf(c) = IF c = "discovery" THEN SubscribersOf("discovery") ELSE <<"RuntimeInstance">>
  BY Zenon DEF SubscribersOf, Wire!InitSubscribers
<1>10. <<"RuntimeInstance">> \in Seq(Kinds) /\ "RuntimeInstance" \in In(<<"RuntimeInstance">>)
  BY <1>0, InOne, Zenon
<1>11. SubscribersOf("engine") = <<"RuntimeInstance">>
  BY <1>9, Zenon
<1> QED BY <1>1, <1>2, <1>3, <1>4, <1>6, <1>7, <1>8, <1>9, <1>10, <1>11, Zenon

(* Taking the first of a sequence. *)
LEMMA InHeadOrTail ==
  ASSUME NEW s \in Seq(Kinds), s # <<>>
  PROVE  Tail(s) \in Seq(Kinds) /\ \A k \in In(s) : k = Head(s) \/ k \in In(Tail(s))
<1>1. /\ Tail(s) \in Seq(Kinds) /\ Len(s) \in Nat \ {0} /\ Len(Tail(s)) = Len(s) - 1 /\ Head(s) = s[1]
      /\ \A i \in 1 .. Len(s) - 1 : Tail(s)[i] = s[i + 1]
  OBVIOUS
<1>2. ASSUME NEW j \in 1 .. Len(s), j # 1 PROVE s[j] \in In(Tail(s))
  <2>1. j - 1 \in 1 .. Len(Tail(s)) /\ Tail(s)[j - 1] = s[j]
    BY <1>1, <1>2
  <2> QED BY <2>1, Zenon DEF In
<1> QED BY <1>1, <1>2, Zenon DEF In

LEMMA InitBus == Wire!Init => BusInv
<1> SUFFICES ASSUME Wire!Init PROVE BusInv
  BY Zenon
<1>1. PartsAreBuilt
  BY Zenon DEF Wire!Init, PartsAreBuilt, Configs
<1>2. OnTheBus
  BY Zenon DEF Wire!Init, OnTheBus
<1> QED BY <1>1, <1>2, InitWiring, Zenon DEF BusInv

(* A component is built. *)
LEMMA SetUpKeepsBus ==
  ASSUME NoneIsNoPart, BusInv, NEW r \in Replicas, NEW c \in Wire!Components, built[<<r, c>>] = None,
         Wire!Built(r, c), Wire!SetUpElection(r, c),
         UNCHANGED <<config, replica, todo, directory, subscribed, started, live, leader, ending, terms, broken>>
  PROVE  PartsAreBuilt' /\ OnTheBus'
<1> USE DEF BusInv
<1>1. <<r, c>> \in Wire!Parts /\ <<r, c>>[2] = c
  BY PartIsPair, Zenon
<1>2. built' = [built EXCEPT ![<<r, c>>] = PartOf(c)]
  BY Zenon DEF Wire!Built, PartOf, SubscribersOf
<1>3. PartOf(c) # None
  BY Zenon DEF NoneIsNoPart, PartOf
<1>4. \A p \in Wire!Parts : built'[p] = IF p = <<r, c>> THEN PartOf(c) ELSE built[p]
  BY <1>1, <1>2, Zenon DEF WiringInv, WiringShapes
<1>5. \A k : PartOf(k)' = PartOf(k) /\ SubscribersOf(k)' = SubscribersOf(k)
  BY Zenon DEF PartOf, SubscribersOf, Wire!Types
<1>6. /\ gated \subseteq Wire!Parts /\ ungated \subseteq Wire!Parts /\ subscribed \subseteq Wire!Parts
      /\ <<r, c>> \notin gated \cup ungated
  BY Zenon DEF WiringInv, WiringShapes, PartsAreBuilt
<1>7. /\ gated' \cup ungated' \subseteq gated \cup ungated \cup {<<r, c>>}
      /\ gated' \cap ungated' = {}
  BY <1>6, Zenon DEF Wire!SetUpElection, PartsAreBuilt
<1>8. \A p \in gated' \cup ungated' \cup subscribed' : built'[p] # None
  BY <1>1, <1>3, <1>4, <1>6, <1>7, Zenon DEF PartsAreBuilt
<1>9. \A p \in Wire!Parts : built'[p] # None => built'[p] = PartOf(p[2])'
  BY <1>1, <1>4, <1>5, Zenon DEF PartsAreBuilt
<1>10. PartsAreBuilt'
  BY <1>7, <1>8, <1>9, Zenon DEF PartsAreBuilt
<1>11. OnTheBus'
  BY <1>3, <1>4, <1>5, Zenon DEF OnTheBus
<1> QED BY <1>10, <1>11
(* Components that are started have their subscribers still to subscribe. *), Zenon
LEMMA StartKeepsBus ==
  ASSUME NoneIsNoPart, BusInv, NEW r \in Replicas,
         \/ Wire!StartComponents(r)
         \/ \E c \in Wire!Components : Wire!OnStartLeading(r, c)
  PROVE  PartsAreBuilt' /\ OnTheBus'
<1> USE DEF BusInv
<1>1. UNCHANGED <<config, built, gated, ungated, directory, subscribed, started, live, broken>>
  BY Zenon DEF Wire!StartComponents, Wire!OnStartLeading
<1>2. \A k : PartOf(k)' = PartOf(k) /\ SubscribersOf(k)' = SubscribersOf(k)
  BY <1>1, Zenon DEF PartOf, SubscribersOf, Wire!Types
<1>3. PartsAreBuilt'
  BY <1>1, <1>2, Zenon DEF PartsAreBuilt
<1>4. \A p \in Wire!Parts : \/ todo'[p] = todo[p]
                            \/ p \in subscribed /\ todo'[p] = <<>>
                            \/ built[p] # None /\ todo'[p] = built[p].subscribers
  <2>1. CASE Wire!StartComponents(r)
    BY <2>1, PartIsPair, Zenon DEF Wire!StartComponents
  <2>2. ASSUME NEW c \in Wire!Components, Wire!OnStartLeading(r, c)
        PROVE  \A p \in Wire!Parts : \/ todo'[p] = todo[p]
                                     \/ p \in subscribed /\ todo'[p] = <<>>
                                     \/ built[p] # None /\ todo'[p] = built[p].subscribers
    <3>1. <<r, c>> \in Wire!Parts /\ <<r, c>> \in gated /\ built[<<r, c>>] # None
      BY <2>2, PartIsPair, Zenon DEF Wire!OnStartLeading, PartsAreBuilt
    <3> QED BY <2>2, <3>1 DEF Wire!OnStartLeading, Wire!StartBusinessLogic, WiringInv, WiringShapes
  <2> QED BY <2>1, <2>2, Zenon
<1>5. ASSUME NEW p \in Wire!Parts, todo'[p] # None
      PROVE  /\ built[p] # None /\ todo'[p] \in Seq(Kinds)
             /\ \A k \in In(SubscribersOf(p[2])) : k \in directory[p[1]] \cup In(todo'[p])
  <2>1. CASE todo'[p] = todo[p]
    BY <1>5, <2>1, Zenon DEF OnTheBus
  <2>2. CASE p \in subscribed /\ todo'[p] = <<>>
    BY <2>2 DEF OnTheBus, PartsAreBuilt
  <2>3. CASE built[p] # None /\ todo'[p] = built[p].subscribers
    <3>0. built[p] = PartOf(p[2])
      BY <2>3, Zenon DEF PartsAreBuilt
    <3>1. todo'[p] = SubscribersOf(p[2])
      BY <2>3, <3>0 DEF PartOf
    <3> QED BY <2>3, <3>1, SubscribersAre, Zenon
  <2> QED BY <1>4, <2>1, <2>2, <2>3, Zenon
<1>6. OnTheBus'
  BY <1>1, <1>2, <1>5, Zenon DEF OnTheBus
<1> QED BY <1>3, <1>6, Zenon

LEMMA SubscribeKeepsBus ==
  ASSUME NoneIsNoPart, BusInv, NEW r \in Replicas, NEW c \in Wire!Components, Wire!Subscribe(r, c)
  PROVE  PartsAreBuilt' /\ OnTheBus'
<1> USE DEF BusInv
<1> DEFINE p == <<r, c>>
           s == todo[p]
<1>1. /\ UNCHANGED <<config, built, gated, ungated, subscribed, started, live, broken>>
      /\ s \notin {None, <<>>}
      /\ directory' = [directory EXCEPT ![r] = @ \cup {Head(s)}]
      /\ todo' = [todo EXCEPT ![p] = Tail(s)]
  BY Zenon DEF Wire!Subscribe
<1>2. \A k : PartOf(k)' = PartOf(k) /\ SubscribersOf(k)' = SubscribersOf(k)
  BY <1>1, Zenon DEF PartOf, SubscribersOf, Wire!Types
<1>3. PartsAreBuilt'
  BY <1>1, <1>2, Zenon DEF PartsAreBuilt
<1>4. p \in Wire!Parts /\ p[1] = r /\ s \in Seq(Kinds) /\ s # <<>> /\ built[p] # None
  BY <1>1, PartIsPair, Zenon DEF OnTheBus
<1>5. Tail(s) \in Seq(Kinds) /\ \A k \in In(s) : k = Head(s) \/ k \in In(Tail(s))
  BY <1>4, InHeadOrTail, Zenon
<1>6. /\ directory' = [x \in Replicas |-> directory'[x]]
      /\ \A x \in Replicas : directory[x] \subseteq directory'[x]
      /\ Head(s) \in directory'[r]
  BY <1>1, Zenon DEF OnTheBus
<1>7. todo'[p] = Tail(s) /\ \A q \in Wire!Parts : q # p => todo'[q] = todo[q]
  BY <1>1, <1>4, Zenon DEF WiringInv, WiringShapes
<1> HIDE DEF p
<1>8. ASSUME NEW q \in Wire!Parts, todo'[q] # None
      PROVE  /\ built[q] # None /\ todo'[q] \in Seq(Kinds)
             /\ \A k \in In(SubscribersOf(q[2])) : k \in directory'[q[1]] \cup In(todo'[q])
  <2>0. q[1] \in Replicas
    BY PartIsPair, Zenon
  <2>1. CASE q = p
    BY <1>4, <1>5, <1>6, <1>7, <2>1, <1>1, Zenon DEF OnTheBus
  <2>2. CASE q # p
    BY <1>6, <1>7, <1>8, <2>0, <2>2, Zenon DEF OnTheBus
  <2> QED BY <2>1, <2>2, Zenon
<1>9. \A q \in subscribed : In(SubscribersOf(q[2])) \subseteq directory'[q[1]]
  BY <1>6, PartIsPair, Zenon DEF OnTheBus, PartsAreBuilt
<1>10. OnTheBus'
  BY <1>1, <1>2, <1>6, <1>8, <1>9, Zenon DEF OnTheBus
<1> QED BY <1>3, <1>10, Zenon

LEMMA RunKeepsBus ==
  ASSUME NoneIsNoPart, BusInv, NEW r \in Replicas, NEW c \in Wire!Components, Wire!RunInformers(r, c)
  PROVE  PartsAreBuilt' /\ OnTheBus'
<1> USE DEF BusInv
<1>1. /\ UNCHANGED <<config, built, gated, ungated, directory, broken>>
      /\ todo[<<r, c>>] = <<>> /\ subscribed' = subscribed \cup {<<r, c>>} /\ started' = started \cup {<<r, c>>}
      /\ live' \subseteq live \cup {<<r, c>>}
  BY Zenon DEF Wire!RunInformers, Wire!StartInformers
<1>2. \A k : PartOf(k)' = PartOf(k) /\ SubscribersOf(k)' = SubscribersOf(k)
  BY <1>1, Zenon DEF PartOf, SubscribersOf, Wire!Types
<1>3. \A p \in Wire!Parts : todo'[p] \in {todo[p], None}
  BY Zenon DEF Wire!RunInformers, WiringInv, WiringShapes
<1>4. <<r, c>> \in Wire!Parts /\ <<r, c>>[1] = r /\ <<r, c>>[2] = c
  BY PartIsPair, Zenon
<1>5. built[<<r, c>>] # None /\ In(SubscribersOf(c)) \subseteq directory[r]
  <2>1. todo[<<r, c>>] # None
    BY <1>1, Zenon DEF NoneIsNoPart
  <2>2. \A k \in In(SubscribersOf(c)) : k \in directory[r] \cup In(<<>>)
    BY <1>1, <1>4, <2>1, Zenon DEF OnTheBus
  <2>3. In(<<>>) = {}
    BY SMTT(60) DEF In
  <2> QED BY <1>4, <2>1, <2>2, <2>3, Zenon DEF OnTheBus
<1>6. PartsAreBuilt'
  BY <1>1, <1>2, <1>4, <1>5, Zenon DEF PartsAreBuilt
<1>7. OnTheBus'
  BY <1>1, <1>2, <1>3, <1>4, <1>5, Zenon DEF OnTheBus
<1> QED BY <1>6, <1>7, Zenon

LEMMA StepBus ==
  ASSUME NoneIsNoPart, BusInv, [Wire!Next]_(Wire!vars)
  PROVE  BusInv'
<1> USE DEF BusInv
<1>0. WiringInv'
  BY StepWiring, Zenon DEF NoneIsNoPart
<1>1. CASE UNCHANGED <<config, built, gated, ungated, todo, directory, subscribed, started, broken>>
           /\ live' \subseteq live
  <2>1. \A k : PartOf(k)' = PartOf(k) /\ SubscribersOf(k)' = SubscribersOf(k)
    BY <1>1, Zenon DEF PartOf, SubscribersOf, Wire!Types
  <2>2. PartsAreBuilt'
    BY <1>1, <2>1, Zenon DEF PartsAreBuilt
  <2>3. OnTheBus'
    BY <1>1, <2>1, Zenon DEF OnTheBus
  <2> QED BY <1>0, <2>2, <2>3, Zenon
<1>2. ASSUME NEW r \in Replicas, Wire!InitDiscovery(r) \/ Wire!InitEngine(r) PROVE BusInv'
  <2>1. "discovery" \in Wire!Components /\ "engine" \in Wire!Components
    BY Zenon DEF Wire!Components
  <2> QED BY <1>0, <1>2, <2>1, SetUpKeepsBus, Zenon DEF Wire!InitDiscovery, Wire!InitEngine
<1>3. ASSUME NEW r \in Replicas, Wire!InitNacosClientsFails(r) PROVE BusInv'
  <2>1. UNCHANGED <<config, built, gated, ungated, todo, directory, subscribed, started, live>>
        /\ broken' = broken \cup {r}
    BY <1>3, Zenon DEF Wire!InitNacosClientsFails
  <2>2. \A k : PartOf(k)' = PartOf(k) /\ SubscribersOf(k)' = SubscribersOf(k)
    BY <2>1, Zenon DEF PartOf, SubscribersOf, Wire!Types
  <2>3. PartsAreBuilt'
    BY <2>1, <2>2, Zenon DEF PartsAreBuilt
  <2>4. OnTheBus'
    BY <2>1, <2>2, Zenon DEF OnTheBus
  <2> QED BY <1>0, <2>3, <2>4, Zenon
<1>4. ASSUME NEW r \in Replicas, NEW c \in Wire!Components, Wire!SubscribeFails(r, c) PROVE BusInv'
  <2>1. UNCHANGED <<config, built, gated, ungated, directory, subscribed, started, live, broken>>
    BY <1>4, Zenon DEF Wire!SubscribeFails
  <2>2. \A p \in Wire!Parts : todo'[p] \in {todo[p], None}
    BY <1>4, Zenon DEF Wire!SubscribeFails, WiringInv, WiringShapes
  <2>3. \A k : PartOf(k)' = PartOf(k) /\ SubscribersOf(k)' = SubscribersOf(k)
    BY <2>1, Zenon DEF PartOf, SubscribersOf, Wire!Types
  <2>4. PartsAreBuilt'
    BY <2>1, <2>3, Zenon DEF PartsAreBuilt
  <2>5. OnTheBus'
    BY <2>1, <2>2, <2>3, Zenon DEF OnTheBus
  <2> QED BY <1>0, <2>4, <2>5, Zenon
<1>5. ASSUME NEW r \in Replicas,
             Wire!NewListWatchersFails(r) \/ Wire!StopReplica(r) \/
             \E c \in Wire!Components : Wire!LoseLease(r, c) \/ Wire!OnStopLeading(r, c)
      PROVE  BusInv'
  BY <1>1, <1>5, Zenon DEF Wire!NewListWatchersFails, Wire!StopReplica, Wire!LoseLease, Wire!OnStopLeading
<1>6. CASE UNCHANGED Wire!vars
  BY <1>1, <1>6, Zenon DEF Wire!vars
<1> QED BY <1>0, <1>2, <1>3, <1>4, <1>5, <1>6, StartKeepsBus, SubscribeKeepsBus, RunKeepsBus, Zenon DEF Wire!Next
(* Kinds all of whose consequences have a subscriber on the bus of the replica. *)
Handled(r, S) ==
  /\ S \subseteq Kinds
  /\ \A k \in S : Wire!Derives(k) \subseteq S
  /\ \A k \in S : Wire!Derives(k) # {} => k \in directory[r]

(* What follows from handled kinds follows on the replica. *)
LEMMA HandledFollow ==
  ASSUME NEW r \in Replicas, NEW S, Handled(r, S), NEW K \in SUBSET S
  PROVE  Wire!FollowOn(r, K) = Wire!Follow(K) /\ Wire!Follow(K) \in SUBSET S
<1>1. \A x : x \in Wire!FollowOn(r, K) <=> x \in K \/ \E k \in K : k \in directory[r] /\ x \in Wire!Derives(k)
  BY Zenon DEF Wire!FollowOn
<1>2. \A x : x \in Wire!Follow(K) <=> x \in K \/ \E k \in K : x \in Wire!Derives(k)
  BY Zenon DEF Wire!Follow
<1>3. \A k \in K : (k \in directory[r] \/ Wire!Derives(k) = {}) /\ Wire!Derives(k) \subseteq S
  BY Zenon DEF Handled
<1>4. Wire!Follow(K) \in SUBSET S
  BY <1>2, <1>3, Zenon
<1>5. \A x : x \in Wire!FollowOn(r, K) <=> x \in Wire!Follow(K)
  BY <1>1, <1>2, <1>3, Zenon
<1> QED BY <1>4, <1>5, Zenon

LEMMA HandledConsequences ==
  ASSUME NEW r \in Replicas, NEW S, Handled(r, S), NEW kind \in S
  PROVE  Wire!ConsequencesOn(r, kind) = Wire!Consequences(kind)
<1>1. Wire!FollowOn(r, {kind}) = Wire!Follow({kind}) /\ Wire!Follow({kind}) \in SUBSET S
  BY HandledFollow, Zenon
<1> DEFINE K == Wire!Follow({kind})
<1>2. Wire!FollowOn(r, K) = Wire!Follow(K) /\ Wire!Follow(K) \in SUBSET S
  BY <1>1, HandledFollow, Zenon
<1> DEFINE L == Wire!Follow(K)
<1>3. Wire!FollowOn(r, L) = Wire!Follow(L)
  BY <1>2, HandledFollow
<1> QED BY <1>1, <1>2, <1>3, Zenon DEF Wire!ConsequencesOn, Wire!Consequences

(* What each kind derives. *)
LEMMA DerivesAre ==
  /\ Wire!Derives("NacosService") = {"RPCInstance", "ServiceConsumerMetadata"}
  /\ Wire!Derives("ZKMetadata") = {"ServiceProviderMetadata", "ServiceConsumerMetadata"}
  /\ Wire!Derives("ZKConfig") = {"DynamicConfig", "ConditionRoute", "TagRoute"}
  /\ Wire!Derives("RPCInstance") = {"Instance"} /\ Wire!Derives("RuntimeInstance") = {"Instance"}
  /\ Wire!Derives("Instance") = {"Application"}
  /\ Wire!Derives("ServiceProviderMetadata") = {"Application", "Service"}
  /\ Wire!Derives("ServiceConsumerMetadata") = {"Application"}
  /\ \A k \in {"ServiceProviderMapping", "DynamicConfig", "ConditionRoute", "TagRoute", "LifecycleEvent",
               "Application", "Service"} : Wire!Derives(k) = {}
BY Zenon DEF Wire!Derives

(* The kinds that a configured discovery knows how to handle, without or with the pods'. *)
Known(pods) ==
  Kinds \ ((IF pods THEN {} ELSE {"RuntimeInstance"})
           \cup (IF "nacos2" \in config.discovery THEN {} ELSE {"NacosService"})
           \cup (IF "zookeeper" \in config.discovery THEN {} ELSE {"ZKMetadata", "ZKConfig"}))

LEMMA KnownIsHandled ==
  ASSUME PartsAreBuilt, NEW r \in Replicas, NEW pods \in BOOLEAN,
         In(SubscribersOf("discovery")) \subseteq directory[r],
         pods => "RuntimeInstance" \in directory[r]
  PROVE  Handled(r, Known(pods))
<1>1. Known(pods) \subseteq Kinds
  BY Zenon DEF Known
<1>2. {"RPCInstance", "ServiceConsumerMetadata", "ServiceProviderMetadata", "Instance"} \subseteq directory[r]
  BY SubscribersAre, Zenon
<1>3. /\ "nacos2" \in config.discovery => "NacosService" \in directory[r]
      /\ "zookeeper" \in config.discovery => "ZKMetadata" \in directory[r] /\ "ZKConfig" \in directory[r]
  BY SubscribersAre, Zenon
<1>4. ASSUME NEW k \in Known(pods) PROVE Wire!Derives(k) # {} => k \in directory[r]
  BY <1>2, <1>3, DerivesAre, ZenonT(60) DEF Known, Kinds
<1>5. {"RPCInstance", "ServiceConsumerMetadata", "ServiceProviderMetadata", "Instance", "DynamicConfig",
       "ConditionRoute", "TagRoute", "Application", "Service"} \subseteq Known(pods)
  BY ZenonT(60) DEF Known, Kinds
<1>6. ASSUME NEW k \in Kinds
      PROVE Wire!Derives(k) \subseteq
        {"RPCInstance", "ServiceConsumerMetadata", "ServiceProviderMetadata", "Instance", "DynamicConfig",
         "ConditionRoute", "TagRoute", "Application", "Service"}
  BY DerivesAre DEF Kinds
<1> QED BY <1>1, <1>4, <1>5, <1>6, Zenon DEF Handled

(* The kinds that are listed in a configured registry or platform. *)
LEMMA ListedKinds ==
  ASSUME PartsAreBuilt, NEW i, NEW c \in Wire!Components, i \in Wire!InitInformers(Wire!Types(c))
  PROVE  /\ c = "discovery" => i[2] \in Known(FALSE) /\ i[2] # "LifecycleEvent"
         /\ c = "engine" => config.engine = "kubernetes" /\ i[2] \in {"RuntimeInstance", "LifecycleEvent"}
<1>1. PICK t \in Wire!Types(c) : i \in {t} \X Wire!NewListWatchers(t)
  BY Zenon DEF Wire!InitInformers
<1>2. i[2] \in Wire!NewListWatchers(t)
  BY <1>1, Zenon
<1>3. CASE c = "engine"
  <2>1. t = config.engine /\ t \in {"kubernetes", "mock"}
    BY <1>1, <1>3, Zenon DEF Wire!Types, PartsAreBuilt, Configs
  <2> QED BY <1>2, <1>3, <2>1, Zenon DEF Wire!NewListWatchers, Wire!KubernetesListWatchers
<1>4. CASE c = "discovery"
  <2>1. t \in config.discovery /\ t \in {"zookeeper", "nacos2", "mock"}
    BY <1>1, <1>4, Zenon DEF Wire!Types, PartsAreBuilt, Configs
  <2>2. CASE t = "zookeeper"
    BY <1>2, <1>4, <2>1, <2>2, Zenon DEF Wire!NewListWatchers, Wire!ZookeeperListWatchers, Known, Kinds
  <2>3. CASE t = "nacos2"
    BY <1>2, <1>4, <2>1, <2>3, Zenon DEF Wire!NewListWatchers, Wire!NacosListerWatchers, Known, Kinds
  <2>4. CASE t = "mock"
    BY <1>2, <2>4, Zenon DEF Wire!NewListWatchers
  <2> QED BY <2>1, <2>2, <2>3, <2>4, Zenon
<1> QED BY <1>3, <1>4, Zenon DEF Wire!Components
(* What an informer of the engine reports, where discovery has not subscribed. *)
LEMMA PodsAreDerived ==
  ASSUME NEW r \in Replicas, "RuntimeInstance" \in directory[r], NEW kind \in {"RuntimeInstance", "LifecycleEvent"}
  PROVE  Wire!Consequences(kind) \ {"Application"} \subseteq Wire!ConsequencesOn(r, kind)
<1>0. \A K : K \subseteq Wire!FollowOn(r, K)
  BY Zenon DEF Wire!FollowOn
<1>1. CASE kind = "LifecycleEvent"
  <2>1. Wire!Follow({kind}) = {kind}
    BY <1>1, DerivesAre DEF Wire!Follow
  <2> QED BY <1>0, <2>1, Zenon DEF Wire!Consequences, Wire!ConsequencesOn
<1>2. CASE kind = "RuntimeInstance"
  <2>1. Wire!Follow({kind}) = {kind, "Instance"}
    BY <1>2, DerivesAre DEF Wire!Follow
  <2>2. Wire!Follow({kind, "Instance"}) = {kind, "Instance", "Application"}
    BY <1>2, DerivesAre DEF Wire!Follow
  <2>3. Wire!Follow({kind, "Instance", "Application"}) = {kind, "Instance", "Application"}
    BY <1>2, DerivesAre DEF Wire!Follow
  <2>4. Wire!Consequences(kind) = {kind, "Instance", "Application"}
    BY <2>1, <2>2, <2>3, Zenon DEF Wire!Consequences
  <2>5. {kind, "Instance"} \subseteq Wire!FollowOn(r, {kind})
    BY <1>2, DerivesAre DEF Wire!FollowOn
  <2>6. {kind, "Instance"} \subseteq Wire!ConsequencesOn(r, kind)
    BY <1>0, <2>5, Zenon DEF Wire!ConsequencesOn
  <2> QED BY <2>4, <2>6, Zenon
<1> QED BY <1>1, <1>2, Zenon

LEMMA RunningIsHandled ==
  ASSUME BusInv
  PROVE  Wire!EventsAreHandled
<1> USE DEF BusInv
<1> SUFFICES ASSUME NEW p \in live, NEW i \in built[p].informers
             PROVE  LET all == Wire!Consequences(i[2])
                    IN \/ /\ all \subseteq Wire!ConsequencesOn(p[1], i[2])
                          /\ i[2] = "LifecycleEvent" => i[2] \in directory[p[1]]
                       \/ /\ p[2] = "engine" /\ <<p[1], "discovery">> \notin subscribed
                          /\ all \ {"Application"} \subseteq Wire!ConsequencesOn(p[1], i[2])
  BY Zenon DEF Wire!EventsAreHandled
<1> DEFINE r == p[1]
           c == p[2]
<1>1. /\ p \in Wire!Parts /\ p \in subscribed /\ p = <<r, c>> /\ r \in Replicas /\ c \in Wire!Components
      /\ built[p] # None /\ built[p] = PartOf(c)
  BY PartIsPair, Zenon DEF WiringInv, WiringShapes, PartsAreBuilt
<1>2. i \in Wire!InitInformers(Wire!Types(c))
  BY <1>1 DEF PartOf
<1>3. In(SubscribersOf(c)) \subseteq directory[r]
  BY <1>1, Zenon DEF OnTheBus
<1> HIDE DEF r, c
<1>4. CASE c = "discovery"
  <2>1. i[2] \in Known(FALSE) /\ i[2] # "LifecycleEvent"
    BY <1>1, <1>2, <1>4, ListedKinds, Zenon
  <2>2. Handled(r, Known(FALSE))
    BY <1>1, <1>3, <1>4, KnownIsHandled, Zenon
  <2>3. Wire!ConsequencesOn(r, i[2]) = Wire!Consequences(i[2])
    BY <1>1, <2>1, <2>2, HandledConsequences, Zenon
  <2> QED BY <2>1, <2>3, Zenon DEF r
<1>5. CASE c = "engine"
  <2>1. config.engine = "kubernetes" /\ i[2] \in {"RuntimeInstance", "LifecycleEvent"}
    BY <1>1, <1>2, <1>5, ListedKinds, Zenon
  <2>2. "RuntimeInstance" \in directory[r]
    BY <1>3, <1>5, SubscribersAre, Zenon
  <2>3. CASE <<r, "discovery">> \in subscribed
    <3>1. In(SubscribersOf("discovery")) \subseteq directory[r]
      <4>1. <<r, "discovery">>[1] = r /\ <<r, "discovery">>[2] = "discovery"
        BY Zenon
      <4> QED BY <2>3, <4>1, Zenon DEF OnTheBus
    <3>2. Handled(r, Known(TRUE))
      BY <1>1, <2>2, <3>1, KnownIsHandled, Zenon
    <3>3. i[2] \in Known(TRUE)
      BY <2>1, Zenon DEF Known, Kinds
    <3>4. Wire!ConsequencesOn(r, i[2]) = Wire!Consequences(i[2])
      BY <1>1, <3>2, <3>3, HandledConsequences, Zenon
    <3>5. "LifecycleEvent" \in directory[r]
      BY <2>1, <3>1, SubscribersAre, Zenon
    <3> QED BY <3>4, <3>5, Zenon DEF r
  <2>4. CASE <<r, "discovery">> \notin subscribed
    <3>1. Wire!Consequences(i[2]) \ {"Application"} \subseteq Wire!ConsequencesOn(r, i[2])
      BY <1>1, <2>1, <2>2, PodsAreDerived, Zenon
    <3> QED BY <1>5, <2>4, <3>1, Zenon DEF r, c
  <2> QED BY <2>3, <2>4, Zenon
<1> QED BY <1>1, <1>4, <1>5, Zenon DEF Wire!Components

(* However many replicas start, stop, crash and change the lead, the informers of a component run  *)
(* on one replica only, but for one that is about to stop them after losing its lease               *)
(* (leader.go:225-290) or could not ensure the lease table (discovery/component.go:122-148), and    *)
(* wherever they run the subscribers that derive from what they report are on the bus before them   *)
(* (:188-208, engine/component.go:226-242).                                                           *)
THEOREM InformersMeetSubscribers ==
  ASSUME NoneIsNoPart
  PROVE  Wire!Spec => []Wire!EventsMeetSubscribers
<1>1. BusInv => Wire!EventsMeetSubscribers
  <2> SUFFICES ASSUME BusInv PROVE Wire!EventsMeetSubscribers
    BY Zenon
  <2>1. Wire!TypeOK
    <3>1. started \subseteq Wire!Parts /\ \A p \in Wire!Parts : todo[p] # None => built[p] # None
      BY Zenon DEF BusInv, OnTheBus, PartsAreBuilt
    <3> QED BY <3>1, Zenon DEF BusInv, WiringInv, WiringShapes, PartsAreBuilt, Wire!TypeOK
  <2>2. Wire!OneReplicaRuns
    BY PartIsPair DEF BusInv, WiringInv, WiringShapes, OnlyEntitled, Entitled, AloneInMemory, Wire!OneReplicaRuns
  <2> QED BY <2>1, <2>2, RunningIsHandled, Zenon DEF Wire!EventsMeetSubscribers
<1>2. BusInv /\ [Wire!Next]_(Wire!vars) => BusInv'
  BY StepBus, Zenon
<1> QED BY <1>1, <1>2, InitBus, PTL DEF Wire!Spec
=============================================================================
