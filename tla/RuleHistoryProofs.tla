-------------------------- MODULE RuleHistoryProofs --------------------------
(***************************************************************************)
(* Proofs about the version history of a rule, for any number of replicas, *)
(* calls and kept versions: the newest entry is never removed whatever     *)
(* runs concurrently, an insert that runs alone is numbered above all      *)
(* other entries and heals the retention, and a mutation is recorded once. *)
(***************************************************************************)
EXTENDS RuleHistory, FiniteSetTheorems, WellFoundedInduction, TLAPS

\* A call inside the retry loop has a number.
NumbersArePositive ==
  \A c \in Calls : pc[c] \in {"add", "confirm", "reread"} => versionNo[c] > 0

\* What a retention still has to delete is older than some entry.
ExcessIsOlder ==
  \A c \in Calls : \A n \in toDelete[c] : \E v \in history : n < v.no

HistoryInv == TypeOK /\ NumbersArePositive /\ ExcessIsOlder

\* The mutexes are held by whoever is inside them.
LocksAreHeld ==
  /\ \A c \in Calls : pc[c] \in Locked => parentLock[Replica[c]] = c
  /\ \A c \in Mutations :
       pc[c] \in Locked \cup {"hasHistory", "insert"} => ruleLock = c

\* Two inserts at the same time are recorded as overlapping.
OverlapIsSeen ==
  \A c, d \in Calls : pc[c] \in Locked /\ pc[d] \in Locked /\ c # d => c \in overlap

\* A number about to be inserted by a call that runs alone is above all others.
PendingIsNext ==
  \A c \in Calls : pc[c] = "add" /\ c \notin overlap => \A v \in history : v.no < versionNo[c]

-----------------------------------------------------------------------------
(* Types and retention                                                      *)

LEMMA InitHistoryInv == Init => HistoryInv
<1> SUFFICES ASSUME Init PROVE HistoryInv
  BY Zenon
<1>1. TypeOK
  BY HistoryAssumption, Zenon DEF Init, TypeOK, Steps
<1>2. NumbersArePositive /\ ExcessIsOlder
  BY Zenon DEF Init, NumbersArePositive, ExcessIsOlder
<1> QED BY <1>1, <1>2, Zenon DEF HistoryInv

\* An entry beyond the kept window has a newer one.
LEMMA ExcessHasNewer ==
  ASSUME MaxVersions > 0, NEW n \in Excess
  PROVE  \E v \in history : n < v.no
<1>1. PICK w \in history : n = w.no /\ Cardinality({x \in history : x.no > w.no}) >= MaxVersions
  BY Zenon DEF Excess
<1> DEFINE Newer == {x \in history : x.no > w.no}
<1>2. Cardinality(Newer) >= MaxVersions
  BY <1>1, Zenon
<1> HIDE DEF Newer
<1>3. Newer # {}
  BY <1>2, FS_EmptySet, HistoryAssumption
<1> QED BY <1>1, <1>3, Zenon DEF Newer

LEMMA RejectedType ==
  ASSUME HistoryInv, NEW c \in Calls, Rejected(c), UNCHANGED <<history, overlap>>, faults' \in Nat
  PROVE  HistoryInv'
<1> USE HistoryAssumption
<1>1. TypeOK'
  BY Zenon DEF HistoryInv, TypeOK, Rejected, UnlockParent, ForgetInsert, UnlockRule, Goto, Steps
<1>2. NumbersArePositive'
  BY Zenon DEF HistoryInv, TypeOK, NumbersArePositive, Rejected, ForgetInsert, Goto
<1>3. ExcessIsOlder'
  BY Zenon DEF HistoryInv, TypeOK, ExcessIsOlder, Rejected, ForgetInsert
<1> QED BY <1>1, <1>2, <1>3, Zenon DEF HistoryInv

LEMMA RecordedType ==
  ASSUME HistoryInv, NEW c \in Calls, Recorded(c), faults' \in Nat, UNCHANGED overlap,
         history' \subseteq history,
         \A d \in Calls \ {c} : \A n \in toDelete[d] : \E v \in history' : n < v.no
  PROVE  HistoryInv'
<1> USE HistoryAssumption
<1>1. TypeOK'
  <2>1. CASE /\ source' = [source EXCEPT ![c] = "admin"]
             /\ Goto(c, "insert")
             /\ UNCHANGED ruleLock
    BY <2>1, Zenon DEF HistoryInv, TypeOK, Recorded, UnlockParent, ForgetInsert, Goto, Steps
  <2>2. CASE /\ Goto(c, "done")
             /\ UnlockRule(c)
             /\ UNCHANGED source
    BY <2>2, Zenon DEF HistoryInv, TypeOK, Recorded, UnlockParent, ForgetInsert, UnlockRule, Goto, Steps
  <2> QED BY <2>1, <2>2, Zenon DEF Recorded
<1>2. NumbersArePositive'
  BY DEF HistoryInv, TypeOK, NumbersArePositive, Recorded, ForgetInsert, Goto
<1>3. ExcessIsOlder'
  BY Zenon DEF HistoryInv, TypeOK, ExcessIsOlder, Recorded, ForgetInsert
<1> QED BY <1>1, <1>2, <1>3, Zenon DEF HistoryInv

\* Deleting the first of a call's excess entries leaves every other excess
\* entry with a newer one.
LEMMA DeletionKeepsNewer ==
  ASSUME HistoryInv, NEW c \in Calls, NEW n \in toDelete[c],
         history' = {v \in history : v.no # n}
  PROVE  \A d \in Calls : \A m \in toDelete[d] : \E v \in history' : m < v.no
<1> SUFFICES ASSUME NEW d \in Calls, NEW m \in toDelete[d]
             PROVE  \E v \in history' : m < v.no
  BY Zenon
<1>1. PICK v \in history : m < v.no
  BY Zenon DEF HistoryInv, ExcessIsOlder
<1>2. PICK w \in history : n < w.no
  BY Zenon DEF HistoryInv, ExcessIsOlder
<1>3. /\ v.no \in Nat /\ w.no \in Nat /\ m \in Nat /\ n \in Nat
  BY <1>1, <1>2, Zenon DEF HistoryInv, TypeOK, Entry
<1>4. CASE v.no = n
  BY <1>1, <1>2, <1>3, <1>4
<1>5. CASE v.no # n
  BY <1>1, <1>5, Zenon
<1> QED BY <1>4, <1>5, Zenon

LEMMA StepHistoryInv == HistoryInv /\ [Next]_vars => HistoryInv'
<1> SUFFICES ASSUME HistoryInv, [Next]_vars PROVE HistoryInv'
  BY Zenon
<1> USE HistoryAssumption
<1> USE DEF HistoryInv
<1>1. CASE UNCHANGED vars
  BY <1>1, Zenon DEF vars, TypeOK, NumbersArePositive, ExcessIsOlder
<1>2. ASSUME NEW c \in Calls, BeginAppend(c) PROVE HistoryInv'
  BY <1>2, Zenon DEF BeginAppend, LockRule, Goto, TypeOK, Steps, NumbersArePositive, ExcessIsOlder
<1>3. ASSUME NEW c \in Calls, BeginEdit(c) PROVE HistoryInv'
  BY <1>3, Zenon DEF BeginEdit, LockRule, Goto, TypeOK, Steps, NumbersArePositive, ExcessIsOlder
<1>4. ASSUME NEW c \in Calls, BeginBootstrap(c) PROVE HistoryInv'
  BY <1>4, Zenon DEF BeginBootstrap, Goto, TypeOK, Steps, NumbersArePositive, ExcessIsOlder
<1>5. ASSUME NEW c \in Calls, CheckHistory(c) PROVE HistoryInv'
  BY <1>5 DEF CheckHistory, Goto, TypeOK, Steps, NumbersArePositive, ExcessIsOlder
<1>6. ASSUME NEW c \in Calls, LockParent(c) PROVE HistoryInv'
  <2>1. overlap' \subseteq Calls
    BY <1>6, Zenon DEF LockParent, Unserialised, TypeOK
  <2> QED BY <1>6, <2>1, Zenon
          DEF LockParent, Goto, TypeOK, Steps, Locked, NumbersArePositive, ExcessIsOlder
<1>7. ASSUME NEW c \in Calls, ReadHistory(c) PROVE HistoryInv'
  <2>1. PICK n \in NextNos : versionNo' = [versionNo EXCEPT ![c] = n]
    BY <1>7, Zenon DEF ReadHistory
  <2>2. n \in Nat \ {0}
    BY DEF NextNos, TypeOK, Entry
  <2> QED
    BY <1>7, <2>1, <2>2 DEF ReadHistory, Goto, TypeOK, Steps, Locked, NumbersArePositive, ExcessIsOlder
<1>8. ASSUME NEW c \in Calls, pc[c] = "add" PROVE NewEntry(c) \in Entry
  BY <1>8 DEF NewEntry, Entry, TypeOK, NumbersArePositive
<1>9. ASSUME NEW c \in Calls, AddVersion(c) PROVE HistoryInv'
  BY <1>8, <1>9 DEF AddVersion, Goto, TypeOK, Steps, Locked, NumbersArePositive, ExcessIsOlder
<1>10. ASSUME NEW c \in Calls, ConfirmConflict(c) PROVE HistoryInv'
  <2>1. CASE Rejected(c)
    BY <1>10, <2>1, RejectedType, Zenon DEF ConfirmConflict, TypeOK
  <2>2. CASE Goto(c, "reread") /\ UNCHANGED <<ruleLock, parentLock, source, versionNo, attempt, toDelete>>
    BY <1>10, <2>2, Zenon DEF ConfirmConflict, Goto, TypeOK, Steps, Locked, NumbersArePositive, ExcessIsOlder
  <2> QED BY <1>10, <2>1, <2>2, Zenon DEF ConfirmConflict
<1>11. ASSUME NEW c \in Calls, Reread(c) PROVE HistoryInv'
  <2>1. CASE Rejected(c)
    BY <1>11, <2>1, RejectedType, Zenon DEF Reread, TypeOK
  <2>2. CASE ~Rejected(c)
    <3>1. PICK n \in NextNos :
            /\ versionNo' = [versionNo EXCEPT ![c] = n]
            /\ attempt' = [attempt EXCEPT ![c] = @ + 1]
            /\ Goto(c, "add")
            /\ UNCHANGED <<ruleLock, parentLock, source, toDelete>>
      BY <1>11, <2>2, Zenon DEF Reread
    <3>2. n \in Nat \ {0}
      BY DEF NextNos, TypeOK, Entry
    <3> QED
      BY <1>11, <3>1, <3>2 DEF Reread, Goto, TypeOK, Steps, Locked, NumbersArePositive, ExcessIsOlder
  <2> QED BY <2>1, <2>2, Zenon
<1>12. ASSUME NEW c \in Calls, TrimVersions(c) PROVE HistoryInv'
  <2>1. CASE Recorded(c)
    BY <1>12, <2>1, RecordedType, Zenon DEF TrimVersions, TypeOK, ExcessIsOlder
  <2>2. CASE /\ MaxVersions > 0
             /\ toDelete' = [toDelete EXCEPT ![c] = Excess]
             /\ Goto(c, "delete")
             /\ UNCHANGED <<ruleLock, parentLock, source, versionNo, attempt>>
    <3> DEFINE Older == {w \in history : Cardinality({x \in history : x.no > w.no}) >= MaxVersions}
    <3>0. Older \subseteq history
      BY Zenon
    <3> HIDE DEF Older
    <3>1. {v.no : v \in Older} \subseteq Nat \ {0}
      BY <3>0 DEF TypeOK, Entry
    <3>4. Excess \subseteq Nat \ {0}
      BY <3>1, Zenon DEF Excess, Older
    <3>2. TypeOK' /\ NumbersArePositive'
      BY <1>12, <2>2, <3>4, Zenon DEF TrimVersions, Goto, TypeOK, Steps, Locked, NumbersArePositive
    <3>3. ExcessIsOlder'
      BY <1>12, <2>2, ExcessHasNewer, Zenon DEF TrimVersions, TypeOK, ExcessIsOlder
    <3> QED BY <3>2, <3>3, Zenon
  <2> QED BY <1>12, <2>1, <2>2, Zenon DEF TrimVersions
<1>13. ASSUME NEW c \in Calls, DeleteVersion(c) PROVE HistoryInv'
  <2>1. PICK n \in toDelete[c] :
          /\ history' = {v \in history : v.no # n}
          /\ \/ /\ toDelete' = [toDelete EXCEPT ![c] = @ \ {n}]
                /\ UNCHANGED <<ruleLock, parentLock, pc, source, versionNo, attempt>>
             \/ Recorded(c)
    BY <1>13, Zenon DEF DeleteVersion
  <2>2. \A d \in Calls : \A m \in toDelete[d] : \E v \in history' : m < v.no
    BY <2>1, DeletionKeepsNewer, Zenon
  <2>3. CASE Recorded(c)
    BY <1>13, <2>1, <2>2, <2>3, RecordedType, Zenon DEF DeleteVersion, TypeOK
  <2>4. CASE /\ toDelete' = [toDelete EXCEPT ![c] = @ \ {n}]
             /\ UNCHANGED <<ruleLock, parentLock, pc, source, versionNo, attempt>>
    BY <1>13, <2>1, <2>2, <2>4, Zenon DEF DeleteVersion, TypeOK, NumbersArePositive, ExcessIsOlder
  <2> QED BY <2>1, <2>3, <2>4, Zenon
<1>14. ASSUME NEW c \in Calls, AddFails(c) PROVE HistoryInv'
  BY <1>8, <1>14 DEF AddFails, Fault, Goto, TypeOK, Steps, Locked, NumbersArePositive, ExcessIsOlder
<1>15. ASSUME NEW c \in Calls, InsertFails(c) PROVE HistoryInv'
  BY <1>15, RejectedType DEF InsertFails, Fault, TypeOK
<1>16. ASSUME NEW c \in Calls, CheckFails(c) PROVE HistoryInv'
  BY <1>16 DEF CheckFails, Fault, UnlockRule, Goto, TypeOK, Steps, NumbersArePositive, ExcessIsOlder
<1>17. ASSUME NEW c \in Calls, TrimFails(c) PROVE HistoryInv'
  BY <1>17, RecordedType DEF TrimFails, Fault, TypeOK, ExcessIsOlder
<1>18. ASSUME NEW r \in Replicas, Crash(r) PROVE HistoryInv'
  BY <1>18 DEF Crash, Fault, TypeOK, Steps, NumbersArePositive, ExcessIsOlder
<1> QED
  BY <1>1, <1>2, <1>3, <1>4, <1>5, <1>6, <1>7, <1>9, <1>10, <1>11, <1>12, <1>13, <1>14,
     <1>15, <1>16, <1>17, <1>18, Zenon
  DEF Next, CallStep, FailedStep

LEMMA HistoryInvHolds == Spec => []HistoryInv
  BY InitHistoryInv, StepHistoryInv, PTL DEF Spec

\* The history, its locks and the calls never leave their types.
THEOREM HistoryTypeCorrect == Spec => []TypeOK
<1>1. HistoryInv => TypeOK
  BY ZenonT(60) DEF HistoryInv
<1> QED BY <1>1, HistoryInvHolds, PTL

\* Entries leave the history only by DeleteVersion.
LEMMA StepOfHistory ==
  ASSUME HistoryInv, Next
  PROVE  \/ history \subseteq history'
         \/ \E c \in Calls : \E n \in toDelete[c] : history' = {v \in history : v.no # n}
  BY DEF Next, CallStep, FailedStep, BeginAppend, BeginEdit, BeginBootstrap, CheckHistory,
         LockParent, ReadHistory, AddVersion, ConfirmConflict, Reread, TrimVersions,
         DeleteVersion, AddFails, InsertFails, CheckFails, TrimFails, Crash

\* Retention never removes the newest entry, with any number of adapters
\* inserting and trimming at the same time and whatever fails.
THEOREM NewestIsKept == Spec => NewestStays
<1>1. ASSUME HistoryInv, [Next]_vars, NEW v \in history, \A w \in history : w.no <= v.no
      PROVE  \E x \in history' : x.no = v.no
  <2>1. CASE history \subseteq history'
    BY <2>1, Zenon
  <2>2. ASSUME NEW c \in Calls, NEW n \in toDelete[c], history' = {x \in history : x.no # n}
        PROVE  \E x \in history' : x.no = v.no
    <3>1. PICK w \in history : n < w.no
      BY <1>1, Zenon DEF HistoryInv, ExcessIsOlder
    <3>2. w.no \in Nat /\ v.no \in Nat /\ n \in Nat
      BY <1>1, <3>1, Zenon DEF HistoryInv, TypeOK, Entry
    <3>3. v.no # n
      BY <1>1, <3>1, <3>2
    <3> QED BY <2>2, <3>3, Zenon
  <2>3. CASE UNCHANGED vars
    BY <2>3, Zenon DEF vars
  <2> QED BY <1>1, <2>1, <2>2, <2>3, StepOfHistory, Zenon
<1>2. HistoryInv /\ [Next]_vars =>
        [\A v \in history :
           (\A w \in history : w.no <= v.no) => \E x \in history' : x.no = v.no]_vars
  BY <1>1, Zenon
<1> QED BY <1>2, HistoryInvHolds, PTL DEF Spec, NewestStays

-----------------------------------------------------------------------------
(* Numbers                                                                  *)

NumberInv == HistoryInv /\ LocksAreHeld /\ OverlapIsSeen /\ PendingIsNext

LEMMA InitNumberInv == Init => NumberInv
<1> SUFFICES ASSUME Init PROVE NumberInv
  BY Zenon
<1>1. LocksAreHeld /\ OverlapIsSeen /\ PendingIsNext
  BY Zenon DEF Init, LocksAreHeld, OverlapIsSeen, PendingIsNext, Locked, Calls
<1> QED BY <1>1, InitHistoryInv, Zenon DEF NumberInv

LEMMA StepLocksAreHeld == TypeOK /\ LocksAreHeld /\ [Next]_vars => LocksAreHeld'
<1> SUFFICES ASSUME TypeOK, LocksAreHeld, [Next]_vars PROVE LocksAreHeld'
  BY Zenon
<1> USE HistoryAssumption
<1> USE DEF TypeOK, LocksAreHeld, Locked, Goto, Calls
<1>1. CASE UNCHANGED vars
  BY <1>1, Zenon DEF vars
<1>2. ASSUME NEW c \in Calls, pc[c] \in Locked, Rejected(c) PROVE LocksAreHeld'
  BY <1>2, Zenon DEF Rejected, UnlockParent, UnlockRule
<1>3. ASSUME NEW c \in Calls, pc[c] \in Locked, Recorded(c) PROVE LocksAreHeld'
  <2>1. CASE /\ Goto(c, "insert")
             /\ UNCHANGED ruleLock
    BY <1>3, <2>1 DEF Recorded, UnlockParent
  <2>2. CASE /\ Goto(c, "done")
             /\ UnlockRule(c)
    BY <1>3, <2>2, Zenon DEF Recorded, UnlockParent, UnlockRule
  <2> QED BY <1>3, <2>1, <2>2, Zenon DEF Recorded
<1>4. ASSUME NEW c \in Calls, BeginAppend(c) \/ BeginEdit(c) PROVE LocksAreHeld'
  BY <1>4 DEF BeginAppend, BeginEdit, LockRule
<1>5. ASSUME NEW c \in Calls, BeginBootstrap(c) PROVE LocksAreHeld'
  BY <1>5 DEF BeginBootstrap
<1>6. ASSUME NEW c \in Calls, CheckHistory(c) PROVE LocksAreHeld'
  BY <1>6 DEF CheckHistory
<1>7. ASSUME NEW c \in Calls, LockParent(c) PROVE LocksAreHeld'
  BY <1>7 DEF LockParent
<1>8. ASSUME NEW c \in Calls, ReadHistory(c) \/ AddVersion(c) \/ AddFails(c) PROVE LocksAreHeld'
  BY <1>8 DEF ReadHistory, AddVersion, AddFails
<1>9. ASSUME NEW c \in Calls, ConfirmConflict(c) PROVE LocksAreHeld'
  <2>1. CASE Rejected(c)
    BY <1>2, <1>9, <2>1, Zenon DEF ConfirmConflict
  <2>2. CASE ~Rejected(c)
    BY <1>9, <2>2, Zenon DEF ConfirmConflict
  <2> QED BY <2>1, <2>2, Zenon
<1>10. ASSUME NEW c \in Calls, Reread(c) PROVE LocksAreHeld'
  <2>1. CASE Rejected(c)
    BY <1>2, <1>10, <2>1, Zenon DEF Reread
  <2>2. CASE ~Rejected(c)
    BY <1>10, <2>2, Zenon DEF Reread
  <2> QED BY <2>1, <2>2, Zenon
<1>11. ASSUME NEW c \in Calls, TrimVersions(c) PROVE LocksAreHeld'
  <2>1. CASE Recorded(c)
    BY <1>3, <1>11, <2>1, Zenon DEF TrimVersions
  <2>2. CASE ~Recorded(c)
    BY <1>11, <2>2, Zenon DEF TrimVersions
  <2> QED BY <2>1, <2>2, Zenon
<1>12. ASSUME NEW c \in Calls, DeleteVersion(c) PROVE LocksAreHeld'
  <2>1. CASE Recorded(c)
    BY <1>3, <1>12, <2>1, Zenon DEF DeleteVersion
  <2>2. CASE ~Recorded(c)
    BY <1>12, <2>2, Zenon DEF DeleteVersion
  <2> QED BY <2>1, <2>2, Zenon
<1>13. ASSUME NEW c \in Calls, InsertFails(c) \/ TrimFails(c) PROVE LocksAreHeld'
  BY <1>2, <1>3, <1>13, Zenon DEF InsertFails, TrimFails
<1>14. ASSUME NEW c \in Calls, CheckFails(c) PROVE LocksAreHeld'
  BY <1>14, Zenon DEF CheckFails, UnlockRule
<1>15. ASSUME NEW r \in Replicas, Crash(r) PROVE LocksAreHeld'
  BY <1>15, Zenon DEF Crash
<1> QED
  BY <1>1, <1>4, <1>5, <1>6, <1>7, <1>8, <1>9, <1>10, <1>11, <1>12, <1>13, <1>14, <1>15, Zenon
  DEF Next, CallStep, FailedStep

\* Only LockParent lets a call into its critical section.
LEMMA OthersStayOut ==
  ASSUME TypeOK, Next, \A c \in Calls : ~LockParent(c)
  PROVE  overlap' = overlap /\ \A d \in Calls : pc'[d] \in Locked => pc[d] \in Locked
<1> USE DEF TypeOK, Goto, Locked
<1>1. ASSUME NEW c \in Calls, Rejected(c) \/ Recorded(c)
      PROVE  \A d \in Calls : pc'[d] \in Locked => pc[d] \in Locked
  BY <1>1, Zenon DEF Rejected, Recorded
<1>2. ASSUME NEW c \in Calls,
             \/ BeginAppend(c) \/ BeginEdit(c) \/ BeginBootstrap(c) \/ CheckHistory(c)
             \/ ReadHistory(c) \/ AddVersion(c) \/ AddFails(c) \/ CheckFails(c)
      PROVE  overlap' = overlap /\ \A d \in Calls : pc'[d] \in Locked => pc[d] \in Locked
  BY <1>2, Zenon DEF BeginAppend, BeginEdit, BeginBootstrap, CheckHistory, ReadHistory, AddVersion,
              AddFails, CheckFails
<1>3. ASSUME NEW c \in Calls,
             \/ ConfirmConflict(c) \/ Reread(c) \/ TrimVersions(c) \/ DeleteVersion(c)
             \/ InsertFails(c) \/ TrimFails(c)
      PROVE  overlap' = overlap /\ \A d \in Calls : pc'[d] \in Locked => pc[d] \in Locked
  <2>1. overlap' = overlap
    BY <1>3, Zenon DEF ConfirmConflict, Reread, TrimVersions, DeleteVersion, InsertFails, TrimFails
  <2>2. CASE Rejected(c) \/ Recorded(c)
    BY <1>1, <2>1, <2>2, Zenon
  <2>3. CASE ~Rejected(c) /\ ~Recorded(c)
    BY <1>3, <2>1, <2>3, Zenon
    DEF ConfirmConflict, Reread, TrimVersions, DeleteVersion, InsertFails, TrimFails
  <2> QED BY <2>2, <2>3, Zenon
<1>4. ASSUME NEW r \in Replicas, Crash(r)
      PROVE  overlap' = overlap /\ \A d \in Calls : pc'[d] \in Locked => pc[d] \in Locked
  BY <1>4, Zenon DEF Crash
<1> QED BY <1>2, <1>3, <1>4, Zenon DEF Next, CallStep, FailedStep

\* An overlap is forgotten only when the call inserts again.
LEMMA OverlapStays ==
  ASSUME TypeOK, [Next]_vars, NEW d \in Calls, pc[d] \in Locked, d \in overlap
  PROVE  d \in overlap'
<1>1. ASSUME NEW c \in Calls, LockParent(c) PROVE d \in overlap'
  BY <1>1, Zenon DEF LockParent, Locked
<1>2. CASE UNCHANGED vars
  BY <1>2, Zenon DEF vars
<1> QED BY <1>1, <1>2, OthersStayOut, Zenon

LEMMA StepOverlapIsSeen ==
  TypeOK /\ LocksAreHeld /\ OverlapIsSeen /\ [Next]_vars => OverlapIsSeen'
<1> SUFFICES ASSUME TypeOK, LocksAreHeld, OverlapIsSeen, [Next]_vars PROVE OverlapIsSeen'
  BY Zenon
<1>1. CASE UNCHANGED vars
  BY <1>1, Zenon DEF vars, OverlapIsSeen
<1>2. ASSUME Next, \A c \in Calls : ~LockParent(c) PROVE OverlapIsSeen'
  BY <1>2, OthersStayOut, Zenon DEF OverlapIsSeen
<1>3. ASSUME NEW c \in Calls, LockParent(c) PROVE OverlapIsSeen'
  <2>1. ASSUME NEW d \in Calls \ {c}, pc[d] \in Locked
        PROVE  d \in Unserialised(c)
    BY <1>3, <2>1, HistoryAssumption, Zenon DEF LockParent, LocksAreHeld, Unserialised, Calls
  <2>2. \A d \in Calls \ {c} : pc'[d] = pc[d]
    BY <1>3, Zenon DEF LockParent, Goto, TypeOK
  <2>3. \A d \in Calls \ {c} : d \in overlap => d \in overlap'
    BY <1>3, Zenon DEF LockParent
  <2> QED BY <1>3, <2>1, <2>2, <2>3, Zenon DEF LockParent, OverlapIsSeen
<1> QED BY <1>1, <1>2, <1>3, Zenon

\* How a step changes the history and who is about to insert what.
LEMMA StepOfNumbers ==
  ASSUME HistoryInv, Next
  PROVE  \/ /\ history' \subseteq history
            /\ \A d \in Calls : pc'[d] = "add" =>
                 \/ pc[d] = "add" /\ versionNo'[d] = versionNo[d]
                 \/ IsNext(versionNo'[d])
         \/ \E c \in Calls :
              /\ pc[c] = "add" /\ pc'[c] # "add" /\ overlap' = overlap
              /\ history' = history \cup {NewEntry(c)}
              /\ \A d \in Calls \ {c} : pc'[d] = pc[d] /\ versionNo'[d] = versionNo[d]
<1> USE DEF HistoryInv, TypeOK, Goto
<1>1. ASSUME NEW c \in Calls, Rejected(c) \/ Recorded(c)
      PROVE  \A d \in Calls : pc'[d] = "add" => pc[d] = "add" /\ versionNo'[d] = versionNo[d]
  BY <1>1, Zenon DEF Rejected, Recorded, ForgetInsert
<1>2. ASSUME NEW c \in Calls, AddVersion(c) \/ AddFails(c)
      PROVE  \/ /\ history' \subseteq history
                /\ \A d \in Calls : pc'[d] = "add" => pc[d] = "add" /\ versionNo'[d] = versionNo[d]
             \/ /\ pc[c] = "add" /\ pc'[c] # "add" /\ overlap' = overlap
                /\ history' = history \cup {NewEntry(c)}
                /\ \A d \in Calls \ {c} : pc'[d] = pc[d] /\ versionNo'[d] = versionNo[d]
  BY <1>2, Zenon DEF AddVersion, AddFails
<1>3. ASSUME NEW c \in Calls, ReadHistory(c) \/ Reread(c)
      PROVE  /\ history' \subseteq history
             /\ \A d \in Calls : pc'[d] = "add" =>
                  \/ pc[d] = "add" /\ versionNo'[d] = versionNo[d]
                  \/ IsNext(versionNo'[d])
  <2>1. CASE Rejected(c)
    BY <1>1, <1>3, <2>1, Zenon DEF ReadHistory, Reread
  <2>2. CASE ~Rejected(c)
    BY <1>3, <2>2, Zenon DEF ReadHistory, Reread
  <2> QED BY <2>1, <2>2, Zenon
<1>4. ASSUME NEW c \in Calls,
             \/ BeginAppend(c) \/ BeginEdit(c) \/ BeginBootstrap(c) \/ CheckHistory(c)
             \/ LockParent(c) \/ CheckFails(c)
      PROVE  /\ history' \subseteq history
             /\ \A d \in Calls : pc'[d] = "add" => pc[d] = "add" /\ versionNo'[d] = versionNo[d]
  BY <1>4, Zenon DEF BeginAppend, BeginEdit, BeginBootstrap, CheckHistory, LockParent, CheckFails
<1>5. ASSUME NEW c \in Calls,
             \/ ConfirmConflict(c) \/ TrimVersions(c) \/ DeleteVersion(c)
             \/ InsertFails(c) \/ TrimFails(c)
      PROVE  /\ history' \subseteq history
             /\ \A d \in Calls : pc'[d] = "add" => pc[d] = "add" /\ versionNo'[d] = versionNo[d]
  <2>1. CASE Rejected(c) \/ Recorded(c)
    BY <1>1, <1>5, <2>1, Zenon DEF ConfirmConflict, TrimVersions, DeleteVersion, InsertFails, TrimFails
  <2>2. CASE ~Rejected(c) /\ ~Recorded(c)
    BY <1>5, <2>2, Zenon DEF ConfirmConflict, TrimVersions, DeleteVersion, InsertFails, TrimFails
  <2> QED BY <2>1, <2>2, Zenon
<1>6. ASSUME NEW r \in Replicas, Crash(r)
      PROVE  /\ history' \subseteq history
             /\ \A d \in Calls : pc'[d] = "add" => pc[d] = "add" /\ versionNo'[d] = versionNo[d]
  BY <1>6, Zenon DEF Crash
<1> QED BY <1>2, <1>3, <1>4, <1>5, <1>6, Zenon DEF Next, CallStep, FailedStep

LEMMA StepNumberInv == NumberInv /\ [Next]_vars => NumberInv'
<1> SUFFICES ASSUME NumberInv, [Next]_vars PROVE NumberInv'
  BY Zenon
<1> USE DEF NumberInv
<1>1. HistoryInv' /\ LocksAreHeld' /\ OverlapIsSeen'
  BY StepHistoryInv, StepLocksAreHeld, StepOverlapIsSeen, Zenon DEF HistoryInv
<1>2. PendingIsNext'
  <2>1. CASE UNCHANGED vars
    BY <2>1, Zenon DEF vars, PendingIsNext
  <2>2. CASE /\ history' \subseteq history
             /\ \A d \in Calls : pc'[d] = "add" =>
                  \/ pc[d] = "add" /\ versionNo'[d] = versionNo[d]
                  \/ IsNext(versionNo'[d])
    <3>1. \A d \in Calls : pc[d] = "add" /\ pc'[d] = "add" /\ d \in overlap => d \in overlap'
      BY OverlapStays, Zenon DEF HistoryInv, Locked
    <3> QED BY <2>2, <3>1, Zenon DEF PendingIsNext, IsNext
  <2>3. ASSUME NEW c \in Calls,
               pc[c] = "add", pc'[c] # "add", overlap' = overlap,
               history' = history \cup {NewEntry(c)},
               \A d \in Calls \ {c} : pc'[d] = pc[d] /\ versionNo'[d] = versionNo[d]
        PROVE  PendingIsNext'
    <3>1. \A d \in Calls : pc'[d] = "add" => d \in overlap'
      BY <2>3, Zenon DEF OverlapIsSeen, Locked
    <3> QED BY <3>1, Zenon DEF PendingIsNext
  <2> QED BY <2>1, <2>2, <2>3, StepOfNumbers, Zenon
<1> QED BY <1>1, <1>2, Zenon

\* An insert that no bootstrap of another replica overlaps is numbered above all
\* other entries: a number freed by the retention is not given out again, for
\* any number of calls and replicas and whatever fails.
THEOREM LoneInsertsGrow == Spec => NumbersGrow
<1>1. Spec => []NumberInv
  BY InitNumberInv, StepNumberInv, PTL DEF Spec
<1>2. ASSUME NumberInv, [Next]_vars,
             NEW v \in history' \ history, v.by \notin overlap, NEW w \in history
      PROVE  w.no < v.no
  <2>1. ~UNCHANGED vars
    BY <1>2, Zenon DEF vars
  <2>2. PICK c \in Calls : pc[c] = "add" /\ history' = history \cup {NewEntry(c)}
    BY <1>2, <2>1, StepOfNumbers, Zenon DEF NumberInv
  <2>3. v.no = versionNo[c] /\ v.by = c
    BY <1>2, <2>2 DEF NewEntry
  <2> QED BY <1>2, <2>2, <2>3, Zenon DEF NumberInv, PendingIsNext
<1>3. NumberInv /\ [Next]_vars =>
        [\A v \in history' \ history :
           v.by \notin overlap => \A w \in history : w.no < v.no]_vars
  BY <1>2, Zenon
<1> QED BY <1>1, <1>3, PTL DEF Spec, NumbersGrow

\* Numbers are never given out twice: for any number of adapters, replicas and
\* kept versions, inserts number upwards and retention keeps the newest.
THEOREM NumbersAreSafe == Spec => NumberingIsSafe
  BY LoneInsertsGrow, NewestIsKept, PTL DEF NumberingIsSafe
-----------------------------------------------------------------------------
(* Entries of one call                                                      *)

EntriesOf(h, c, s) == {w \in h : w.by = c /\ w.source = s}

\* The steps of a call that has not recorded the entry of its present source.
Unrecorded == {"start", "hasHistory", "insert", "read", "add", "confirm", "reread"}

\* A call that has still to record an entry has recorded it at most once per
\* fault, and nothing under the source it takes on later.
EntriesAreCounted ==
  /\ IsFiniteSet(history)
  /\ \A c \in Calls :
       /\ \A s \in {"bootstrap", "admin"} : Cardinality(EntriesOf(history, c, s)) <= 1 + faults
       /\ pc[c] \in Unrecorded => Cardinality(EntriesOf(history, c, source[c])) <= faults
       /\ source[c] = "bootstrap" => EntriesOf(history, c, "admin") = {}

\* Only a call in "add" adds an entry, and goes back to Unrecorded by a fault
\* only; a call that becomes Unrecorded has taken on its other source.
LEMMA StepOfEntries ==
  ASSUME HistoryInv, Next
  PROVE  /\ faults' \in {faults, faults + 1}
         /\ \A d \in Calls : source'[d] = source[d] \/ source'[d] = "admin"
         /\ \/ /\ history' \subseteq history
               /\ \A d \in Calls : pc'[d] \in Unrecorded => pc[d] \in Unrecorded \/ source'[d] # source[d]
            \/ \E c \in Calls :
                 /\ pc[c] = "add" /\ history' = history \cup {NewEntry(c)}
                 /\ source' = source
                 /\ pc'[c] \notin Unrecorded \/ faults' = faults + 1
                 /\ \A d \in Calls \ {c} : pc'[d] = pc[d]
<1> USE DEF HistoryInv, TypeOK, Goto, Unrecorded
<1>1. ASSUME NEW c \in Calls, Rejected(c) \/ Recorded(c)
      PROVE  /\ \A d \in Calls : source'[d] = source[d] \/ source'[d] = "admin"
             /\ \A d \in Calls : pc'[d] \in Unrecorded => pc[d] \in Unrecorded \/ source'[d] # source[d]
  BY <1>1 DEF Rejected, Recorded
<1>2. ASSUME NEW c \in Calls, AddVersion(c) \/ AddFails(c)
      PROVE  /\ faults' \in {faults, faults + 1}
             /\ source' = source
             /\ \/ /\ history' \subseteq history
                   /\ \A d \in Calls : pc'[d] \in Unrecorded => pc[d] \in Unrecorded
                \/ /\ pc[c] = "add" /\ history' = history \cup {NewEntry(c)}
                   /\ pc'[c] \notin Unrecorded \/ faults' = faults + 1
                   /\ \A d \in Calls \ {c} : pc'[d] = pc[d]
  BY <1>2, Zenon DEF AddVersion, AddFails, Fault
<1>3. ASSUME NEW c \in Calls,
             \/ BeginAppend(c) \/ BeginEdit(c) \/ BeginBootstrap(c) \/ CheckHistory(c)
             \/ LockParent(c) \/ CheckFails(c) \/ ReadHistory(c)
      PROVE  /\ faults' \in {faults, faults + 1}
             /\ history' \subseteq history
             /\ \A d \in Calls : source'[d] = source[d] \/ source'[d] = "admin"
             /\ \A d \in Calls : pc'[d] \in Unrecorded => pc[d] \in Unrecorded
  BY <1>3, Zenon DEF BeginAppend, BeginEdit, BeginBootstrap, CheckHistory, LockParent, CheckFails,
              ReadHistory, Fault
<1>4. ASSUME NEW c \in Calls,
             \/ ConfirmConflict(c) \/ TrimVersions(c) \/ DeleteVersion(c)
             \/ InsertFails(c) \/ TrimFails(c) \/ Reread(c)
      PROVE  /\ faults' \in {faults, faults + 1}
             /\ history' \subseteq history
             /\ \A d \in Calls : source'[d] = source[d] \/ source'[d] = "admin"
             /\ \A d \in Calls : pc'[d] \in Unrecorded => pc[d] \in Unrecorded \/ source'[d] # source[d]
  <2>1. faults' \in {faults, faults + 1} /\ history' \subseteq history
    BY <1>4, Zenon DEF ConfirmConflict, TrimVersions, DeleteVersion, InsertFails, TrimFails, Reread, Fault
  <2>2. CASE Rejected(c) \/ Recorded(c)
    BY <1>1, <2>1, <2>2, Zenon
  <2>3. CASE ~Rejected(c) /\ ~Recorded(c)
    BY <1>4, <2>1, <2>3, Zenon
    DEF ConfirmConflict, TrimVersions, DeleteVersion, InsertFails, TrimFails, Reread
  <2> QED BY <2>2, <2>3, Zenon
<1>5. ASSUME NEW r \in Replicas, Crash(r)
      PROVE  /\ faults' \in {faults, faults + 1}
             /\ history' \subseteq history
             /\ source' = source
             /\ \A d \in Calls : pc'[d] \in Unrecorded => pc[d] \in Unrecorded
  BY <1>5, Zenon DEF Crash, Fault
<1>6. CASE \E c \in Calls : AddVersion(c) \/ AddFails(c)
  BY <1>2, <1>6, Zenon
<1>7. CASE \E r \in Replicas : Crash(r)
  BY <1>5, <1>7, Zenon
<1>8. CASE \E c \in Calls :
             \/ BeginAppend(c) \/ BeginEdit(c) \/ BeginBootstrap(c) \/ CheckHistory(c)
             \/ LockParent(c) \/ CheckFails(c) \/ ReadHistory(c)
  BY <1>3, <1>8, Zenon
<1>9. CASE \E c \in Calls :
             \/ ConfirmConflict(c) \/ TrimVersions(c) \/ DeleteVersion(c)
             \/ InsertFails(c) \/ TrimFails(c) \/ Reread(c)
  BY <1>4, <1>9, Zenon
<1> QED BY <1>6, <1>7, <1>8, <1>9, Zenon DEF Next, CallStep, FailedStep

LEMMA StepEntriesAreCounted ==
  HistoryInv /\ EntriesAreCounted /\ [Next]_vars => EntriesAreCounted'
<1> SUFFICES ASSUME HistoryInv, EntriesAreCounted, [Next]_vars PROVE EntriesAreCounted'
  BY Zenon
<1>1. CASE UNCHANGED vars
  BY <1>1, Zenon DEF vars, EntriesAreCounted, EntriesOf
<1> SUFFICES ASSUME Next PROVE EntriesAreCounted'
  BY <1>1, Zenon
<1>2. faults \in Nat /\ faults' \in {faults, faults + 1}
  BY StepOfEntries, Zenon DEF HistoryInv, TypeOK
<1>3. \A c \in Calls : \A s : IsFiniteSet(EntriesOf(history, c, s)) /\ Cardinality(EntriesOf(history, c, s)) \in Nat
  BY FS_Subset, FS_CardinalityType, Zenon DEF EntriesAreCounted, EntriesOf
<1>4. CASE /\ history' \subseteq history
           /\ \A d \in Calls : pc'[d] \in Unrecorded => pc[d] \in Unrecorded \/ source'[d] # source[d]
  <2>1. IsFiniteSet(history')
    BY <1>4, FS_Subset, Zenon DEF EntriesAreCounted
  <2>2. ASSUME NEW c \in Calls, NEW s
        PROVE  /\ EntriesOf(history', c, s) \subseteq EntriesOf(history, c, s)
               /\ Cardinality(EntriesOf(history', c, s)) \in Nat
               /\ Cardinality(EntriesOf(history', c, s)) <= Cardinality(EntriesOf(history, c, s))
    <3>1. EntriesOf(history', c, s) \subseteq EntriesOf(history, c, s)
      BY <1>4, Zenon DEF EntriesOf
    <3> QED BY <1>3, <3>1, FS_Subset, FS_CardinalityType, Zenon
  <2>3. ASSUME NEW c \in Calls
        PROVE  /\ \A s \in {"bootstrap", "admin"} : Cardinality(EntriesOf(history', c, s)) <= 1 + faults'
               /\ pc'[c] \in Unrecorded => Cardinality(EntriesOf(history', c, source'[c])) <= faults'
               /\ source'[c] = "bootstrap" => EntriesOf(history', c, "admin") = {}
    <3>1. \A s \in {"bootstrap", "admin"} : Cardinality(EntriesOf(history', c, s)) <= 1 + faults'
      BY <1>2, <1>3, <2>2 DEF EntriesAreCounted
    <3>2. source'[c] = source[c] \/ (source'[c] = "admin" /\ source[c] = "bootstrap")
      BY StepOfEntries, Zenon DEF HistoryInv, TypeOK
    <3>3. source'[c] = "bootstrap" => EntriesOf(history', c, "admin") = {}
      BY <2>2, <3>2, Zenon DEF EntriesAreCounted
    <3>4. ASSUME pc'[c] \in Unrecorded PROVE Cardinality(EntriesOf(history', c, source'[c])) <= faults'
      <4>1. CASE source'[c] = source[c]
        <5>1. Cardinality(EntriesOf(history, c, source[c])) <= faults
          BY <1>4, <3>4, <4>1, Zenon DEF EntriesAreCounted
        <5> QED BY <1>2, <1>3, <2>2, <4>1, <5>1
      <4>2. CASE source'[c] = "admin" /\ source[c] = "bootstrap"
        <5>1. EntriesOf(history', c, "admin") = {}
          BY <2>2, <4>2, Zenon DEF EntriesAreCounted
        <5> QED BY <1>2, <4>2, <5>1, FS_EmptySet
      <4> QED BY <3>2, <4>1, <4>2, Zenon
    <3> QED BY <3>1, <3>3, <3>4, Zenon
  <2> QED BY <2>1, <2>3, Zenon DEF EntriesAreCounted, EntriesOf
<1>5. ASSUME NEW c \in Calls,
             pc[c] = "add", history' = history \cup {NewEntry(c)},
             source' = source,
             pc'[c] \notin Unrecorded \/ faults' = faults + 1,
             \A d \in Calls \ {c} : pc'[d] = pc[d]
      PROVE  EntriesAreCounted'
  <2>1. IsFiniteSet(history')
    BY <1>5, FS_AddElement, Zenon DEF EntriesAreCounted
  <2>2. NewEntry(c).by = c /\ NewEntry(c).source = source[c]
    BY Zenon DEF NewEntry
  <2>3. \A d \in Calls : \A s : d # c \/ s # source[c] => EntriesOf(history', d, s) = EntriesOf(history, d, s)
    BY <1>5, <2>2, Zenon DEF EntriesOf
  <2>4. EntriesOf(history', c, source[c]) = EntriesOf(history, c, source[c]) \cup {NewEntry(c)}
    BY <1>5, <2>2, Zenon DEF EntriesOf
  <2>5. Cardinality(EntriesOf(history, c, source[c])) <= faults
    BY <1>5, Zenon DEF EntriesAreCounted, Unrecorded
  <2>6. /\ Cardinality(EntriesOf(history', c, source[c])) \in Nat
        /\ Cardinality(EntriesOf(history', c, source[c])) <= 1 + faults
    <3> DEFINE S == EntriesOf(history, c, source[c])
    <3>1. IsFiniteSet(S) /\ Cardinality(S) \in Nat /\ Cardinality(S) <= faults
      BY <1>3, <2>5, Zenon
    <3> HIDE DEF S
    <3>2. Cardinality(S \cup {NewEntry(c)}) \in {Cardinality(S), Cardinality(S) + 1}
      BY <3>1, FS_AddElement, Zenon
    <3>3. EntriesOf(history', c, source[c]) = S \cup {NewEntry(c)}
      BY <2>4, Zenon DEF S
    <3> QED BY <1>2, <3>1, <3>2, <3>3
  <2>7. ASSUME NEW d \in Calls
        PROVE  /\ \A s \in {"bootstrap", "admin"} : Cardinality(EntriesOf(history', d, s)) <= 1 + faults'
               /\ pc'[d] \in Unrecorded => Cardinality(EntriesOf(history', d, source'[d])) <= faults'
               /\ source'[d] = "bootstrap" => EntriesOf(history', d, "admin") = {}
    <3>1. \A s \in {"bootstrap", "admin"} : Cardinality(EntriesOf(history', d, s)) <= 1 + faults'
      BY <1>2, <1>3, <2>3, <2>6 DEF EntriesAreCounted
    <3>2. source'[d] = "bootstrap" => EntriesOf(history', d, "admin") = {}
      BY <1>5, <2>3, Zenon DEF EntriesAreCounted
    <3>3. pc'[d] \in Unrecorded => Cardinality(EntriesOf(history', d, source'[d])) <= faults'
      <4>1. CASE d = c
        BY <1>2, <1>5, <2>6, <4>1
      <4>2. CASE d # c
        <5>1. pc'[d] = pc[d] /\ source'[d] = source[d]
          BY <1>5, <4>2, Zenon
        <5>2. EntriesOf(history', d, source[d]) = EntriesOf(history, d, source[d])
          BY <2>3, <4>2, Zenon
        <5>3. Cardinality(EntriesOf(history, d, source[d])) \in Nat
          BY <1>3, Zenon
        <5>4. pc[d] \in Unrecorded => Cardinality(EntriesOf(history, d, source[d])) <= faults
          BY Zenon DEF EntriesAreCounted
        <5> QED BY <1>2, <5>1, <5>2, <5>3, <5>4
      <4> QED BY <4>1, <4>2, Zenon
    <3> QED BY <3>1, <3>2, <3>3, Zenon
  <2> QED BY <2>1, <2>7, Zenon DEF EntriesAreCounted, EntriesOf
<1> QED BY <1>4, <1>5, StepOfEntries, Zenon

LEMMA InitEntriesAreCounted == Init => EntriesAreCounted
<1> SUFFICES ASSUME Init PROVE EntriesAreCounted
  BY Zenon
<1>1. history = {} /\ faults = 0 /\ \A c, s : EntriesOf(history, c, s) = {}
  BY Zenon DEF Init, EntriesOf
<1> QED BY <1>1, FS_EmptySet DEF EntriesAreCounted

LEMMA EntriesAreCountedHolds == Spec => []EntriesAreCounted
  BY InitEntriesAreCounted, StepEntriesAreCounted, HistoryInvHolds, PTL DEF Spec

\* However often a mutation's insert loses its number and is retried, whatever
\* fails and however many adapters take part, its entry is recorded once, and at
\* most once more for every fault.
THEOREM EntriesAreRecordedOnce == Spec => []OneEntryPerMutation
<1>1. HistoryInv /\ EntriesAreCounted => OneEntryPerMutation
  <2> SUFFICES ASSUME HistoryInv, EntriesAreCounted, NEW v \in history
               PROVE  Cardinality({w \in history : w.by = v.by /\ w.source = v.source}) <= 1 + faults
    BY Zenon DEF OneEntryPerMutation
  <2>1. v.by \in Calls /\ v.source \in {"bootstrap", "admin"}
    BY Zenon DEF HistoryInv, TypeOK, Entry
  <2>2. Cardinality(EntriesOf(history, v.by, v.source)) <= 1 + faults
    BY <2>1, Zenon DEF EntriesAreCounted
  <2> QED BY <2>2, Zenon DEF EntriesOf
<1> QED BY <1>1, HistoryInvHolds, EntriesAreCountedHolds, PTL
-----------------------------------------------------------------------------
(* Retention of an insert that runs alone                                   *)

\* A set of numbers that is not empty has a smallest one.
LEMMA SmallestNumber ==
  ASSUME NEW T \in SUBSET Nat, T # {}
  PROVE  \E x \in T : \A y \in T : x <= y
<1> DEFINE R == OpToRel(<, Nat)
<1>1. R = {ss \in Nat \X Nat : ss[1] < ss[2]}
  BY Zenon DEF OpToRel
<1>2. \A x, y \in Nat : x < y => <<x, y>> \in R
  BY <1>1, Zenon
<1>3. IsWellFoundedOn(R, Nat)
  BY NatLessThanWellFounded, Zenon
<1> HIDE DEF R
<1>4. PICK x \in T : \A y \in T : ~(<<y, x>> \in R)
  BY <1>3, WFMin, Zenon
<1>5. \A y \in T : ~(y < x)
  BY <1>2, <1>4, Zenon
<1>6. \A y \in T : x <= y
  BY <1>5
<1> QED BY <1>6, Zenon

NumbersAreUnique == \A v, w \in history : v.no = w.no => v = w

\* What a retention that nobody disturbs still has to delete is there, and the
\* rest is within the limit.
RetentionIsExact ==
  \A c \in Calls \ overlap :
    pc[c] = "delete" =>
      /\ \A n \in toDelete[c] : Taken(n)
      /\ Cardinality({v \in history : v.no \notin toDelete[c]}) <= MaxVersions

\* The entries that are not in excess are at most maxVersionsPerRule: all of
\* them but the oldest are newer than the oldest.
LEMMA KeptAreFew ==
  ASSUME HistoryInv, IsFiniteSet(history), NumbersAreUnique
  PROVE  Cardinality({v \in history : v.no \notin Excess}) <= MaxVersions
<1> DEFINE K == {v \in history : v.no \notin Excess}
<1> SUFFICES Cardinality(K) <= MaxVersions
  BY Zenon
<1>1. CASE K = {}
  BY <1>1, FS_EmptySet, HistoryAssumption, SMTT(60)
<1>2. CASE K # {}
  <2>1. {v.no : v \in K} \in SUBSET Nat /\ {v.no : v \in K} # {}
    BY <1>2, SMTT(60) DEF HistoryInv, TypeOK, Entry
  <2> DEFINE Nos == {v.no : v \in K}
  <2> HIDE DEF Nos
  <2>1a. \E x \in Nos : \A y \in Nos : x <= y
    BY <2>1, SmallestNumber, Zenon DEF Nos
  <2>2. PICK m \in K : \A v \in K : m.no <= v.no
    BY <2>1a, Zenon DEF Nos
  <2> DEFINE N == {x \in history : x.no > m.no}
  <2>3. ~(Cardinality(N) >= MaxVersions)
    BY <2>2, Zenon DEF Excess
  <2>4. IsFiniteSet(N) /\ Cardinality(N) \in Nat /\ m \notin N
    BY FS_Subset, FS_CardinalityType DEF HistoryInv, TypeOK, Entry
  <2>5. K \subseteq N \cup {m}
    BY <2>2 DEF NumbersAreUnique, HistoryInv, TypeOK, Entry
  <2> HIDE DEF K, N
  <2>6. IsFiniteSet(N \cup {m}) /\ Cardinality(N \cup {m}) = Cardinality(N) + 1
    BY <2>4, FS_AddElement, Zenon
  <2>7. Cardinality(K) \in Nat /\ Cardinality(K) <= Cardinality(N \cup {m})
    BY <2>5, <2>6, FS_Subset, FS_CardinalityType, Zenon
  <2> QED BY <2>3, <2>4, <2>6, <2>7, HistoryAssumption
<1> QED BY <1>1, <1>2, Zenon

\* A call's step leaves the other calls where they are, and the history too
\* unless the call is in its critical section.
LEMMA StepOfOneCall ==
  ASSUME TypeOK, NEW d \in Calls, CallStep(d) \/ FailedStep(d)
  PROVE  /\ \A c \in Calls \ {d} : pc'[c] = pc[c] /\ toDelete'[c] = toDelete[c]
         /\ history' = history \/ pc[d] \in Locked
<1> USE DEF TypeOK, Goto, Locked
<1>1. ASSUME Rejected(d) \/ Recorded(d)
      PROVE  \A c \in Calls \ {d} : pc'[c] = pc[c] /\ toDelete'[c] = toDelete[c]
  BY <1>1, Zenon DEF Rejected, Recorded, ForgetInsert
<1>2. CASE \/ BeginAppend(d) \/ BeginEdit(d) \/ BeginBootstrap(d) \/ CheckHistory(d)
           \/ LockParent(d) \/ ReadHistory(d) \/ AddVersion(d) \/ AddFails(d) \/ CheckFails(d)
  BY <1>2, Zenon DEF BeginAppend, BeginEdit, BeginBootstrap, CheckHistory, LockParent, ReadHistory,
              AddVersion, AddFails, CheckFails
<1>3. CASE \/ ConfirmConflict(d) \/ Reread(d) \/ TrimVersions(d) \/ DeleteVersion(d)
           \/ InsertFails(d) \/ TrimFails(d)
  <2>1. history' = history \/ pc[d] \in Locked
    BY <1>3, Zenon DEF ConfirmConflict, Reread, TrimVersions, DeleteVersion, InsertFails, TrimFails
  <2>2. CASE Rejected(d) \/ Recorded(d)
    BY <1>1, <2>1, <2>2, Zenon
  <2>3. CASE ~Rejected(d) /\ ~Recorded(d)
    BY <1>3, <2>1, <2>3, Zenon
    DEF ConfirmConflict, Reread, TrimVersions, DeleteVersion, InsertFails, TrimFails
  <2> QED BY <2>2, <2>3, Zenon
<1> QED BY <1>2, <1>3, Zenon DEF CallStep, FailedStep

\* What becomes of a retention in one step.
LEMMA StepOfRetention ==
  ASSUME TypeOK, Next, NEW c \in Calls, pc[c] \in {"trim", "delete"}
  PROVE  \/ TrimVersions(c)
         \/ DeleteVersion(c)
         \/ faults' # faults /\ pc'[c] \notin {"trim", "delete"}
         \/ /\ pc'[c] = pc[c] /\ toDelete'[c] = toDelete[c]
            /\ history' = history \/ \E d \in Calls \ {c} : pc[d] \in Locked
<1>1. ASSUME NEW d \in Calls \ {c}, CallStep(d) \/ FailedStep(d)
      PROVE  /\ pc'[c] = pc[c] /\ toDelete'[c] = toDelete[c]
             /\ history' = history \/ \E e \in Calls \ {c} : pc[e] \in Locked
  BY <1>1, StepOfOneCall, Zenon
<1>2. CASE CallStep(c)
  BY <1>2, Zenon DEF CallStep, BeginAppend, BeginEdit, BeginBootstrap, CheckHistory, LockParent,
              ReadHistory, AddVersion, ConfirmConflict, Reread
<1>3. CASE FailedStep(c)
  <2>1. InsertFails(c) \/ TrimFails(c)
    BY <1>3, Zenon DEF FailedStep, AddFails, CheckFails
  <2>2. faults' # faults
    BY <2>1 DEF InsertFails, TrimFails, Fault, TypeOK
  <2>3. pc'[c] \notin {"trim", "delete"}
    BY <2>1, Zenon DEF InsertFails, TrimFails, Rejected, Recorded, Goto, TypeOK
  <2> QED BY <2>2, <2>3, Zenon
<1>4. ASSUME NEW r \in Replicas, Crash(r)
      PROVE  \/ faults' # faults /\ pc'[c] \notin {"trim", "delete"}
             \/ pc'[c] = pc[c] /\ toDelete'[c] = toDelete[c] /\ history' = history
  BY <1>4 DEF Crash, Fault, TypeOK
<1> QED BY <1>1, <1>2, <1>3, <1>4, Zenon DEF Next
LEMMA StepNumbersAreUnique ==
  ASSUME HistoryInv, NumbersAreUnique, [Next]_vars
  PROVE  NumbersAreUnique'
<1>1. CASE UNCHANGED vars
  BY <1>1, Zenon DEF vars, NumbersAreUnique
<1>2. CASE history' \subseteq history
  BY <1>2, Zenon DEF NumbersAreUnique
<1>3. ASSUME NEW c \in Calls, AddVersion(c) \/ AddFails(c) PROVE NumbersAreUnique'
  <2>1. CASE history' = history
    BY <2>1, Zenon DEF NumbersAreUnique
  <2>2. CASE ~Taken(versionNo[c]) /\ history' = history \cup {NewEntry(c)}
    BY <2>2, SMTT(60) DEF NumbersAreUnique, Taken, NewEntry
  <2> QED BY <1>3, <2>1, <2>2, Zenon DEF AddVersion, AddFails
<1>4. ASSUME Next, \A c \in Calls : ~AddVersion(c) /\ ~AddFails(c) PROVE history' \subseteq history
  BY <1>4
  DEF Next, CallStep, FailedStep, BeginAppend, BeginEdit, BeginBootstrap, CheckHistory,
      LockParent, ReadHistory, ConfirmConflict, Reread, TrimVersions, DeleteVersion,
      InsertFails, CheckFails, TrimFails, Crash
<1> QED BY <1>1, <1>2, <1>3, <1>4, Zenon

\* A retention begins with what is in excess, and takes the numbers one by one
\* while no other insert is under way.
LEMMA StepRetentionIsExact ==
  ASSUME NumberInv, IsFiniteSet(history), NumbersAreUnique, RetentionIsExact, [Next]_vars
  PROVE  RetentionIsExact'
<1>1. CASE UNCHANGED vars
  BY <1>1, Zenon DEF vars, RetentionIsExact, Taken
<1> SUFFICES ASSUME Next, NEW c \in Calls, c \notin overlap', pc'[c] = "delete"
             PROVE  /\ \A n \in toDelete'[c] : \E v \in history' : v.no = n
                    /\ Cardinality({v \in history' : v.no \notin toDelete'[c]}) <= MaxVersions
  BY <1>1, Zenon DEF RetentionIsExact, Taken
<1> USE DEF NumberInv, HistoryInv, TypeOK, Goto
<1>2. pc[c] \in {"trim", "delete"}
  <2>1. ASSUME NEW d \in Calls, d # c, CallStep(d) \/ FailedStep(d) PROVE pc[c] = "delete"
    BY <2>1, StepOfOneCall, Zenon
  <2>2. CASE CallStep(c) \/ FailedStep(c)
    <3>1. CASE Rejected(c) \/ Recorded(c)
      BY <3>1, Zenon DEF Rejected, Recorded
    <3>2. CASE ~Rejected(c) /\ ~Recorded(c)
      BY <2>2, <3>2, Zenon
      DEF CallStep, FailedStep, BeginAppend, BeginEdit, BeginBootstrap, CheckHistory,
          LockParent, ReadHistory, AddVersion, ConfirmConflict, Reread, TrimVersions,
          DeleteVersion, AddFails, InsertFails, CheckFails, TrimFails
    <3> QED BY <3>1, <3>2, Zenon
  <2>3. ASSUME NEW r \in Replicas, Crash(r) PROVE pc[c] = "delete"
    BY <2>3, Zenon DEF Crash
  <2> QED BY <2>1, <2>2, <2>3, Zenon DEF Next
<1>3. c \notin overlap
  BY <1>2, OverlapStays, Zenon DEF Locked
<1>4. \A d \in Calls \ {c} : pc[d] \notin Locked
  BY <1>2, <1>3, Zenon DEF OverlapIsSeen, Locked
<1>5. CASE TrimVersions(c)
  <2>1. toDelete'[c] = Excess /\ history' = history
    BY <1>5, Zenon DEF TrimVersions, Recorded
  <2>2. \A n \in Excess : \E v \in history : v.no = n
    BY Zenon DEF Excess
  <2> QED BY <2>1, <2>2, KeptAreFew, Zenon
<1>6. CASE DeleteVersion(c)
  <2>1. PICK n \in toDelete[c] :
          /\ history' = {v \in history : v.no # n}
          /\ toDelete'[c] = toDelete[c] \ {n}
    BY <1>6, Zenon DEF DeleteVersion, Recorded
  <2>2. pc[c] = "delete"
    BY <1>6, Zenon DEF DeleteVersion
  <2>3. {v \in history' : v.no \notin toDelete'[c]} = {v \in history : v.no \notin toDelete[c]}
    BY <2>1, Zenon
  <2>4. \A m \in toDelete'[c] : \E v \in history' : v.no = m
    BY <1>3, <2>1, <2>2, ZenonT(60) DEF RetentionIsExact, Taken
  <2> QED BY <1>3, <2>2, <2>3, <2>4, Zenon DEF RetentionIsExact
<1>7. CASE pc'[c] = pc[c] /\ toDelete'[c] = toDelete[c] /\ history' = history
  BY <1>3, <1>7 DEF RetentionIsExact, Taken
<1> QED BY <1>2, <1>4, <1>5, <1>6, <1>7, StepOfRetention, Zenon

\* An insert that no bootstrap of another replica overlaps leaves at most
\* maxVersionsPerRule entries, whatever number of interrupted or racing
\* retentions left behind, unless its own retention fails.
THEOREM RetentionsHeal == Spec => RetentionHeals
<1> DEFINE Inv == /\ NumberInv /\ EntriesAreCounted
                  /\ NumbersAreUnique /\ RetentionIsExact
<1>1. Init => Inv
  BY InitNumberInv, InitEntriesAreCounted, Zenon DEF Init, NumbersAreUnique, RetentionIsExact
<1>2. Inv /\ [Next]_vars => Inv'
  BY StepNumberInv, StepEntriesAreCounted, StepNumbersAreUnique, StepRetentionIsExact, Zenon
  DEF NumberInv, EntriesAreCounted
<1>3. ASSUME Inv, [Next]_vars, NEW c \in Calls \ overlap, MaxVersions > 0,
             pc[c] \in {"trim", "delete"}, pc'[c] \in {"insert", "done"}, faults' = faults
      PROVE  Cardinality(history') <= MaxVersions
  <2>1. ~UNCHANGED vars
    BY <1>3, Zenon DEF vars
  <2>2. CASE TrimVersions(c)
    <3>1. history' = history /\ Excess = {}
      BY <1>3, <2>2 DEF TrimVersions, Goto, NumberInv, HistoryInv, TypeOK
    <3>2. {v \in history : v.no \notin Excess} = history
      BY <3>1, Zenon
    <3>3. Cardinality({v \in history : v.no \notin Excess}) <= MaxVersions
      BY <1>3, KeptAreFew, Zenon DEF NumberInv, EntriesAreCounted
    <3> QED BY <3>1, <3>2, <3>3, Zenon
  <2>3. CASE DeleteVersion(c)
    <3>1. pc[c] = "delete"
      BY <2>3, Zenon DEF DeleteVersion
    <3>2. /\ \A n \in toDelete[c] : Taken(n)
          /\ Cardinality({v \in history : v.no \notin toDelete[c]}) <= MaxVersions
      BY <1>3, <3>1, Zenon DEF RetentionIsExact
    <3>3. PICK n \in toDelete[c] : history' = {v \in history : v.no # n} /\ toDelete[c] = {n}
      BY <1>3, <2>3, <3>1, <3>2, Zenon DEF DeleteVersion
    <3>4. history' = {v \in history : v.no \notin toDelete[c]}
      BY <3>3, Zenon
    <3> QED BY <3>2, <3>4, Zenon
  <2> QED BY <1>3, <2>1, <2>2, <2>3, StepOfRetention, Zenon DEF NumberInv, HistoryInv
<1>4. Inv /\ [Next]_vars =>
        [\A c \in Calls \ overlap :
           /\ MaxVersions > 0
           /\ pc[c] \in {"trim", "delete"}
           /\ pc'[c] \in {"insert", "done"}
           /\ faults' = faults
           => Cardinality(history') <= MaxVersions]_vars
  BY <1>3, Zenon
<1> HIDE DEF Inv
<1> QED BY <1>1, <1>2, <1>4, PTL DEF Spec, RetentionHeals
=============================================================================
