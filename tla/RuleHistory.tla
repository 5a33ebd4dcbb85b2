----------------------------- MODULE RuleHistory -----------------------------
(***************************************************************************)
(* The version history of one traffic rule (pkg/core/versioning): entries  *)
(* are appended by rule mutations, under the rule lock, and by the startup *)
(* bootstrap, without it.  Every replica has one adapter, whose mutex      *)
(* covers a whole InsertVersion; the rows live in the shared store.        *)
(***************************************************************************)
EXTENDS Integers, FiniteSets

CONSTANTS
  Mutations,    \* create, update, delete and rollback calls of the console
  Bootstraps,   \* RecordBootstrapState calls, one per replica start
  Replicas,     \* processes, each with one ResourceStoreAdapter
  Replica,      \* the process of each call
  Nobody,       \* holder of a free mutex
  MaxVersions,  \* maxVersionsPerRule; 0 keeps everything
  MaxAttempts,  \* maxVersionAllocateAttempts
  MaxFaults     \* bound: failed statements, cancellations and crashes

Calls == Mutations \cup Bootstraps

ASSUME HistoryAssumption ==
  /\ Mutations \cap Bootstraps = {}
  /\ Replica \in [Calls -> Replicas]
  /\ Nobody \notin Calls
  /\ MaxVersions \in Nat
  /\ MaxAttempts \in Nat \ {0}
  /\ MaxFaults \in Nat

VARIABLES
  history,      \* the RuleVersion resources of the rule
  ruleLock,     \* the mutation inside withRuleLock
  parentLock,   \* the call inside withParentLock, per replica
  pc,           \* where each call stands
  source,       \* the Source of the entry a call is inserting
  versionNo,    \* the number a call is trying to insert
  attempt,      \* the retries of that insert
  toDelete,     \* the numbers a call's retention still has to delete
  overlap,      \* history variable: calls whose last insert ran at the same time
                \* as one that the rule lock does not keep apart from it
  faults        \* faults so far

vars ==
  <<history, ruleLock, parentLock, pc, source, versionNo, attempt, toDelete, overlap, faults>>

\* An entry: its number, the call that recorded it and its Source.
Entry == [no : Nat \ {0}, by : Calls, source : {"bootstrap", "admin"}]

Locked == {"read", "add", "confirm", "reread", "trim", "delete"}

Steps == {"start", "hasHistory", "insert", "done", "failed"} \cup Locked

TypeOK ==
  /\ history \subseteq Entry
  /\ ruleLock \in Mutations \cup {Nobody}
  /\ parentLock \in [Replicas -> Calls \cup {Nobody}]
  /\ pc \in [Calls -> Steps]
  /\ source \in [Calls -> {"bootstrap", "admin"}]
  /\ versionNo \in [Calls -> Nat]
  /\ attempt \in [Calls -> Nat]
  /\ toDelete \in [Calls -> SUBSET (Nat \ {0})]
  /\ overlap \subseteq Calls
  /\ faults \in Nat

Init ==
  /\ history = {}
  /\ ruleLock = Nobody
  /\ parentLock = [r \in Replicas |-> Nobody]
  /\ pc = [c \in Calls |-> "start"]
  /\ source = [c \in Calls |-> "bootstrap"]
  /\ versionNo = [c \in Calls |-> 0]
  /\ attempt = [c \in Calls |-> 0]
  /\ toDelete = [c \in Calls |-> {}]
  /\ overlap = {}
  /\ faults = 0

Goto(c, step) == pc' = [pc EXCEPT ![c] = step]

\* Seeded bug: the rule lock is not taken.
LockRule_Not(c) == UNCHANGED ruleLock

LockRule(c) == ruleLock = Nobody /\ ruleLock' = c

UnlockRule(c) == ruleLock' = IF ruleLock = c THEN Nobody ELSE ruleLock

UnlockParent(c) == parentLock' = [parentLock EXCEPT ![Replica[c]] = Nobody]

ForgetInsert(c) ==
  /\ versionNo' = [versionNo EXCEPT ![c] = 0]
  /\ attempt' = [attempt EXCEPT ![c] = 0]
  /\ toDelete' = [toDelete EXCEPT ![c] = {}]

-----------------------------------------------------------------------------
(* Callers                                                                  *)

\* createRule and RollbackRuleVersion append their entry right away.
BeginAppend(c) ==
  /\ c \in Mutations
  /\ pc[c] = "start"
  /\ LockRule(c)
  /\ source' = [source EXCEPT ![c] = "admin"]
  /\ Goto(c, "insert")
  /\ UNCHANGED <<history, parentLock, versionNo, attempt, toDelete, overlap, faults>>

\* updateRule and deleteRule first run ensureBaselineHistory.
BeginEdit(c) ==
  /\ c \in Mutations
  /\ pc[c] = "start"
  /\ LockRule(c)
  /\ Goto(c, "hasHistory")
  /\ UNCHANGED <<history, parentLock, source, versionNo, attempt, toDelete, overlap, faults>>

\* RecordBootstrapState goes on without the rule lock.
BeginBootstrap(c) ==
  /\ c \in Bootstraps
  /\ pc[c] = "start"
  /\ Goto(c, "hasHistory")
  /\ UNCHANGED <<history, ruleLock, parentLock, source, versionNo, attempt, toDelete, overlap, faults>>

\* LatestVersion, in a critical section of its own.  With no history the
\* baseline is inserted; otherwise a bootstrap ends, an edit goes on to its
\* own entry.
CheckHistory(c) ==
  /\ pc[c] = "hasHistory"
  /\ parentLock[Replica[c]] = Nobody
  /\ \/ /\ history = {}
        /\ Goto(c, "insert")
        /\ UNCHANGED source
     \/ /\ history # {}
        /\ c \in Mutations
        /\ source' = [source EXCEPT ![c] = "admin"]
        /\ Goto(c, "insert")
     \/ /\ history # {}
        /\ c \in Bootstraps
        /\ Goto(c, "done")
        /\ UNCHANGED source
  /\ UNCHANGED <<history, ruleLock, parentLock, versionNo, attempt, toDelete, overlap, faults>>

\* InsertVersion returned its version: an edit that recorded its baseline
\* appends its own entry, every other call is finished.
Recorded(c) ==
  /\ UnlockParent(c)
  /\ ForgetInsert(c)
  /\ \/ /\ c \in Mutations /\ source[c] = "bootstrap"
        /\ source' = [source EXCEPT ![c] = "admin"]
        /\ Goto(c, "insert")
        /\ UNCHANGED ruleLock
     \/ /\ c \in Bootstraps \/ source[c] = "admin"
        /\ Goto(c, "done")
        /\ UnlockRule(c)
        /\ UNCHANGED source

\* InsertVersion returned an error, which ends the call.
Rejected(c) ==
  /\ UnlockParent(c)
  /\ ForgetInsert(c)
  /\ UnlockRule(c)
  /\ Goto(c, "failed")
  /\ UNCHANGED source

-----------------------------------------------------------------------------
(* InsertVersion                                                            *)

\* The inserts of other adapters under way when c enters, if either side is a
\* bootstrap.
Unserialised(c) ==
  {d \in Calls \ {c} : pc[d] \in Locked /\ (c \in Bootstraps \/ d \in Bootstraps)}

LockParent(c) ==
  /\ pc[c] = "insert"
  /\ parentLock[Replica[c]] = Nobody
  /\ parentLock' = [parentLock EXCEPT ![Replica[c]] = c]
  /\ overlap' = IF Unserialised(c) = {} THEN overlap \ {c}
                                        ELSE overlap \cup {c} \cup Unserialised(c)
  /\ Goto(c, "read")
  /\ UNCHANGED <<history, ruleLock, source, versionNo, attempt, toDelete, faults>>

\* state.MaxVersionNo + 1
IsNext(n) == \A v \in history : v.no < n

NextNos == {1} \cup {v.no + 1 : v \in history}

ReadHistory(c) ==
  /\ pc[c] = "read"
  /\ \E n \in NextNos : IsNext(n) /\ versionNo' = [versionNo EXCEPT ![c] = n]
  /\ Goto(c, "add")
  /\ UNCHANGED <<history, ruleLock, parentLock, source, attempt, toDelete, overlap, faults>>

\* The resource key is made of the rule and the number, so the store refuses a
\* second entry with the number.
Taken(n) == \E v \in history : v.no = n

NewEntry(c) == [no |-> versionNo[c], by |-> c, source |-> source[c]]

\* Seeded bug: the loop is not left after a successful Add.
AddVersion_NoBreak(c) ==
  /\ pc[c] = "add"
  /\ history' = IF Taken(versionNo[c]) THEN history ELSE history \cup {NewEntry(c)}
  /\ Goto(c, "confirm")
  /\ UNCHANGED <<ruleLock, parentLock, source, versionNo, attempt, toDelete, overlap, faults>>

AddVersion(c) ==
  /\ pc[c] = "add"
  /\ \/ /\ ~Taken(versionNo[c])
        /\ history' = history \cup {NewEntry(c)}
        /\ Goto(c, "trim")
     \/ /\ Taken(versionNo[c])
        /\ Goto(c, "confirm")
        /\ UNCHANGED history
  /\ UNCHANGED <<ruleLock, parentLock, source, versionNo, attempt, toDelete, overlap, faults>>

\* After a failed Add the key must exist, or the error is returned.
ConfirmConflict(c) ==
  /\ pc[c] = "confirm"
  /\ \/ /\ Taken(versionNo[c])
        /\ Goto(c, "reread")
        /\ UNCHANGED <<ruleLock, parentLock, source, versionNo, attempt, toDelete>>
     \/ ~Taken(versionNo[c]) /\ Rejected(c)
  /\ UNCHANGED <<history, overlap, faults>>

\* Seeded bug: the retry loop has no limit and does not read the history again.
Reread_Same(c) ==
  /\ pc[c] = "reread"
  /\ Goto(c, "add")
  /\ UNCHANGED <<history, ruleLock, parentLock, source, versionNo, attempt, toDelete, overlap, faults>>

\* The next number is allocated from the history read again; it must be larger
\* and the attempts are limited.
Reread(c) ==
  /\ pc[c] = "reread"
  /\ \E n \in NextNos :
       /\ IsNext(n)
       /\ \/ /\ n > versionNo[c] /\ attempt[c] + 1 < MaxAttempts
             /\ versionNo' = [versionNo EXCEPT ![c] = n]
             /\ attempt' = [attempt EXCEPT ![c] = @ + 1]
             /\ Goto(c, "add")
             /\ UNCHANGED <<ruleLock, parentLock, source, toDelete>>
          \/ /\ n <= versionNo[c] \/ attempt[c] + 1 = MaxAttempts
             /\ Rejected(c)
  /\ UNCHANGED <<history, overlap, faults>>

-----------------------------------------------------------------------------
(* Retention                                                                *)

\* Seeded bug: one entry too many is kept.
Excess_OneMore ==
  {v.no : v \in {w \in history : Cardinality({x \in history : x.no > w.no}) >= MaxVersions + 1}}
\* versions[keep:] of the history sorted by descending number.
Excess ==
  {v.no : v \in {w \in history : Cardinality({x \in history : x.no > w.no}) >= MaxVersions}}

TrimVersions(c) ==
  /\ pc[c] = "trim"
  /\ \/ /\ MaxVersions > 0 /\ Excess # {}
        /\ toDelete' = [toDelete EXCEPT ![c] = Excess]
        /\ Goto(c, "delete")
        /\ UNCHANGED <<ruleLock, parentLock, source, versionNo, attempt>>
     \/ (MaxVersions = 0 \/ Excess = {}) /\ Recorded(c)
  /\ UNCHANGED <<history, overlap, faults>>

\* The next of the excess entries, which are deleted in descending order.
IsFirst(c, n) == n \in toDelete[c] /\ \A m \in toDelete[c] : m <= n

\* Each entry is looked up and deleted; one that is gone ends the retention
\* with an error, which InsertVersion logs.
DeleteVersion(c) ==
  /\ pc[c] = "delete"
  /\ \E n \in toDelete[c] :
       /\ IsFirst(c, n)
       /\ history' = {v \in history : v.no # n}
       /\ \/ /\ Taken(n) /\ toDelete[c] # {n}
             /\ toDelete' = [toDelete EXCEPT ![c] = @ \ {n}]
             /\ UNCHANGED <<ruleLock, parentLock, pc, source, versionNo, attempt>>
          \/ (~Taken(n) \/ toDelete[c] = {n}) /\ Recorded(c)
  /\ UNCHANGED <<overlap, faults>>

-----------------------------------------------------------------------------
(* Faults                                                                   *)

Fault == faults < MaxFaults /\ faults' = faults + 1

\* Add fails without effect, or was committed and only the answer was lost.
AddFails(c) ==
  /\ Fault
  /\ pc[c] = "add"
  /\ \/ UNCHANGED history
     \/ ~Taken(versionNo[c]) /\ history' = history \cup {NewEntry(c)}
  /\ Goto(c, "confirm")
  /\ UNCHANGED <<ruleLock, parentLock, source, versionNo, attempt, toDelete, overlap>>

\* A read fails, or the context is found cancelled, which after Add reports an
\* error although the entry is recorded.
InsertFails(c) ==
  /\ Fault
  /\ pc[c] \in {"read", "add", "confirm", "reread", "trim"}
  /\ Rejected(c)
  /\ UNCHANGED <<history, overlap>>

\* The check for history fails.
CheckFails(c) ==
  /\ Fault
  /\ pc[c] = "hasHistory"
  /\ UnlockRule(c)
  /\ Goto(c, "failed")
  /\ UNCHANGED <<history, parentLock, source, versionNo, attempt, toDelete, overlap>>

\* Retention stops half way; the entry stands and the call succeeds.
TrimFails(c) ==
  /\ Fault
  /\ pc[c] \in {"trim", "delete"}
  /\ Recorded(c)
  /\ UNCHANGED <<history, overlap>>

\* A replica dies; its rule lock runs out.
Crash(r) ==
  /\ Fault
  /\ pc' = [c \in Calls |-> IF Replica[c] = r /\ pc[c] # "done" THEN "failed" ELSE pc[c]]
  /\ parentLock' = [parentLock EXCEPT ![r] = Nobody]
  /\ ruleLock' = IF ruleLock # Nobody /\ Replica[ruleLock] = r THEN Nobody ELSE ruleLock
  /\ toDelete' = [c \in Calls |-> IF Replica[c] = r THEN {} ELSE toDelete[c]]
  /\ UNCHANGED <<history, source, versionNo, attempt, overlap>>

-----------------------------------------------------------------------------
(* Specifications                                                           *)

CallStep(c) ==
  \/ BeginAppend(c)
  \/ BeginEdit(c)
  \/ BeginBootstrap(c)
  \/ CheckHistory(c)
  \/ LockParent(c)
  \/ ReadHistory(c)
  \/ AddVersion(c)
  \/ ConfirmConflict(c)
  \/ Reread(c)
  \/ TrimVersions(c)
  \/ DeleteVersion(c)

FailedStep(c) == AddFails(c) \/ InsertFails(c) \/ CheckFails(c) \/ TrimFails(c)

Next ==
  \/ \E c \in Calls : CallStep(c) \/ FailedStep(c)
  \/ \E r \in Replicas : Crash(r)

Spec == Init /\ [][Next]_vars

\* Goroutines keep running, and a free mutex or rule lock is eventually taken
\* by somebody who waits for it.
FairSpec == Spec /\ \A c \in Calls : WF_vars(CallStep(c))

-----------------------------------------------------------------------------
(* Properties                                                               *)

\* Numbers only grow: an insert that no bootstrap of another replica overlaps
\* is numbered above all other entries, so no number freed by the retention is
\* given out again, whatever failed before.
NumbersGrow ==
  [][ \A v \in history' \ history :
        v.by \notin overlap => \A w \in history : w.no < v.no ]_vars

\* Retention never removes the newest entry, however many adapters trim at the
\* same time, so the next number can always be derived from what is left.
NewestStays ==
  [][ \A v \in history :
        (\A w \in history : w.no <= v.no) => \E x \in history' : x.no = v.no ]_vars

\* Retention heals: an insert that runs alone leaves at most maxVersionsPerRule
\* entries, whatever interrupted or racing retentions left behind.  Racing ones
\* may leave more: each stops at the first entry that another has deleted.
RetentionHeals ==
  [][ \A c \in Calls \ overlap :
        /\ MaxVersions > 0
        /\ pc[c] \in {"trim", "delete"}
        /\ pc'[c] \in {"insert", "done"}
        /\ faults' = faults
        => Cardinality(history') <= MaxVersions ]_vars

\* However often its insert is retried after losing a number, a mutation
\* records its entry once, and once more for an answer that was lost.
OneEntryPerMutation ==
  \A v \in history :
    Cardinality({w \in history : w.by = v.by /\ w.source = v.source}) <= 1 + faults

\* Every call that has begun comes to an end.
CallsEnd ==
  \A c \in Calls : pc[c] # "start" ~> pc[c] \in {"done", "failed"}

\* The numbers of a rule's versions are never given out twice: inserts number
\* upwards, and what they derive the next number from is never trimmed away.
NumberingIsSafe == NumbersGrow /\ NewestStays
=============================================================================
