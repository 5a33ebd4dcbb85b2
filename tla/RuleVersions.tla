---------------------------- MODULE RuleVersions ----------------------------
(***************************************************************************)
(* What the recorded versions of a rule say, and the rule itself.  A change   *)
(* is recorded first and published after; whether the rule exists is asked of *)
(* the store, which follows the configuration center and is written by the    *)
(* governor.  Numbers, attempts and retention within one insertion are the    *)
(* subject of RuleHistory: here an insertion is one step.                      *)
(***************************************************************************)
EXTENDS Integers, FiniteSetsExt, SequencesExt

CONSTANTS
  Contents,      \* specs of the rule, by their canonical JSON
  Callers,       \* requests under way at a time
  MaxVersions,   \* maxVersionsPerRule
  MaxCalls,      \* bound: requests
  MaxFaults,     \* bound: failures, and changes by others
  None

VARIABLES
  center,    \* "nacos" or "zookeeper"
  locking,   \* whether there is a lock manager
  rule,      \* the rule in the configuration center, or None
  store,     \* the copy in the resource store
  recorded,  \* all versions ever recorded; the index is the number
  kept,      \* the numbers that retention has left
  call,      \* per caller: the request under way
  calls, faults,
  diverged,  \* history: the newest version need not be the rule
  saw,       \* history: what the rule has been since the request began
  misled     \* history: callers that were told of a rule in the center that there is none

vars == <<center, locking, rule, store, recorded, kept, call, calls, faults, diverged, saw, misled>>
history == <<recorded, kept>>
fixed == <<center, locking, calls>>

Idle == [at |-> "idle"]

(* A rule may be older than its history, have been recorded by the bootstrap, or been changed since. *)
Baseline(spec) == <<[op |-> "CREATE", spec |-> spec, from |-> 0]>>
Edit(spec) == [op |-> "UPDATE", spec |-> spec, from |-> 0]

Init ==
  /\ center \in {"nacos", "zookeeper"} /\ locking \in BOOLEAN
  /\ rule \in Contents \cup {None} /\ store = rule
  /\ recorded \in IF rule = None THEN {<<>>} ELSE {<<>>, Baseline(rule)} \cup {Baseline(s) \o <<Edit(rule)>> : s \in Contents}
  /\ kept = DOMAIN recorded
  /\ call = [c \in Callers |-> Idle] /\ calls = 0 /\ faults = 0
  /\ diverged = FALSE /\ saw = [c \in Callers |-> {}] /\ misled = {}

Fault == faults < MaxFaults /\ faults' = faults + 1

(* The rule changes: every request under way has seen it. *)
Rule(new) == rule' = new /\ saw' = [c \in Callers |-> saw[c] \cup {new}]

To(c, q) == call' = [call EXCEPT ![c] = q]

Answer(c, a) == To(c, [op |-> call[c].op, at |-> "answered", answer |-> a, asked |-> call[c].asked])

-----------------------------------------------------------------------------
(* Requests *)

(* WithLock, where there is a lock manager. *)
HoldsLock(c) == call[c].at \notin {"idle", "answered"} /\ call[c].op # "diff"

Begin(c, q) ==
  /\ call[c].at \in {"idle", "answered"} /\ calls < MaxCalls /\ calls' = calls + 1
  /\ locking /\ q.op # "diff" => \A d \in Callers : ~HoldsLock(d)
  /\ To(c, q)
  /\ saw' = [saw EXCEPT ![c] = {rule}] /\ misled' = misled \ {c}
  /\ UNCHANGED <<center, locking, rule, store, history, faults, diverged>>

CreateRule(c) ==
  \E s \in Contents : Begin(c, [op |-> "create", at |-> "append", spec |-> s, asked |-> s, entry |-> "CREATE", from |-> 0])

UpdateRule(c) ==
  \E s \in Contents : Begin(c, [op |-> "update", at |-> "read", spec |-> s, asked |-> s, entry |-> "UPDATE", from |-> 0])

DeleteRule(c) ==
  Begin(c, [op |-> "delete", at |-> "read", spec |-> None, asked |-> None, entry |-> "DELETE", from |-> 0])

RollbackRuleVersion(c) ==
  \E no \in kept : Begin(c, [op |-> "rollback", at |-> "target", spec |-> None, asked |-> recorded[no].spec,
                             entry |-> "CREATE", from |-> no])

(* Against another version, the previous one or the rule as it is (0). *)
DiffRuleVersion(c) ==
  \E no \in kept, against \in {"previous", "current"} :
    Begin(c, [op |-> "diff", at |-> "left", from |-> no, against |-> against, asked |-> None])

-----------------------------------------------------------------------------
(* Changes *)

(* A version that has been deleted meanwhile, or records a deletion, is no target. *)
GetTarget(c) ==
  /\ call[c].at = "target"
  /\ LET target == recorded[call[c].from]
     IN IF call[c].from \notin kept \/ target.op = "DELETE" THEN Answer(c, "refused")
        ELSE To(c, [call[c] EXCEPT !.at = "read", !.spec = target.spec])
  /\ UNCHANGED <<fixed, rule, store, history, faults, diverged, saw, misled>>

(* getRuleIfExists, and what each request makes of it: a rule that does not exist cannot be      *)
(* updated, need not be deleted, and is created by a rollback.                                    *)
Exists(c, found) ==
  CASE call[c].op = "update" /\ found = None -> Answer(c, "refused")
    [] call[c].op = "delete" /\ found = None -> Answer(c, "done")
    [] call[c].op = "rollback" /\ found = call[c].spec -> Answer(c, "refused")
    [] call[c].op = "rollback" /\ found # call[c].spec ->
         To(c, [call[c] EXCEPT !.at = "append", !.entry = IF found = None THEN "CREATE" ELSE "UPDATE"])
    [] OTHER -> To(c, [op |-> call[c].op, at |-> "baseline", spec |-> call[c].spec, asked |-> call[c].asked,
                       entry |-> call[c].entry, from |-> 0, found |-> found])

ReadRule(c) ==
  /\ call[c].at = "read"
  /\ Exists(c, store)
  /\ misled' = IF store = None /\ rule # None THEN misled \cup {c} ELSE misled
  /\ UNCHANGED <<fixed, rule, store, history, faults, diverged, saw>>

(* resourcesManager.GetByKey takes an error of the store for a rule that does not exist. *)
ReadFails(c) ==
  /\ Fault /\ call[c].at = "read"
  /\ Exists(c, None)
  /\ misled' = misled \cup {c}
  /\ UNCHANGED <<fixed, rule, store, history, diverged, saw>>

Insert(op, spec, from) ==
  /\ recorded' = Append(recorded, [op |-> op, spec |-> spec, from |-> from])
  /\ LET all == kept \cup {Len(recorded) + 1}
     IN kept' = {no \in all : Cardinality({m \in all : m > no}) < MaxVersions}

EnsureBaselineHistory(c) ==
  /\ call[c].at = "baseline"
  /\ IF kept = {} THEN Insert("CREATE", call[c].found, 0) ELSE UNCHANGED history
  /\ To(c, [call[c] EXCEPT !.at = "append"])
  /\ UNCHANGED <<fixed, rule, store, faults, diverged, saw, misled>>

(* Seeded bug: a deletion is recorded as an update that leaves the rule as it was. *)
AppendRuleHistory_Snapshot(c) ==
  /\ call[c].at = "append"
  /\ IF call[c].op = "delete" THEN Insert("UPDATE", call[c].found, 0)
                              ELSE Insert(call[c].entry, call[c].spec, call[c].from)
  /\ To(c, [op |-> call[c].op, at |-> "write", spec |-> call[c].spec, asked |-> call[c].asked,
            no |-> Len(recorded) + 1])
  /\ UNCHANGED <<fixed, rule, store, faults, diverged, saw, misled>>

(* The version is recorded before anything is published. *)
AppendRuleHistory(c) ==
  /\ call[c].at = "append"
  /\ Insert(call[c].entry, call[c].spec, call[c].from)
  /\ To(c, [op |-> call[c].op, at |-> "write", spec |-> call[c].spec, asked |-> call[c].asked,
            no |-> Len(recorded) + 1])
  /\ UNCHANGED <<fixed, rule, store, faults, diverged, saw, misled>>

AppendFails(c) ==
  /\ Fault /\ call[c].at \in {"baseline", "append"}
  /\ Answer(c, "error")
  /\ UNCHANGED <<fixed, rule, store, history, diverged, saw, misled>>

(* Whether the governor's call succeeds: Upsert chooses by the store, DeleteByKey asks the store  *)
(* once more; ZooKeeper neither creates what exists nor sets or deletes what does not.             *)
Publishes(c) ==
  LET op == CASE call[c].op = "rollback" /\ store # None -> "update"
              [] call[c].op = "rollback" /\ store = None -> "create"
              [] OTHER -> call[c].op
  IN /\ op = "delete" => store # None
     /\ center = "zookeeper" => (op = "create" <=> rule = None)

Write(c) ==
  /\ call[c].at = "write"
  /\ IF Publishes(c)
       THEN /\ Rule(call[c].spec) /\ diverged' = (call[c].no # Max(kept))
            /\ To(c, [call[c] EXCEPT !.at = "save"])
       ELSE Answer(c, "error") /\ diverged' = TRUE /\ UNCHANGED <<rule, saw>>
  /\ UNCHANGED <<fixed, store, history, faults, misled>>

(* The center fails, or its answer is lost. *)
WriteFails(c) ==
  /\ Fault /\ call[c].at = "write"
  /\ \/ Publishes(c) /\ Rule(call[c].spec)
     \/ UNCHANGED <<rule, saw>>
  /\ Answer(c, "error") /\ diverged' = TRUE
  /\ UNCHANGED <<fixed, store, history, misled>>

(* The governor writes the store; ZooKeeper's with what it wrote, Nacos' with what it reads two   *)
(* seconds later.  A failure is logged.                                                             *)
SaveToStore(c) ==
  /\ call[c].at = "save"
  /\ store' \in {store, IF center = "zookeeper" THEN call[c].spec ELSE rule}
  /\ Answer(c, "done")
  /\ UNCHANGED <<fixed, rule, history, faults, diverged, saw, misled>>

(* The lister-watcher catches up. *)
Synchronise ==
  /\ store # rule /\ store' = rule
  /\ UNCHANGED <<center, locking, rule, history, call, calls, faults, diverged, saw, misled>>

ChangedByOthers ==
  /\ Fault
  /\ \E new \in (Contents \cup {None}) \ {rule} : Rule(new)
  /\ diverged' = TRUE
  /\ UNCHANGED <<center, locking, store, history, call, calls, misled>>

-----------------------------------------------------------------------------
(* Comparison *)

GetVersion(c) ==
  /\ call[c].at = "left"
  /\ IF call[c].from \in kept THEN To(c, [call[c] EXCEPT !.at = "right"]) ELSE Answer(c, "not found")
  /\ UNCHANGED <<fixed, rule, store, history, faults, diverged, saw, misled>>

(* The next of the versions in descending order, if the version itself is still among them. *)
DiffRight(no) == {m \in kept : no \in kept /\ m < no /\ \A n \in kept : n < no => n <= m}

ReadRight(c) ==
  /\ call[c].at = "right"
  /\ LET right == IF call[c].against = "current" THEN {0} ELSE DiffRight(call[c].from)
     IN IF right = {} THEN Answer(c, "not found")
        ELSE To(c, [op |-> "diff", at |-> "answered", answer |-> "done", asked |-> None, left |-> call[c].from,
                    right |-> Max(right), current |-> IF right = {0} THEN store ELSE None])
  /\ UNCHANGED <<fixed, rule, store, history, faults, diverged, saw, misled>>

Next ==
  \/ Synchronise \/ ChangedByOthers
  \/ \E c \in Callers :
       \/ CreateRule(c) \/ UpdateRule(c) \/ DeleteRule(c) \/ RollbackRuleVersion(c) \/ DiffRuleVersion(c)
       \/ GetTarget(c) \/ ReadRule(c) \/ ReadFails(c) \/ EnsureBaselineHistory(c) \/ AppendRuleHistory(c)
       \/ AppendFails(c) \/ Write(c) \/ WriteFails(c) \/ SaveToStore(c) \/ GetVersion(c) \/ ReadRight(c)

Spec == Init /\ [][Next]_vars

-----------------------------------------------------------------------------
(* The requests and the history keep their shape. *)
TypeOK ==
  /\ {rule, store} \subseteq Contents \cup {None} /\ kept \subseteq DOMAIN recorded
  /\ \A i \in DOMAIN recorded : recorded[i].op \in {"CREATE", "UPDATE", "DELETE"}
  /\ Cardinality(kept) <= MaxVersions /\ calls \in 0..MaxCalls /\ faults \in 0..MaxFaults

(* Between changes the newest version is the rule in the configuration center, a deletion when    *)
(* there is none (rule_version.go:134-188, :242-308), unless the center refused or was not        *)
(* reached after the version had been recorded, others changed the rule, or without a lock manager *)
(* two changes published in another order than they were recorded.                                  *)
NewestIsInForce ==
  kept # {} /\ ~diverged /\ (\A c \in Callers : call[c].at # "write") =>
    LET head == recorded[Max(kept)]
    IN IF head.op = "DELETE" THEN rule = None ELSE rule = head.spec

(* A change that is reported done has been in force while it was asked for: the rule was what was  *)
(* sent or what the version rolled back to records, or was gone.  A deletion may also be reported   *)
(* done without a try when the store does not have the rule yet or cannot be read: GetByKey          *)
(* (manager.go:73-87) makes a missing rule of an error.                                                *)
DoneIsDone ==
  \A c \in Callers :
    /\ call[c].at = "answered" /\ call[c].op # "diff" /\ call[c].answer = "done"
    => call[c].asked \in saw[c] \/ (call[c].op = "delete" /\ c \in misled)

(* A comparison with the previous version (service.go:107-136) is with the one recorded just       *)
(* before it, although the version and the list are read one after the other and retention deletes  *)
(* versions in between.                                                                                *)
PreviousIsPrevious ==
  \A c \in Callers :
    call[c].at = "answered" /\ call[c].op = "diff" /\ call[c].answer = "done" =>
      call[c].right \in {0, call[c].left - 1}
=============================================================================
