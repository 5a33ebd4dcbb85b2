----------------------------- MODULE NacosRules -----------------------------
(***************************************************************************)
(* One traffic rule kept as a configuration of Nacos and its copy in the   *)
(* store.  The governor publishes a rule, waits, reads it back and writes  *)
(* the store.  Discovery lists the configurations once a term and then     *)
(* polls them: a scheduled job emits every configuration it finds, has     *)
(* the client call back when one it tracks changes, and reports as deleted *)
(* one it tracks and no longer finds.  The scheduler starts a job even     *)
(* when the one before has not ended.  The informer writes the rule        *)
(* itself: no subscriber stands between.                                   *)
(***************************************************************************)
EXTENDS Integers, Sequences

CONSTANTS
  Contents,     \* what a configuration may hold
  Wellformed,   \* the contents that are a rule; the console writes no others
  Blank,        \* the rule made from contents that do not parse
  None,
  Jobs,         \* jobs that may run at the same time
  QueueBound,   \* bound: no job starts while as many deltas wait
  MaxMoves      \* bound: writes to the registry and mishaps, all together

VARIABLES
  node,      \* the contents of the configuration in Nacos
  rule,      \* the rule resource
  phase,     \* what the reflector does next: list, or let the jobs run
  job,       \* what each job is doing, with the page it has read
  watching,  \* the entry of watchingCfg: found by the last job or not, or None
  heard,     \* the client has a change to call back
  wire,      \* deltas on their way to the informer
  gov,       \* the console operation under way
  moves,     \* writes and mishaps so far
  gap        \* history: what the code let pass since it last tracked the rule

registry == <<node, heard>>
polling == <<job, watching>>
vars == <<node, rule, phase, job, watching, heard, wire, gov, moves, gap>>

Idle == [at |-> "idle"]

Put(c) == [type |-> "put", rule |-> c]

Del == [type |-> "del"]

Rules == Wellformed \cup {Blank}

(* Unmarshalling reports an error to the log only: the rule keeps its zero spec. *)
ToRuleResource(c) == IF c \in Wellformed THEN c ELSE Blank

Follows(r, c) == r = IF c = None THEN None ELSE ToRuleResource(c)

TypeOK ==
  /\ node \in Contents \cup {None}
  /\ rule \in Rules \cup {None}
  /\ phase \in {"off", "list", "on"}
  /\ job \in [Jobs -> {Idle} \cup [at : {"page", "sweep"}, page : Contents \cup {None}]]
  /\ watching \in BOOLEAN \cup {None}
  /\ heard \in BOOLEAN
  /\ wire \in Seq({Put(r) : r \in Rules} \cup {Del})
  /\ gov \in {Idle} \cup [at : {"publish", "delete", "remove", "read"}, data : Wellformed]
       \cup [at : {"find"}, data : Rules]
       \cup [at : {"write"}, data : Rules, found : BOOLEAN]
  /\ moves \in 0 .. MaxMoves
  /\ gap \in SUBSET {"untracked", "resurrected", "late", "failed"}

Mishap == moves < MaxMoves /\ moves' = moves + 1

-----------------------------------------------------------------------------
(* Nacos and its client: a change of a configuration that is listened to is  *)
(* called back, its deletion included.                                       *)

Publish(c) ==
  /\ node' = c
  /\ heard' = (heard \/ watching # None)
  /\ UNCHANGED gap

DeleteConfig ==
  /\ node # None
  /\ node' = None
  /\ heard' = (heard \/ watching # None)
  /\ gap' = IF phase = "on" /\ watching = None THEN gap \cup {"untracked"} ELSE gap

(* Another client of the registry. *)
ClientWrites ==
  /\ Mishap
  /\ (\E c \in Contents : Publish(c)) \/ DeleteConfig
  /\ UNCHANGED <<rule, phase, polling, wire, gov>>

(* The callback passes on what it finds; nothing at all parses as a blank rule. *)
OnChange ==
  /\ heard
  /\ heard' = FALSE
  /\ wire' = Append(wire, Put(ToRuleResource(node)))
  /\ gap' = IF node = None /\ watching = None THEN gap \cup {"late"} ELSE gap
  /\ UNCHANGED <<node, rule, phase, polling, gov, moves>>

-----------------------------------------------------------------------------
(* The console and its governor, one operation on the rule at a time. *)

StartOperation ==
  /\ gov = Idle
  /\ Mishap
  /\ \E op \in {"publish", "delete"}, c \in Wellformed :
       /\ op = "delete" => rule # None
       /\ gov' = [at |-> op, data |-> c]
  /\ UNCHANGED <<registry, rule, phase, polling, wire, gap>>

(* A creation and an update both publish, over whatever is there. *)
CreateRule ==
  /\ gov.at = "publish"
  /\ Publish(gov.data)
  /\ gov' = [gov EXCEPT !.at = "read"]
  /\ UNCHANGED <<rule, phase, polling, wire, moves>>

DeleteRule ==
  /\ gov.at = "delete"
  /\ \/ DeleteConfig
     \/ node = None /\ UNCHANGED <<registry, gap>>
  /\ gov' = [gov EXCEPT !.at = "remove"]
  /\ UNCHANGED <<rule, phase, polling, wire, moves>>

(* The store's Delete wants the rule there; its error is logged only. *)
RemoveFromStore ==
  /\ gov.at = "remove"
  /\ gov' = Idle
  /\ \/ rule' = None /\ UNCHANGED moves
     \/ Mishap /\ UNCHANGED rule
  /\ UNCHANGED <<registry, phase, polling, wire, gap>>

(* What the console publishes is read back before the store is written. *)
GetConfig ==
  /\ gov.at = "read"
  /\ gov' = IF node = None THEN Idle ELSE [at |-> "find", data |-> ToRuleResource(node)]
  /\ UNCHANGED <<registry, rule, phase, polling, wire, moves, gap>>

GetByKey ==
  /\ gov.at = "find"
  /\ gov' = [at |-> "write", data |-> gov.data, found |-> rule # None]
  /\ UNCHANGED <<registry, rule, phase, polling, wire, moves, gap>>

(* Update wants the rule there and Add wants it missing; a failure of the     *)
(* store is logged and left to discovery.                                     *)
UpdateStore ==
  /\ gov.at = "write"
  /\ gov' = Idle
  /\ \/ /\ gov.found = (rule # None)
        /\ rule' = gov.data
        /\ gap' = IF node = None THEN gap \cup {"resurrected"} ELSE gap
        /\ UNCHANGED moves
     \/ /\ gov.found # (rule # None)
        /\ UNCHANGED <<rule, gap, moves>>
     \/ /\ Mishap
        /\ UNCHANGED <<rule, gap>>
  /\ UNCHANGED <<registry, phase, polling, wire>>

-----------------------------------------------------------------------------
(* The lister and the scheduled jobs. *)

(* The list replaces what the informer knows, the rules of the store. *)
List ==
  /\ phase = "list"
  /\ phase' = "on"
  /\ wire' = IF node # None THEN Append(wire, Put(ToRuleResource(node)))
             ELSE IF rule # None THEN Append(wire, Del) ELSE wire
  /\ gap' = {}
  /\ UNCHANGED <<registry, rule, polling, gov, moves>>

(* The pages are read; an item that moves to a page already read is missed.  A *)
(* job that takes longer than the period meets the next one.                   *)
ListPages(j) ==
  /\ phase = "on" /\ job[j] = Idle /\ Len(wire) < QueueBound
  /\ \/ /\ \A k \in Jobs : job[k] = Idle
        /\ job' = [job EXCEPT ![j] = [at |-> "page", page |-> node]]
        /\ UNCHANGED moves
     \/ /\ Mishap /\ \E k \in Jobs : job[k] # Idle
        /\ job' = [job EXCEPT ![j] = [at |-> "page", page |-> node]]
     \/ /\ Mishap /\ node # None
        /\ job' = [job EXCEPT ![j] = [at |-> "page", page |-> None]]
  /\ UNCHANGED <<registry, rule, phase, watching, wire, gov, gap>>

(* The configuration found is emitted, and listened to from now on.  An error *)
(* on a later page ends the job before its sweep.                             *)
ProcessConfig(j) ==
  /\ job[j].at = "page"
  /\ \/ /\ job[j].page # None
        /\ wire' = Append(wire, Put(ToRuleResource(job[j].page)))
        /\ \/ watching' = TRUE /\ gap' = {} /\ UNCHANGED moves
           \/ /\ watching = None /\ Mishap
              /\ gap' = IF node = None THEN gap \cup {"untracked"} ELSE gap
              /\ UNCHANGED watching
     \/ job[j].page = None /\ UNCHANGED <<wire, watching, moves, gap>>
  /\ job' = [job EXCEPT ![j].at = "sweep"]
  /\ UNCHANGED <<registry, rule, phase, gov>>

(* Seeded bug: an entry that is dropped is not reported. *)
Sweep_Silent(j) ==
  /\ job[j].at = "sweep"
  /\ watching' = IF watching = TRUE THEN FALSE ELSE None
  /\ job' = [job EXCEPT ![j] = Idle]
  /\ UNCHANGED <<registry, rule, phase, wire, gov, moves, gap>>

(* An entry found since the last sweep is kept once more; another is reported *)
(* as deleted, and dropped unless the client refuses to.                      *)
Sweep(j) ==
  /\ job[j].at = "sweep"
  /\ \/ watching = TRUE /\ watching' = FALSE /\ UNCHANGED <<wire, moves>>
     \/ watching = FALSE /\ watching' = None /\ wire' = Append(wire, Del) /\ UNCHANGED moves
     \/ watching = FALSE /\ Mishap /\ wire' = Append(wire, Del) /\ UNCHANGED watching
     \/ watching = None /\ UNCHANGED <<wire, watching, moves>>
     \/ Mishap /\ UNCHANGED <<wire, watching>>
  /\ job' = [job EXCEPT ![j] = Idle]
  /\ UNCHANGED <<registry, rule, phase, gov, gap>>

(* The leader is gone with its jobs, listeners and deltas; another one lists. *)
NewTerm ==
  /\ Mishap
  /\ phase' = "list"
  /\ job' = [j \in Jobs |-> Idle]
  /\ watching' = None /\ heard' = FALSE /\ wire' = <<>>
  /\ UNCHANGED <<node, rule, gov, gap>>

(* The informer adds or updates the rule, or deletes it if it is there; a     *)
(* failure of the store loses the delta.                                      *)
HandleDeltas ==
  /\ wire # <<>>
  /\ wire' = Tail(wire)
  /\ \/ /\ rule' = IF Head(wire).type = "put" THEN Head(wire).rule ELSE None
        /\ UNCHANGED <<moves, gap>>
     \/ /\ Mishap
        /\ gap' = IF Head(wire) = Del THEN gap \cup {"failed"} ELSE gap
        /\ UNCHANGED rule
  /\ UNCHANGED <<registry, phase, polling, gov>>

-----------------------------------------------------------------------------
Init ==
  /\ node \in {None} \cup Wellformed
  /\ rule \in {None, node}
  /\ phase = "list" /\ job = [j \in Jobs |-> Idle] /\ watching = None /\ heard = FALSE
  /\ wire = <<>> /\ gov = Idle /\ moves = 0 /\ gap = {}

(* The registry is of the other kind. *)
Off ==
  /\ node = None
  /\ rule = None
  /\ phase = "off" /\ job = [j \in Jobs |-> Idle] /\ watching = None /\ heard = FALSE
  /\ wire = <<>> /\ gov = Idle /\ moves = MaxMoves /\ gap = {}

Console ==
  CreateRule \/ DeleteRule \/ RemoveFromStore \/ GetConfig \/ GetByKey \/ UpdateStore

Poll(j) == ListPages(j) \/ ProcessConfig(j) \/ Sweep(j)

Next ==
  \/ ClientWrites \/ OnChange \/ StartOperation \/ Console
  \/ List \/ (\E j \in Jobs : Poll(j)) \/ NewTerm \/ HandleDeltas

(* The scheduler keeps starting jobs; writes and mishaps need not come. *)
Fairness ==
  /\ WF_vars(OnChange) /\ WF_vars(Console) /\ WF_vars(List) /\ WF_vars(HandleDeltas)
  /\ WF_vars(\E j \in Jobs : Poll(j))

Spec == Init /\ [][Next]_vars /\ Fairness

-----------------------------------------------------------------------------
(* Once the writes end, the jobs make the store hold the rule of the registry *)
(* for good: a stale write of the governor, a late callback or a failed write *)
(* is made up for by the next job.  Only a rule deleted while no job tracks   *)
(* it, or whose deletion was lost, may stay behind.                           *)
EventuallyFollows == <>[](gap # {} \/ Follows(rule, node))
=============================================================================
