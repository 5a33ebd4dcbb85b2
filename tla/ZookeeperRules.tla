--------------------------- MODULE ZookeeperRules ---------------------------
(***************************************************************************)
(* One traffic rule kept in a ZooKeeper registry and its copy in the       *)
(* store.  The console writes the registry first and the store second      *)
(* (the governor); other clients write the registry only.  Discovery lists *)
(* the registry once a term and then follows it with the goroutines of the *)
(* recursive watcher: one for the children of the base path, and one for   *)
(* the data of each node found.  Their events reach the informer, which    *)
(* keeps the raw node in a store of its own, and then the subscriber that  *)
(* turns the raw node into the rule.                                       *)
(*                                                                         *)
(* A call to ZooKeeper, to a store or to a channel is one step.  The       *)
(* channels between the watcher and the informer hold 1000 events and are  *)
(* one unbounded queue here; the buffer of the subscriber is bounded.      *)
(***************************************************************************)
EXTENDS Integers, Sequences, FiniteSets

CONSTANTS
  Contents,     \* what a node may hold
  Wellformed,   \* the contents that are a rule; the console writes no others
  Blank,        \* the rule made from contents that do not parse
  None,
  Watchers,     \* bound: data goroutines, at least one per creation and one
  BufferSize,   \* capacity of the subscriber's buffer
  MaxMoves      \* bound: writes to the registry and mishaps, which are session
                \* events, failed calls, new leaders and lists of another registry

VARIABLES
  node,     \* the contents of the rule's node in ZooKeeper
  raw,      \* the ZKConfig resource
  rule,     \* the rule resource
  phase,    \* what the reflector does next: list, watch, or read the channel
  kids,     \* the goroutine on the children of the base path
  data,     \* the goroutines on the data of the rule's node
  wire,     \* events on their way to the informer
  inbox,    \* events in the buffer of the subscriber
  sub,      \* the event in the subscriber's hands
  sweep,    \* the tombstone the informer of another registry made for raw
  gov,      \* the console operation under way
  moves,    \* writes and mishaps so far
  gap       \* history: what the code let pass since it last read the node

watcher == <<phase, kids, data>>
vars == <<node, raw, rule, phase, kids, data, wire, inbox, sub, sweep, gov,
          moves, gap>>

Idle == [at |-> "idle"]

Off == [at |-> "off"]

Put(c) == [type |-> "put", data |-> c]

Del == [type |-> "del"]

Events == {Put(c) : c \in Contents} \cup {Del}

Gaps == {"unseen", "undeleted", "overtaken", "swept", "dropped", "failed", "orphan", "reordered"}

Rules == Wellformed \cup {Blank}

(* Unmarshalling reports an error to the log only: the rule keeps its zero spec. *)
ToRuleResource(c) == IF c \in Wellformed \cup {None} THEN c ELSE Blank

TypeOK ==
  /\ node \in Contents \cup {None}
  /\ raw \in Contents \cup {None}
  /\ rule \in Rules \cup {None}
  /\ phase \in {"off", "list", "watch", "on"}
  /\ kids \in {Off} \cup [at : {"arm"}] \cup
       [at : {"armed"}, known : BOOLEAN, evt : {None, "changed", "session"}]
  /\ data \in [1 .. Watchers -> {Off} \cup [at : {"get"}] \cup
       [at : {"send", "armed"}, read : Contents, evt : {None, "changed", "deleted", "session"}]]
  /\ wire \in Seq(Events)
  /\ inbox \in Seq(Events) /\ Len(inbox) <= BufferSize
  /\ sub \in {Idle} \cup [at : {"write"}, event : Events, found : BOOLEAN]
  /\ sweep \in BOOLEAN
  /\ gov \in {Idle} \cup [at : {"registry", "store"}, op : {"create", "update"}, data : Wellformed]
       \cup [at : {"registry", "store"}, op : {"delete"}]
  /\ moves \in 0 .. MaxMoves
  /\ gap \in SUBSET Gaps

Move == moves < MaxMoves /\ moves' = moves + 1

-----------------------------------------------------------------------------
(* ZooKeeper: every write fires the one-shot watches set on what it changes.  *)

Fire(w, event) == IF w.at \in {"send", "armed"} /\ w.evt = None THEN [w EXCEPT !.evt = event] ELSE w

Reported == \E i \in 1 .. Watchers : data[i].at \in {"send", "armed"} /\ data[i].evt = None

ZkCreate(c) ==
  /\ node = None
  /\ node' = c
  /\ kids' = Fire(kids, "changed")
  /\ UNCHANGED <<data, gap>>

ZkSet(c) ==
  /\ node # None
  /\ node' = c
  /\ data' = [i \in 1 .. Watchers |-> Fire(data[i], "changed")]
  /\ UNCHANGED <<kids, gap>>

ZkDelete ==
  /\ node # None
  /\ node' = None
  /\ kids' = Fire(kids, "changed")
  /\ data' = [i \in 1 .. Watchers |-> Fire(data[i], "deleted")]
  /\ gap' = IF phase = "list" \/ Reported THEN gap ELSE gap \cup {"undeleted"}

(* Another client of the registry. *)
ClientWrites ==
  /\ Move
  /\ (\E c \in Contents : ZkCreate(c) \/ ZkSet(c)) \/ ZkDelete
  /\ UNCHANGED <<raw, rule, phase, wire, inbox, sub, sweep, gov>>

(* The session is lost or restored: every watch fires with an event of its own. *)
SessionEvent ==
  /\ Move
  /\ kids' = Fire(kids, "session")
  /\ data' = [i \in 1 .. Watchers |-> Fire(data[i], "session")]
  /\ UNCHANGED <<node, raw, rule, phase, wire, inbox, sub, sweep, gov, gap>>

-----------------------------------------------------------------------------
(* The console and its governor, one operation on the rule at a time: the    *)
(* lock on the rule is held throughout.                                      *)

(* An update or deletion starts from a rule the store has. *)
StartOperation ==
  /\ gov = Idle /\ Move
  /\ \E op \in {"create", "update", "delete"}, c \in Wellformed :
       /\ op # "create" => rule # None
       /\ gov' = IF op = "delete" THEN [at |-> "registry", op |-> op]
                                  ELSE [at |-> "registry", op |-> op, data |-> c]
  /\ UNCHANGED <<node, raw, rule, watcher, wire, inbox, sub, sweep, gap>>

(* A registry write that cannot be done is an error of the operation. *)
WriteRegistry ==
  /\ gov.at = "registry"
  /\ \/ /\ \/ gov.op = "create" /\ ZkCreate(gov.data)
           \/ gov.op = "update" /\ ZkSet(gov.data)
           \/ gov.op = "delete" /\ ZkDelete
        /\ gov' = [gov EXCEPT !.at = "store"]
     \/ /\ gov.op = "create" <=> node # None
        /\ gov' = Idle
        /\ UNCHANGED <<node, kids, data, gap>>
  /\ UNCHANGED <<raw, rule, phase, wire, inbox, sub, sweep, moves>>

Intended == IF gov.op = "delete" THEN None ELSE gov.data

(* Add wants the rule missing, Update and Delete want it present; an error of *)
(* the store is logged and forgotten.                                         *)
WriteStore ==
  /\ gov.at = "store"
  /\ gov' = Idle
  /\ \/ /\ (gov.op = "create") <=> (rule = None)
        /\ rule' = Intended
        /\ gap' = IF Intended = ToRuleResource(node) THEN gap ELSE gap \cup {"overtaken"}
        /\ UNCHANGED moves
     \/ /\ (gov.op = "create") <=> (rule # None)
        /\ UNCHANGED <<rule, gap, moves>>
     \/ /\ Move
        /\ UNCHANGED <<rule, gap>>
  /\ UNCHANGED <<node, raw, watcher, wire, inbox, sub, sweep>>

-----------------------------------------------------------------------------
(* The reflector and the recursive watcher. *)

(* The list replaces what the informer knows: a known node that is not listed *)
(* becomes a tombstone.                                                       *)
List ==
  /\ phase = "list"
  /\ phase' = "watch"
  /\ wire' = IF node # None THEN Append(wire, Put(node))
             ELSE IF raw # None THEN Append(wire, Del) ELSE wire
  /\ gap' = IF node = None /\ raw = None /\ rule # None THEN {"orphan"} ELSE {}
  /\ UNCHANGED <<node, raw, rule, kids, data, inbox, sub, sweep, gov, moves>>

Spawn(d) ==
  LET free == CHOOSE i \in 1 .. Watchers :
                d[i] = Off /\ \A j \in 1 .. i - 1 : d[j] # Off
  IN [d EXCEPT ![free] = [at |-> "get"]]

(* The children of the base path are read once to start their goroutines, and  *)
(* read again by the goroutine that watches them.                              *)
StartAsync ==
  /\ phase = "watch"
  /\ phase' = "on"
  /\ kids' = [at |-> "arm"]
  /\ data' = IF node # None THEN Spawn(data) ELSE data
  /\ UNCHANGED <<node, raw, rule, wire, inbox, sub, sweep, gov, moves, gap>>

Covered ==
  \E i \in 1 .. Watchers :
    data[i].at = "get" \/ (data[i].at \in {"send", "armed"} /\ data[i].evt # "deleted")

WatchChildren ==
  /\ kids.at = "arm"
  /\ kids' = [at |-> "armed", known |-> node # None, evt |-> None]
  /\ gap' = IF node # None /\ ~Covered THEN gap \cup {"unseen"} ELSE gap
  /\ UNCHANGED <<node, raw, rule, phase, data, wire, inbox, sub, sweep, gov, moves>>

(* After the event the children are read and compared with those the watch    *)
(* was set on.  A failed read starts over without comparing.                  *)
ChildrenChanged ==
  /\ kids.at = "armed" /\ kids.evt # None
  /\ kids' = [at |-> "arm"]
  /\ \/ /\ kids.evt = "changed"
        /\ data' = IF node # None /\ ~kids.known THEN Spawn(data) ELSE data
        /\ UNCHANGED moves
     \/ /\ kids.evt = "session"
        /\ UNCHANGED <<data, moves>>
     \/ /\ kids.evt = "changed" /\ Move
        /\ UNCHANGED data
  /\ UNCHANGED <<node, raw, rule, phase, wire, inbox, sub, sweep, gov, gap>>

(* The node is read with a watch; while it is missing the goroutine retries. *)
GetW(i) ==
  /\ data[i].at = "get" /\ node # None
  /\ data' = [data EXCEPT ![i] = [at |-> "send", read |-> node, evt |-> None]]
  /\ gap' = {}
  /\ UNCHANGED <<node, raw, rule, phase, kids, wire, inbox, sub, sweep, gov, moves>>

SendCreated(i) ==
  /\ data[i].at = "send"
  /\ wire' = Append(wire, Put(data[i].read))
  /\ data' = [data EXCEPT ![i].at = "armed"]
  /\ gap' = IF node = None /\ data[i].evt # "deleted" THEN gap \cup {"reordered"} ELSE gap
  /\ UNCHANGED <<node, raw, rule, phase, kids, inbox, sub, sweep, gov, moves>>

(* Another goroutine has already sent what it read of a newer node. *)
Reread(i) == \E j \in 1 .. Watchers \ {i} : data[j].at = "armed" /\ data[j].evt = None

(* A deletion is reported and ends the goroutine; any other event starts over. *)
DataEvent(i) ==
  /\ data[i].at = "armed" /\ data[i].evt # None
  /\ IF data[i].evt = "deleted"
     THEN /\ wire' = Append(wire, Del)
          /\ data' = [data EXCEPT ![i] = Off]
          /\ gap' = IF Reread(i) THEN gap \cup {"reordered"} ELSE gap
     ELSE /\ data' = [data EXCEPT ![i] = [at |-> "get"]]
          /\ UNCHANGED <<wire, gap>>
  /\ UNCHANGED <<node, raw, rule, phase, kids, inbox, sub, sweep, gov, moves>>

(* The leader is gone with all its goroutines and queues; another one lists. *)
NewTerm ==
  /\ Move
  /\ phase' = "list"
  /\ kids' = Off
  /\ data' = [i \in 1 .. Watchers |-> Off]
  /\ wire' = <<>> /\ inbox' = <<>> /\ sub' = Idle /\ sweep' = FALSE
  /\ UNCHANGED <<node, raw, rule, gov, gap>>

-----------------------------------------------------------------------------
(* The informer, the event bus and the subscriber. *)

(* Send drops the event when the buffer is full. *)
Send(e, g) ==
  IF Len(inbox) < BufferSize
  THEN inbox' = Append(inbox, e) /\ gap' = g
  ELSE UNCHANGED inbox /\ gap' = g \cup {"dropped"}

(* A deletion of what the informer does not know goes no further. *)
HandleDeltas ==
  /\ wire # <<>>
  /\ wire' = Tail(wire)
  /\ CASE Head(wire).type = "put" -> raw' = Head(wire).data /\ Send(Head(wire), gap)
       [] Head(wire).type = "del" /\ raw # None -> raw' = None /\ Send(Head(wire), gap)
       [] OTHER -> UNCHANGED <<raw, inbox, gap>>
  /\ UNCHANGED <<node, rule, watcher, sub, sweep, gov, moves>>

(* The informer of a second registry shares the store of raw nodes: what it   *)
(* does not find in its own list it takes for deleted.                        *)
OtherList ==
  /\ ~sweep /\ raw # None
  /\ Move
  /\ sweep' = TRUE
  /\ UNCHANGED <<node, raw, rule, watcher, wire, inbox, sub, gov, gap>>

OtherHandleDeltas ==
  /\ sweep
  /\ sweep' = FALSE
  /\ IF raw # None
     THEN raw' = None /\ Send(Del, IF node # None THEN gap \cup {"swept"} ELSE gap)
     ELSE UNCHANGED <<raw, inbox, gap>>
  /\ UNCHANGED <<node, rule, watcher, wire, sub, gov, moves>>

(* The subscriber looks for the rule first ... *)
ProcessEvent ==
  /\ sub = Idle /\ inbox # <<>>
  /\ inbox' = Tail(inbox)
  /\ sub' = IF Head(inbox) = Del /\ rule = None THEN Idle
            ELSE [at |-> "write", event |-> Head(inbox), found |-> rule # None]
  /\ UNCHANGED <<node, raw, rule, watcher, wire, sweep, gov, moves, gap>>

Failed(g) == g \cup {"failed"}

(* ... and then adds, updates or deletes it: an Add of a rule that has come   *)
(* into being, or an Update or Delete of one that is gone, is an error, as is *)
(* a failure of the store, and the event is not tried again.                  *)
ProcessConfig ==
  /\ sub.at = "write"
  /\ sub' = Idle
  /\ \/ /\ sub.event.type = "put" /\ sub.found = (rule # None)
        /\ rule' = ToRuleResource(sub.event.data)
        /\ UNCHANGED <<moves, gap>>
     \/ /\ sub.event.type = "del" /\ rule # None
        /\ rule' = None
        /\ UNCHANGED <<moves, gap>>
     \/ /\ sub.found # (rule # None)
        /\ UNCHANGED <<rule, moves, gap>>
     \/ /\ Move /\ gap' = Failed(gap)
        /\ UNCHANGED rule
  /\ UNCHANGED <<node, raw, watcher, wire, inbox, sweep, gov>>

-----------------------------------------------------------------------------
(* A console starts with a store that follows from an empty node, or with *)
(* what an earlier term left there.                                           *)
Init ==
  /\ node \in {None} \cup Wellformed
  /\ raw \in {None, node} /\ rule = raw
  /\ phase = "list" /\ kids = Off /\ data = [i \in 1 .. Watchers |-> Off]
  /\ wire = <<>> /\ inbox = <<>> /\ sub = Idle /\ sweep = FALSE /\ gov = Idle
  /\ moves = 0 /\ gap = {}

(* The registry is of the other kind. *)
Unused ==
  /\ node = None
  /\ raw = None /\ rule = None
  /\ phase = "off" /\ kids = Off /\ data = [i \in 1 .. Watchers |-> Off]
  /\ wire = <<>> /\ inbox = <<>> /\ sub = Idle /\ sweep = FALSE /\ gov = Idle
  /\ moves = MaxMoves /\ gap = {}

Console == StartOperation \/ WriteRegistry \/ WriteStore

Discovery ==
  \/ List \/ StartAsync \/ WatchChildren \/ ChildrenChanged
  \/ \E i \in 1 .. Watchers : GetW(i) \/ SendCreated(i) \/ DataEvent(i)
  \/ HandleDeltas \/ OtherHandleDeltas \/ ProcessEvent \/ ProcessConfig

Next == ClientWrites \/ SessionEvent \/ Console \/ Discovery \/ NewTerm \/ OtherList

(* Goroutines run; writes, mishaps, new terms and lists need not come. *)
Fairness ==
  /\ WF_vars(WriteRegistry \/ WriteStore)
  /\ WF_vars(List \/ StartAsync) /\ WF_vars(WatchChildren \/ ChildrenChanged)
  /\ \A i \in 1 .. Watchers : WF_vars(GetW(i) \/ SendCreated(i) \/ DataEvent(i))
  /\ WF_vars(HandleDeltas) /\ WF_vars(OtherHandleDeltas)
  /\ WF_vars(ProcessEvent \/ ProcessConfig)

Spec == Init /\ [][Next]_vars /\ Fairness

-----------------------------------------------------------------------------
Quiescent ==
  /\ phase = "on" /\ wire = <<>> /\ inbox = <<>> /\ sub = Idle /\ ~sweep /\ gov = Idle
  /\ kids.at = "armed" /\ kids.evt = None
  /\ \A i \in 1 .. Watchers :
       data[i].at = "get" => node = None

Settled == \A i \in 1 .. Watchers : data[i].at # "send" /\ (data[i].at = "armed" => data[i].evt = None)

(* When every goroutine waits, the store has the rule of the node, and the *)
(* raw node is the node, unless the watcher, the governor, the bus or another  *)
(* registry let a change pass since the node was last read.  A store write of  *)
(* the governor that failed is not an excuse: discovery makes up for it.       *)
StoreFollowsRegistry ==
  Quiescent /\ Settled /\ gap = {} => rule = ToRuleResource(node) /\ raw = node

(* The store comes to hold the rule of the registry for good once the writes   *)
(* end, or one of the named gaps is open.                                      *)
EventuallyFollows == <>[](gap # {} \/ rule = ToRuleResource(node))
=============================================================================
