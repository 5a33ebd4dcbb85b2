------------------------------ MODULE Counters ------------------------------
(***************************************************************************)
(* The counters behind the console's overview, on one replica.  While the  *)
(* replica leads, the counters start from what the instance store holds    *)
(* and then follow the events of the bus; the replica resets them when it  *)
(* stops leading.  A writer changes the store first and sends the event    *)
(* second, and the counters handle it in the writer's goroutine, so events *)
(* and the start of a term interleave freely.                              *)
(***************************************************************************)
EXTENDS Integers, FiniteSets, FiniteSetsExt, Functions

CONSTANTS
  Instances,   \* keys of instances
  Meshes,
  Mesh,        \* the mesh of an instance
  Protocols,   \* what a registered instance may have as protocol, besides blank
  Blank, None,
  Writers,     \* the subscribers that write instances
  MaxWrites,   \* bound: writes to the store
  MaxTerms     \* bound: terms of leadership

VARIABLES
  stored,    \* the instances in the store
  writer,    \* the event each subscriber has still to send or to handle
  term,      \* where the replica is in its term
  listed,    \* what the start of the term has read from the store
  isLeader,
  bound,     \* the counters are subscribed to the bus
  total,     \* the simple counter, by mesh
  spread,    \* the protocol counter, by mesh and protocol
  writes, terms,
  missed,    \* history: why the counters may have missed a write
  altered    \* history: protocols of instances that changed in the term

vars == <<stored, writer, term, listed, isLeader, bound, total, spread, writes, terms,
          missed, altered>>

(* A registered instance has a protocol, which may be blank, and a deployed one *)
(* has a pod; an instance of the store is registered, deployed or both.         *)
Instance == [rpc : Protocols \cup {Blank, None}, pod : BOOLEAN]

Protocol(i) == IF i.rpc = None THEN Blank ELSE i.rpc

Event == [key : Instances, type : {"added", "updated", "deleted"},
          old : Protocols \cup {Blank}, new : Protocols \cup {Blank}]

Idle == [at |-> "idle"]

NormalizeKey(key) == IF key = Blank THEN "unknown" ELSE key

Keys == Protocols \cup {"unknown"}

Zero == [m \in Meshes |-> 0]

ZeroSpread == [m \in Meshes |-> [k \in Keys |-> 0]]

TypeOK ==
  /\ stored \in [Instances -> Instance \cup {None}]
  /\ writer \in [Writers -> {Idle} \cup [at : {"send", "handle"}, event : Event]]
  /\ term \in {"follower", "reset", "list", "count", "bind", "leading"}
  /\ listed \in [Instances -> Instance \cup {None}]
  /\ isLeader \in BOOLEAN /\ bound \in BOOLEAN
  /\ missed \subseteq {"starting", "elsewhere", "overtaken", "late"}
  /\ altered \subseteq Protocols
  /\ total \in [Meshes -> Nat]
  /\ spread \in [Meshes -> [Keys -> Nat]]
  /\ writes \in 0 .. MaxWrites /\ terms \in 0 .. MaxTerms

-----------------------------------------------------------------------------
(* Counter and DistributionCounter: a count of zero is no entry, and an entry *)
(* that is missing is not decremented.                                        *)

Increment(c, m) == [c EXCEPT ![m] = @ + 1]

Decrement(c, m) == [c EXCEPT ![m] = Max({@ - 1, 0})]

SpreadIncrement(s, m, k) == [s EXCEPT ![m][k] = @ + 1]

SpreadDecrement(s, m, k) == [s EXCEPT ![m][k] = Max({@ - 1, 0})]

Get == FoldFunction(LAMBDA n, acc : n + acc, 0, total)

GetAll == [k \in Keys |-> MapThenSumSet(LAMBDA m : spread[m][k], Meshes)]

-----------------------------------------------------------------------------
(* Handling an event *)

ProcessSimpleCounter(c, e) ==
  CASE e.type = "added" -> Increment(c, Mesh[e.key])
    [] e.type = "deleted" -> Decrement(c, Mesh[e.key])
    [] OTHER -> c

(* The instance moves from one entry to another, unless both are the same. *)
Update(s, m, from, to) ==
  IF from = to THEN s ELSE SpreadIncrement(SpreadDecrement(s, m, from), m, to)

ProcessDistributionCounter(s, e) ==
  LET m == Mesh[e.key]
      from == NormalizeKey(e.old)
      to == NormalizeKey(e.new)
  IN CASE e.type = "added" -> SpreadIncrement(s, m, to)
       [] e.type = "deleted" -> SpreadDecrement(s, m, from)
       [] OTHER -> Update(s, m, from, to)

(* How the subscribers of RPC and runtime instances change an instance, and the *)
(* event they send of it.  The instance is changed in place before the event is *)
(* made, so an update carries the changed instance twice, and a deletion what   *)
(* is left of the instance; a merge into an instance that exists has no event.  *)
Merged(k, i) ==
  [now |-> i,
   event |-> IF stored[k] # None THEN None
             ELSE [key |-> k, type |-> "added", old |-> Blank, new |-> Protocol(i)]]

Cleared(k, i, keep) ==
  [now |-> IF keep THEN i ELSE None,
   event |-> [key |-> k, type |-> IF keep THEN "updated" ELSE "deleted",
              old |-> Protocol(i), new |-> Protocol(i)]]

Changes(k) ==
  LET i == stored[k]
  IN IF i = None
     THEN {Merged(k, [rpc |-> p, pod |-> pod]) : p \in Protocols \cup {Blank}, pod \in BOOLEAN}
            \cup {Merged(k, [rpc |-> None, pod |-> TRUE])}
     ELSE {Merged(k, [i EXCEPT !.rpc = p]) : p \in Protocols \cup {Blank}}
            \cup {Merged(k, [i EXCEPT !.pod = TRUE])}
            \cup {Cleared(k, [i EXCEPT !.rpc = None], i.pod) : x \in {i.rpc} \ {None}}
            \cup {Cleared(k, [i EXCEPT !.pod = FALSE], i.rpc # None) : x \in {i.pod} \ {FALSE}}

ProtocolOf(i) == IF i = None THEN {} ELSE {i.rpc} \cap Protocols

Starting == term \in {"reset", "list", "count", "bind"}

(* A subscriber changes an instance of the store ... *)
Write(w) ==
  /\ writer[w] = Idle /\ writes < MaxWrites
  /\ \E k \in Instances : \E c \in Changes(k) :
       /\ c.now # stored[k]
       /\ stored' = [stored EXCEPT ![k] = c.now]
       /\ writer' = [writer EXCEPT ![w] =
                       IF c.event = None THEN Idle ELSE [at |-> "send", event |-> c.event]]
       /\ altered' = altered \cup
            IF stored[k] = None \/ ProtocolOf(stored[k]) = ProtocolOf(c.now) THEN {}
            ELSE ProtocolOf(stored[k]) \cup ProtocolOf(c.now)
       /\ missed' = missed \cup {"starting" : x \in {Starting} \ {FALSE}}
            \cup {"overtaken" : v \in {v \in Writers : writer[v] # Idle /\ writer[v].event.key = k}}
  /\ writes' = writes + 1
  /\ UNCHANGED <<term, listed, isLeader, bound, total, spread, terms>>

(* ... which may run in another replica, since each component has its own lease *)
(* and the bus is the process's ...                                             *)
WriteElsewhere ==
  /\ writes < MaxWrites
  /\ \E k \in Instances : \E c \in Changes(k) :
       /\ c.now # stored[k]
       /\ stored' = [stored EXCEPT ![k] = c.now]
  /\ writes' = writes + 1
  /\ missed' = IF term = "follower" THEN missed ELSE missed \cup {"elsewhere"}
  /\ UNCHANGED <<writer, term, listed, isLeader, bound, total, spread, terms, altered>>

(* ... and then sends the event: the bus calls the counters if they subscribed, *)
(* and they look whether the replica leads ...                              *)
SendEvent(w) ==
  /\ writer[w].at = "send"
  /\ writer' = [writer EXCEPT ![w] = IF bound /\ isLeader THEN [@ EXCEPT !.at = "handle"] ELSE Idle]
  /\ UNCHANGED <<stored, term, listed, isLeader, bound, total, spread, writes, terms, missed, altered>>

(* ... before they count. *)
HandleEvent(w) ==
  /\ writer[w].at = "handle"
  /\ total' = ProcessSimpleCounter(total, writer[w].event)
  /\ spread' = ProcessDistributionCounter(spread, writer[w].event)
  /\ writer' = [writer EXCEPT ![w] = Idle]
  /\ UNCHANGED <<stored, term, listed, isLeader, bound, writes, terms, missed, altered>>

-----------------------------------------------------------------------------
(* The term of the replica *)

OnStartLeading ==
  /\ term = "follower" /\ terms < MaxTerms
  /\ terms' = terms + 1
  /\ isLeader' = TRUE
  /\ term' = "reset"
  /\ missed' = {"starting" : w \in {w \in Writers : writer[w] # Idle}}
  /\ altered' = {}
  /\ UNCHANGED <<stored, writer, listed, bound, total, spread, writes>>

Reset == total' = Zero /\ spread' = ZeroSpread

(* Seeded bug: the term starts from what the last one left. *)
StartBusinessLogic_NoReset ==
  /\ term = "reset"
  /\ term' = "list"
  /\ UNCHANGED <<stored, writer, listed, isLeader, bound, total, spread, writes, terms, missed, altered>>

StartBusinessLogic ==
  /\ term = "reset"
  /\ Reset
  /\ term' = "list"
  /\ UNCHANGED <<stored, writer, listed, isLeader, bound, writes, terms, missed, altered>>

List ==
  /\ term = "list"
  /\ listed' = stored
  /\ term' = "count"
  /\ UNCHANGED <<stored, writer, isLeader, bound, total, spread, writes, terms, missed, altered>>

(* Each listed instance is counted; a blank protocol is left out. *)
InitializeResourceCount ==
  /\ term = "count"
  /\ total' = [m \in Meshes |-> total[m] +
                 Cardinality({i \in Instances : listed[i] # None /\ Mesh[i] = m})]
  /\ spread' = [m \in Meshes |-> [k \in Keys |-> spread[m][k] +
                 Cardinality({i \in Instances : k \in ProtocolOf(listed[i]) /\ Mesh[i] = m})]]
  /\ term' = "bind"
  /\ UNCHANGED <<stored, writer, listed, isLeader, bound, writes, terms, missed, altered>>

(* The counters subscribe once in the life of the process. *)
Bind ==
  /\ term = "bind"
  /\ bound' = TRUE
  /\ term' = "leading"
  /\ listed' = [i \in Instances |-> None]
  /\ UNCHANGED <<stored, writer, isLeader, total, spread, writes, terms, missed, altered>>

OnStopLeading ==
  /\ term = "leading"
  /\ term' = "follower"
  /\ isLeader' = FALSE
  /\ Reset
  /\ missed' = {"late" : w \in {w \in Writers : writer[w].at = "handle"}}
  /\ UNCHANGED <<stored, writer, listed, bound, writes, terms, altered>>

Init ==
  /\ stored \in [Instances -> {None, [rpc |-> Blank, pod |-> FALSE]}
                  \cup {[rpc |-> p, pod |-> TRUE] : p \in Protocols}]
  /\ writer = [w \in Writers |-> Idle]
  /\ term = "follower" /\ listed = [i \in Instances |-> None]
  /\ isLeader = FALSE /\ bound = FALSE
  /\ total = Zero /\ spread = ZeroSpread
  /\ writes = 0 /\ terms = 0 /\ missed = {} /\ altered = {}

Next ==
  \/ \E w \in Writers : Write(w) \/ SendEvent(w) \/ HandleEvent(w)
  \/ WriteElsewhere
  \/ OnStartLeading \/ StartBusinessLogic \/ List \/ InitializeResourceCount \/ Bind
  \/ OnStopLeading

Spec == Init /\ [][Next]_vars

-----------------------------------------------------------------------------
Quiet == \A w \in Writers : writer[w] = Idle

Stored(m) == {k \in Instances : stored[k] # None /\ Mesh[k] = m}

(* While the replica leads and no event is on its way, the overview shows as    *)
(* many instances in each mesh as the store has.  Three things may spoil it     *)
(* until the next term: a write that meets the start of the term, a write of    *)
(* another replica, and two events of one instance in the wrong order.          *)
CountsMatchStore ==
  term = "leading" /\ Quiet /\ missed = {} =>
    \A m \in Meshes : total[m] = Cardinality(Stored(m))

(* The overview's protocol counter is right about a protocol as long as no      *)
(* instance that has or had it is changed or removed in the term: the counter   *)
(* never hears what the protocol of a changed instance was.                     *)
ProtocolsMatchStore ==
  term = "leading" /\ Quiet /\ missed = {} =>
    \A p \in Protocols \ altered :
      GetAll[p] = Cardinality({k \in Instances : p \in ProtocolOf(stored[k])})

(* A replica that does not lead shows nothing, unless an event was just being   *)
(* counted when the term ended.                                                 *)
FollowerShowsNothing ==
  term = "follower" /\ missed = {} => Get = 0 /\ spread = ZeroSpread
=============================================================================
