--------------------------- MODULE NacosServices ---------------------------
(***************************************************************************)
(* The services of a Nacos registry and their copies in the store.  They are  *)
(* listed once and then found by walking the pages of their names every few    *)
(* seconds: new ones are subscribed to, those not seen in a whole turn are      *)
(* deleted and unsubscribed from.  Subscriptions push the instances through an   *)
(* unbuffered channel that the turn sends deletions through too.                  *)
(***************************************************************************)
EXTENDS Integers, SequencesExt, FiniteSetsExt

CONSTANTS
  Services,     \* names, 1..N in the order the registry lists them
  Contents,     \* lists of instances
  NoInstances,  \* the empty one among them
  PageSize,
  MaxChanges,   \* bound: changes of the registry
  MaxFailures,  \* bound: failing calls
  Absent

VARIABLES
  registry,     \* per service its instances, or Absent
  store,        \* the same in the store
  watching,     \* watchingServices: "seen" and "unseen" in the present turn, Absent if not there
  subscribed,   \* services with a subscription
  pushes,       \* per service: pushes that wait for the channel
  turn,         \* the walk under way
  changes, failures,
  calm,         \* history: whole turns since the names changed or a call failed
  gone,         \* history: services that have been absent during the turn
  moved,        \* history: the names changed during the walk
  excused       \* history: services whose copy nothing need correct

vars == <<registry, store, watching, subscribed, pushes, turn, changes, failures, calm, gone, moved, excused>>
past == <<calm, gone, moved, excused>>

Idle == [at |-> "idle", listing |-> FALSE]
Names == {s \in Services : registry[s] # Absent}
Watched == {s \in Services : watching[s] # Absent}

Init ==
  /\ registry \in [Services -> {NoInstances, Absent}]
  /\ store = [s \in Services |-> Absent] /\ watching = store /\ subscribed = {}
  /\ pushes = [s \in Services |-> <<>>]
  /\ turn = [at |-> "page", listing |-> TRUE, page |-> 1, names |-> {}]
  /\ changes = 0 /\ failures = 0 /\ calm = 0 /\ gone = Services \ Names /\ moved = FALSE /\ excused = {}

Fails == failures < MaxFailures /\ failures' = failures + 1 /\ calm' = 0

-----------------------------------------------------------------------------
(* The registry *)

Changed(s, new) ==
  /\ changes < MaxChanges /\ changes' = changes + 1
  /\ registry' = [registry EXCEPT ![s] = new]
  /\ pushes' = IF s \in subscribed /\ new # Absent THEN [pushes EXCEPT ![s] = Append(@, new)] ELSE pushes
  /\ IF (registry[s] = Absent) # (new = Absent)
       THEN moved' = TRUE /\ calm' = 0 /\ gone' = IF new = Absent THEN gone \cup {s} ELSE gone
       ELSE UNCHANGED <<moved, calm, gone>>
  (* A service that is in the store without having been subscribed to. *)
  /\ excused' = IF new = Absent /\ s \notin Watched /\ store[s] # Absent THEN excused \cup {s} ELSE excused
  /\ UNCHANGED <<store, watching, subscribed, turn, failures>>

Register(s) == \E new \in Contents \ {registry[s]} : Changed(s, new)
Vanish(s) == registry[s] # Absent /\ Changed(s, Absent)

(* A callback gets the channel. *)
Push(s) ==
  /\ pushes[s] # <<>> /\ ~turn.listing
  /\ store' = [store EXCEPT ![s] = Head(pushes[s])]
  /\ pushes' = [pushes EXCEPT ![s] = Tail(@)]
  /\ excused' = IF s \in Watched THEN excused \ {s} ELSE excused \cup {s}
  /\ UNCHANGED <<registry, watching, subscribed, turn, changes, failures, calm, gone, moved>>

-----------------------------------------------------------------------------
(* Pages *)

Doms(page) ==
  LET all == SetToSortSeq(Names, <)
  IN SelectSeq(all, LAMBDA s : LET i == Cardinality({r \in Names : r <= s}) IN (page - 1) * PageSize < i /\ i <= page * PageSize)

(* Seeded bug: a page that is full ends the walk as well. *)
IsLast_Full(page) == Len(page) <= PageSize

IsLast(page) == Len(page) < PageSize

(* List: all names, then the instances of each. *)
FetchAllServiceNames ==
  /\ turn.at = "page" /\ turn.listing
  /\ LET page == Doms(turn.page)
         names == turn.names \cup ToSet(page)
     IN turn' = IF IsLast(page) THEN [at |-> "get", listing |-> TRUE, names |-> names, got |-> [s \in Services |-> Absent]]
                ELSE [turn EXCEPT !.page = @ + 1, !.names = names]
  /\ UNCHANGED <<registry, store, watching, subscribed, pushes, changes, failures, past>>

GetService(s) ==
  /\ turn.at = "get" /\ s \in turn.names
  /\ \/ /\ turn' = [turn EXCEPT !.names = @ \ {s}, !.got[s] = IF registry[s] = Absent THEN NoInstances ELSE registry[s]]
        /\ UNCHANGED <<failures, calm>>
     \/ Fails /\ turn' = [turn EXCEPT !.names = @ \ {s}]
  /\ UNCHANGED <<registry, store, watching, subscribed, pushes, changes, gone, moved, excused>>

(* The informer takes the list. *)
ListDone ==
  /\ turn.at = "get" /\ turn.names = {}
  /\ store' = turn.got /\ turn' = Idle
  /\ excused' = excused \cup {s \in Services : turn.got[s] # Absent /\ registry[s] = Absent}
  /\ UNCHANGED <<registry, watching, subscribed, pushes, changes, failures, calm, gone, moved>>

(* The scheduler's next turn. *)
StartTurn ==
  /\ turn = Idle /\ turn' = [at |-> "page", listing |-> FALSE, page |-> 1]
  /\ gone' = Services \ Names /\ moved' = FALSE
  /\ UNCHANGED <<registry, store, watching, subscribed, pushes, changes, failures, calm, excused>>

ListPage ==
  /\ turn.at = "page" /\ ~turn.listing
  /\ turn' = [at |-> "process", listing |-> FALSE, page |-> turn.page, todo |-> Doms(turn.page), last |-> IsLast(Doms(turn.page))]
  /\ UNCHANGED <<registry, store, watching, subscribed, pushes, changes, failures, past>>

(* A turn ends without a sweep; the reflector lists again. *)
ListPageFails ==
  /\ turn.at = "page" /\ Fails
  /\ turn' = IF turn.listing THEN [at |-> "page", listing |-> TRUE, page |-> 1, names |-> {}] ELSE Idle
  /\ UNCHANGED <<registry, store, watching, subscribed, pushes, changes, gone, moved, excused>>

(* Subscribe: what is registered is pushed first. *)
SubscribeService(s) ==
  /\ subscribed' = subscribed \cup {s}
  /\ pushes' = IF registry[s] = Absent THEN pushes ELSE [pushes EXCEPT ![s] = Append(@, registry[s])]

Processed == turn' = [turn EXCEPT !.todo = Tail(@)]

ProcessNacosService ==
  /\ turn.at = "process" /\ turn.todo # <<>> /\ Processed
  /\ LET s == Head(turn.todo)
     IN \/ s \in Watched /\ UNCHANGED <<subscribed, pushes, failures, calm>> /\ watching' = [watching EXCEPT ![s] = "seen"]
        \/ /\ s \notin Watched /\ SubscribeService(s) /\ UNCHANGED <<failures, calm>>
           /\ watching' = [watching EXCEPT ![s] = "seen"]
        \/ s \notin Watched /\ Fails /\ UNCHANGED <<watching, subscribed, pushes>>
  /\ UNCHANGED <<registry, store, changes, gone, moved, excused>>

FetchAndProcessService ==
  /\ turn.at = "process" /\ turn.todo = <<>>
  /\ turn' = IF turn.last THEN [at |-> "sweep", listing |-> FALSE, todo |-> Watched]
             ELSE [at |-> "page", listing |-> FALSE, page |-> turn.page + 1]
  /\ UNCHANGED <<registry, store, watching, subscribed, pushes, changes, failures, past>>

-----------------------------------------------------------------------------
(* Sweep *)

KeepService(s) ==
  /\ turn.at = "sweep" /\ s \in turn.todo /\ watching[s] = "seen"
  /\ watching' = [watching EXCEPT ![s] = "unseen"] /\ turn' = [turn EXCEPT !.todo = @ \ {s}]
  /\ UNCHANGED <<registry, store, subscribed, pushes, changes, failures, past>>

(* The deletion is sent first; pushes may wait for the channel beside it. *)
SendDeleted(s) ==
  /\ turn.at = "sweep" /\ s \in turn.todo /\ watching[s] = "unseen"
  /\ store' = [store EXCEPT ![s] = Absent]
  /\ turn' = [at |-> "unsubscribe", listing |-> FALSE, service |-> s, todo |-> turn.todo \ {s}]
  /\ UNCHANGED <<registry, watching, subscribed, pushes, changes, failures, past>>

(* A service whose subscription cannot be ended stays among those watched, without its copy. *)
UnsubscribeService(s) ==
  /\ turn.at = "unsubscribe" /\ s = turn.service
  /\ turn' = [at |-> "sweep", listing |-> FALSE, todo |-> turn.todo]
  /\ \/ /\ subscribed' = subscribed \ {s} /\ watching' = [watching EXCEPT ![s] = Absent]
        /\ excused' = IF store[s] # Absent \/ pushes[s] # <<>> THEN excused \cup {s} ELSE excused
        /\ UNCHANGED <<failures, calm>>
     \/ Fails /\ excused' = excused \cup {s} /\ UNCHANGED <<subscribed, watching>>
  /\ UNCHANGED <<registry, store, pushes, changes, gone, moved>>

EndTurn ==
  /\ turn.at = "sweep" /\ turn.todo = {} /\ turn' = Idle
  /\ calm' = IF calm < 3 THEN calm + 1 ELSE calm
  /\ UNCHANGED <<registry, store, watching, subscribed, pushes, changes, failures, gone, moved, excused>>

Next ==
  \/ FetchAllServiceNames \/ ListDone \/ StartTurn \/ ListPage \/ ListPageFails \/ ProcessNacosService
  \/ FetchAndProcessService \/ EndTurn
  \/ \E s \in Services : \/ Register(s) \/ Vanish(s) \/ Push(s) \/ GetService(s) \/ KeepService(s)
                         \/ SendDeleted(s) \/ UnsubscribeService(s)

Spec == Init /\ [][Next]_vars

-----------------------------------------------------------------------------
(* The walk keeps to the services and their states. *)
TypeOK ==
  /\ watching \in [Services -> {"seen", "unseen", Absent}] /\ subscribed \subseteq Services
  /\ registry \in [Services -> Contents \cup {Absent}] /\ store \in [Services -> Contents \cup {Absent}]

(* Once three turns have ended since names came or went or a call failed, and no push waits, every  *)
(* copy is what the registry has (nacos_service.go:128-173): the first was under way, and the second    *)
(* may only clear the mark of a turn that failed.  Excused are services that vanished without having     *)
(* been subscribed to, copies that a push has brought back while the deletion was sent, and those that     *)
(* were deleted but not unsubscribed from: they stay wrong until the service changes.                        *)
CopiesFollowRegistry ==
  calm = 3 /\ turn = Idle /\ (\A s \in Services : pushes[s] = <<>>) =>
    \A s \in Services \ excused : store[s] = registry[s]

(* A service is only deleted if it has been absent during the turn, or if names came or went while    *)
(* the pages were walked, which can move it from a page that is still to be read to one that has been    *)
(* (nacos_service.go:128-160).                                                                             *)
DeletedIfGone ==
  \A s \in Services : SendDeleted(s) => s \in gone \/ moved
=============================================================================
