------------------------------ MODULE Runtime -------------------------------
(***************************************************************************)
(* One life of the program: the components are initialised one after the     *)
(* other in dependency order, then started each in a goroutine of its own,   *)
(* and stopped by signals.  With a database store every resource kind has a  *)
(* store, all of them on one reference-counted connection pool.               *)
(***************************************************************************)
EXTENDS Integers, FiniteSetsExt, SequencesExt

CONSTANTS Kinds, None

VARIABLES
  database,    \* whether the store is a database
  phase,       \* of the main goroutine
  pending,     \* the components still to initialise, in order
  activated,   \* the components of the builder, then of the runtime
  started,     \* whether the goroutines of the components have been started
  broken,      \* a component whose Start returned an error, or None
  signals,     \* SIGINT and SIGTERM received
  drained,     \* the event bus has been waited for
  store,       \* per kind: "none", "open", "watched", "locked", "closed"
  refCount, pool,
  mu, poolsMutex   \* who holds the pool's mutex, and that of the map of pools

vars == <<database, phase, pending, activated, started, broken, signals, drained, store, refCount,
          pool, mu, poolsMutex>>

Alphabet == <<"console", "counter manager", "diagnostics server", "distributed lock",
              "event bus", "resource discovery", "resource engine", "resource manager",
              "resource store", "rule governor", "rule versioning">>

CoreComponents == {"console", "resource manager", "resource store", "resource engine",
                   "resource discovery", "rule governor"}

G == INSTANCE DependencyGraph

RequiredDependencies(c) ==
  CASE c = "resource store" -> <<"event bus">>
    [] c \in {"resource discovery", "resource engine", "rule governor"} ->
         <<"event bus", "resource store">>
    [] c = "resource manager" -> <<"resource store", "rule governor">>
    [] c = "console" -> <<"resource manager">>
    [] c = "counter manager" -> <<"resource store", "event bus">>
    [] c \in {"rule versioning", "distributed lock"} -> <<"resource store">>
    [] OTHER -> <<>>

(* What Init takes from the builder.  The counters ask for the store only to elect a *)
(* leader, and do without when it is not there.                                       *)
Lookups(c) ==
  CASE c \in {"resource discovery", "resource engine", "rule governor"} ->
         {"event bus", "resource store"}
    [] c = "resource manager" -> {"resource store", "rule governor"}
    [] c = "rule versioning" -> {"resource store"}
    [] c = "counter manager" -> IF database THEN {"resource store"} ELSE {}
    [] OTHER -> {}

(* The lock takes its connection from the map of pools, not from the store component. *)
NeedsPool(c) == c = "distributed lock" /\ database

Init ==
  /\ database \in BOOLEAN
  /\ phase = "gather" /\ pending = <<>> /\ activated = {} /\ started = FALSE /\ broken = None
  /\ signals = 0 /\ drained = FALSE
  /\ store = [k \in Kinds |-> "none"] /\ refCount = 0 /\ pool = "none"
  /\ mu = None /\ poolsMutex = None

poolVars == <<store, refCount, pool, mu, poolsMutex>>

-----------------------------------------------------------------------------
(* Bootstrap *)

BootstrapComponents ==
  /\ phase = "gather"
  /\ LET graph == [c \in ToSet(Alphabet) |-> RequiredDependencies(c)]
     IN pending' = G!TopologicalSort(graph, Alphabet).order
  /\ phase' = "init"
  /\ UNCHANGED <<database, activated, started, broken, signals, drained, poolVars>>

Initialising(c) == phase = "init" /\ pending # <<>> /\ Head(pending) = c

Activated(c) ==
  /\ c \notin activated
  /\ activated' = activated \cup {c} /\ pending' = Tail(pending)
  /\ UNCHANGED <<database, phase, started, broken, signals, drained>>

GetActivatedComponent(c) == c \in activated

InitComponent(c) ==
  /\ Initialising(c) /\ c # "resource store" /\ ~NeedsPool(c)
  /\ c = "counter manager" \/ \A d \in Lookups(c) : GetActivatedComponent(d)
  /\ Activated(c)
  /\ UNCHANGED poolVars

(* A new pool counts the store that asked for it. *)
NewConnectionPool == 1

(* The store of each kind creates the pool or shares it. *)
GetOrCreatePool(k) ==
  /\ Initialising("resource store") /\ database
  /\ store[k] = "none" /\ poolsMutex = None
  /\ store' = [store EXCEPT ![k] = "open"]
  /\ refCount' = IF pool = "none" THEN NewConnectionPool ELSE refCount + 1
  /\ pool' = "open"
  /\ UNCHANGED <<database, phase, pending, activated, started, broken, signals, drained, mu, poolsMutex>>

InitStore ==
  /\ Initialising("resource store")
  /\ database => \A k \in Kinds : store[k] = "open"
  /\ Activated("resource store")
  /\ UNCHANGED poolVars

(* The lock's Init: the map's mutex, then the pool's. *)
GetGlobalDB ==
  /\ Initialising("distributed lock") /\ database
  /\ poolsMutex = None
  /\ poolsMutex' = "distributed lock"
  /\ UNCHANGED <<database, phase, pending, activated, started, broken, signals, drained,
                 store, refCount, pool, mu>>

GetDB ==
  /\ Initialising("distributed lock") /\ database
  /\ poolsMutex = "distributed lock" /\ pool = "open" /\ mu = None
  /\ poolsMutex' = None
  /\ Activated("distributed lock")
  /\ UNCHANGED <<store, refCount, pool, mu>>

(* An Init fails: no such registry, no database, a missing dependency. *)
BootstrapFails ==
  /\ phase = "init" /\ pending # <<>>
  /\ phase' = "failed"
  /\ UNCHANGED <<database, pending, activated, started, broken, signals, drained, poolVars>>

-----------------------------------------------------------------------------
(* Start *)

(* Build, and the goroutine of every component. *)
Start ==
  /\ phase = "init" /\ pending = <<>> /\ CoreComponents \subseteq activated
  /\ started' = TRUE
  /\ phase' = "started"
  /\ UNCHANGED <<database, pending, activated, broken, signals, drained, poolVars>>

Alive == phase \in {"init", "started", "stopping"}

(* The store's Start leaves a goroutine per kind that waits for the stop. *)
StartStore(k) ==
  /\ Alive /\ started /\ store[k] = "open"
  /\ store' = [store EXCEPT ![k] = "watched"]
  /\ UNCHANGED <<database, phase, pending, activated, started, broken, signals, drained,
                 refCount, pool, mu, poolsMutex>>

(* Start returns an error: that of a core component takes the program down where it   *)
(* stands, that of another is logged.                                                   *)
StartFails(c) ==
  /\ Alive /\ started /\ broken = None
  /\ broken' = c
  /\ phase' = IF c \in CoreComponents THEN "panicked" ELSE phase
  /\ UNCHANGED <<database, pending, activated, started, signals, drained, poolVars>>

-----------------------------------------------------------------------------
(* Stop *)

(* The first signal cancels the application's context, the second cuts the wait short, *)
(* the third exits.                                                                      *)
Signal ==
  /\ Alive \/ phase = "gather"
  /\ signals < 3
  /\ signals' = signals + 1
  /\ phase' = IF signals = 2 THEN "killed" ELSE phase
  /\ UNCHANGED <<database, pending, activated, started, broken, drained, poolVars>>

(* The main goroutine waits for the graceful component: the event bus drains. *)
WaitForDone ==
  /\ phase = "started" /\ signals > 0
  /\ drained' = TRUE /\ phase' = "stopping"
  /\ UNCHANGED <<database, pending, activated, started, broken, signals, poolVars>>

(* Three seconds later, or at the second signal, whoever still runs is cut off. *)
Exit ==
  /\ phase = "stopping"
  /\ phase' = "exited"
  /\ UNCHANGED <<database, pending, activated, started, broken, signals, drained, poolVars>>

(* Close of a store's goroutine: the pool's mutex, the count, and for the last one the *)
(* connection and, under the map's mutex, the entry of the map.                          *)
CloseStore(k) ==
  /\ Alive /\ signals > 0 /\ store[k] = "watched" /\ mu = None
  /\ mu' = k
  /\ store' = [store EXCEPT ![k] = "locked"]
  /\ refCount' = IF pool = "open" THEN refCount - 1 ELSE refCount
  /\ UNCHANGED <<database, phase, pending, activated, started, broken, signals, drained, pool, poolsMutex>>

(* Seeded bug: the pool is closed while one store still holds it. *)
ClosePool_Early(k) ==
  /\ Alive /\ store[k] = "locked"
  /\ IF pool = "open" /\ refCount <= 1
       THEN poolsMutex = None /\ pool' = "closed"
       ELSE UNCHANGED pool
  /\ mu' = None
  /\ store' = [store EXCEPT ![k] = "closed"]
  /\ UNCHANGED <<database, phase, pending, activated, started, broken, signals, drained, refCount, poolsMutex>>

ClosePool(k) ==
  /\ Alive /\ store[k] = "locked"
  /\ IF pool = "open" /\ refCount <= 0
       THEN poolsMutex = None /\ pool' = "closed"
       ELSE UNCHANGED pool
  /\ mu' = None
  /\ store' = [store EXCEPT ![k] = "closed"]
  /\ UNCHANGED <<database, phase, pending, activated, started, broken, signals, drained, refCount, poolsMutex>>

Next ==
  \/ BootstrapComponents \/ InitStore \/ GetGlobalDB \/ GetDB \/ BootstrapFails
  \/ \E c \in ToSet(Alphabet) : InitComponent(c) \/ StartFails(c)
  \/ \E k \in Kinds : GetOrCreatePool(k) \/ StartStore(k) \/ CloseStore(k) \/ ClosePool(k)
  \/ Start \/ Signal \/ WaitForDone \/ Exit

Spec == Init /\ [][Next]_vars

-----------------------------------------------------------------------------
(* The phases, the components and the stores keep their shape. *)
TypeOK ==
  /\ started \in BOOLEAN /\ broken \in {None} \cup ToSet(Alphabet)
  /\ phase \in {"gather", "init", "started", "stopping", "exited", "failed", "panicked", "killed"}
  /\ activated \cup ToSet(pending) \subseteq ToSet(Alphabet)
  /\ store \in [Kinds -> {"none", "open", "watched", "locked", "closed"}]
  /\ refCount \in 0..Cardinality(Kinds) /\ pool \in {"none", "open", "closed"}

(* When a component is initialised (bootstrap.go:174-184) everything its Init takes from  *)
(* the builder is activated, and the lock finds the pool of the store: no component is     *)
(* left without the leader election or the lock it would have used, and the declared       *)
(* dependencies, not the alphabet, see to it.                                               *)
LookupsSucceed ==
  phase = "init" /\ pending # <<>> =>
    /\ Lookups(Head(pending)) \subseteq activated
    /\ NeedsPool(Head(pending)) => pool = "open"

(* The pool counts the stores that have not closed it (connection_pool.go:76, 178-204):    *)
(* the connection is closed by the last of them, never under another.                       *)
PoolOutlivesStores ==
  /\ pool # "none" => refCount = Cardinality({k \in Kinds : store[k] \in {"open", "watched"}})
  /\ pool = "closed" => \A k \in Kinds : store[k] \in {"locked", "closed"}

(* The two orders in which the pool's mutex and the map's are taken (GetGlobalDB            *)
(* :231-244, Close :178-204) never meet: the lock takes its connection before any store     *)
(* can close.                                                                               *)
LockOrdersNeverMeet == ~(mu # None /\ poolsMutex # None)
=============================================================================
