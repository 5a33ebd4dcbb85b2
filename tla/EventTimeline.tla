--------------------------- MODULE EventTimeline ---------------------------
(***************************************************************************)
(* The timeline of platform events.  Kubernetes events of pods come through  *)
(* an informer, which stores them under their own name and the mesh of the    *)
(* engine; a subscriber then files them under the mesh of the pod and a key    *)
(* that begins with the time.  Registry events are stored at once.  All are    *)
(* resources of one kind in one store, the one the informer takes for its own. *)
(***************************************************************************)
EXTENDS Integers, FiniteSetsExt, SequencesExt

CONSTANTS
  Apps,          \* the names of applications, as sequences of the parts between "-"
  Named,         \* those whose pods are named after them
  Engine, Mesh,  \* the mesh of the engine, and that of the applications
  BufferSize,    \* of the subscriber's channel
  MaxTime,       \* bound: events
  MaxMoves,      \* bound: what happens in the cluster, events included
  MaxRelists,    \* bound: ends of the watch
  None

VARIABLES
  database,      \* whether Add refuses a key that exists
  identified,    \* whether an identifier of applications is configured
  pods,          \* the applications whose pod is known as a RuntimeInstance of the mesh
  cluster,       \* per application: when the event of its pod last occurred; 0 for no event
  queue,         \* the informer's deltas
  store,         \* the LifecycleEvent resources
  ch,            \* the subscriber's channel
  sub,           \* what the subscriber has yet to delete, or None
  now, moves, relists,
  seen,          \* history: occurrences that reached the informer, and registry records
  excused        \* history: those of them that a gap the code leaves open may have lost

clusterVars == <<database, identified, pods, cluster, now, moves, relists, seen>>
vars == <<clusterVars, queue, store, ch, sub, excused>>

Entry(source, mesh, app, at, raw) ==
  [source |-> source, mesh |-> mesh, app |-> app, at |-> at, raw |-> raw]

Init ==
  /\ database \in BOOLEAN /\ identified \in BOOLEAN /\ pods = {}
  /\ cluster = [a \in Apps |-> 0] /\ queue = <<>> /\ store = {} /\ ch = <<>> /\ sub = None
  /\ now = 0 /\ moves = 0 /\ relists = 0 /\ seen = {} /\ excused = {}

-----------------------------------------------------------------------------
(* The cluster, and the deltas the informer is given *)

(* A delta joins those of its object, which are handled together. *)
Enqueue(q, d) ==
  LET last == {i \in DOMAIN q : q[i].app = d.app /\ q[i].type \in {"set", "expired"}}
  IN IF last = {} THEN Append(q, d) ELSE InsertAt(q, Max(last) + 1, d)

Moves == moves < MaxMoves /\ moves' = moves + 1

Occurs(a) ==
  /\ Moves /\ now < MaxTime /\ now' = now + 1
  /\ cluster' = [cluster EXCEPT ![a] = now + 1]
  /\ queue' = Enqueue(queue, [type |-> "set", app |-> a, at |-> now + 1])
  /\ seen' = seen \cup {<<"KUBERNETES", a, now + 1>>}
  /\ UNCHANGED <<database, identified, pods, relists, store, ch, sub, excused>>

Expires(a) ==
  /\ Moves /\ cluster[a] # 0 /\ cluster' = [cluster EXCEPT ![a] = 0]
  /\ queue' = Enqueue(queue, [type |-> "expired", app |-> a, at |-> cluster[a]])
  /\ UNCHANGED <<database, identified, pods, now, relists, seen, store, ch, sub, excused>>

(* The watch has ended: what the cluster lists is queued, then the deletion of all that the   *)
(* store holds: its keys begin with a mesh, those of the list with a namespace, and none of    *)
(* the ones are among the others.                                                               *)
Relist ==
  /\ Moves /\ relists < MaxRelists /\ relists' = relists + 1
  /\ LET listed == SetToSeq({a \in Apps : cluster[a] # 0})
         sets == [i \in DOMAIN listed |-> [type |-> "set", app |-> listed[i], at |-> cluster[listed[i]]]]
         known == SetToSeq(store)
     IN queue' = FoldLeft(Enqueue, queue, sets)
                   \o [i \in DOMAIN known |-> [type |-> "tombstone", app |-> known[i].app, entry |-> known[i]]]
  /\ excused' = seen
  /\ UNCHANGED <<database, identified, pods, cluster, now, seen, store, ch, sub>>

PodChanges(a) ==
  /\ Moves
  /\ pods' = IF a \in pods THEN pods \ {a} ELSE pods \cup {a}
  /\ UNCHANGED <<database, identified, cluster, now, relists, seen, queue, store, ch, sub, excused>>

(* RecordRegistryEvent: the time makes the key new. *)
RecordRegistryEvent(a) ==
  /\ Moves /\ now < MaxTime /\ now' = now + 1
  /\ store' = store \cup {Entry("REGISTRY", Mesh, a, now + 1, FALSE)}
  /\ seen' = seen \cup {<<"REGISTRY", a, now + 1>>}
  /\ UNCHANGED <<database, identified, pods, cluster, relists, queue, ch, sub, excused>>

-----------------------------------------------------------------------------
(* The informer and the subscriber *)

Raw(s, mesh, a) == {e \in s : e.raw /\ e.mesh = mesh /\ e.app = a}

(* The bus drops an event for which there is no room. *)
Emit(e, about) ==
  IF Len(ch) < BufferSize THEN ch' = Append(ch, e) /\ UNCHANGED excused
                          ELSE excused' = excused \cup about /\ UNCHANGED ch

(* A database says of a key that is not there that it cannot delete it: no event then. *)
DeleteFromStore(entries, e) ==
  /\ store' = store \ entries
  /\ IF database /\ entries \cap store = {} THEN UNCHANGED <<ch, excused>> ELSE Emit(e, {})

HandleDeltas ==
  /\ queue # <<>> /\ queue' = Tail(queue)
  /\ LET d == Head(queue) IN
     \/ /\ d.type = "set"
        /\ store' = (store \ Raw(store, Engine, d.app)) \cup {Entry("KUBERNETES", Engine, d.app, d.at, TRUE)}
        /\ Emit([type |-> "upsert", app |-> d.app, at |-> d.at], {<<"KUBERNETES", d.app, d.at>>})
     \/ /\ d.type = "expired"
        /\ DeleteFromStore(Raw(store, Engine, d.app), [type |-> "deleted", raw |-> TRUE, app |-> d.app])
     \/ /\ d.type = "tombstone"
        /\ DeleteFromStore(IF d.entry.raw THEN Raw(store, d.entry.mesh, d.app) ELSE {d.entry},
                  [type |-> "deleted", raw |-> d.entry.raw, app |-> d.app, entry |-> d.entry])
  /\ UNCHANGED <<clusterVars, sub>>

(* alignMeshFromRuntimeInstance *)
Aligned(a) == IF a \in pods THEN Mesh ELSE Engine

(* Seeded bug: an event of a pod that is not known is not filed. *)
WriteEvent_KnownOnly(e) ==
  LET new == Entry("KUBERNETES", Aligned(e.app), e.app, e.at, FALSE)
      rest == IF e.app \in pods THEN store \ Raw(store, Engine, e.app) ELSE store
  IN IF (database /\ new \in rest) \/ e.app \notin pods
       THEN store' = rest /\ UNCHANGED sub
       ELSE store' = rest \cup {new} /\ sub' = [mesh |-> Aligned(e.app), app |-> e.app]

(* With the mesh of a known pod the entry the informer wrote is deleted first; otherwise it    *)
(* is deleted after the event has been added under its new key.                                 *)
WriteEvent(e) ==
  LET new == Entry("KUBERNETES", Aligned(e.app), e.app, e.at, FALSE)
      rest == IF e.app \in pods THEN store \ Raw(store, Engine, e.app) ELSE store
  IN IF database /\ new \in rest
       THEN store' = rest /\ UNCHANGED sub
       ELSE store' = rest \cup {new} /\ sub' = [mesh |-> Aligned(e.app), app |-> e.app]

ProcessUpsert ==
  /\ sub = None /\ ch # <<>> /\ Head(ch).type = "upsert" /\ ch' = Tail(ch)
  /\ IF identified THEN WriteEvent(Head(ch)) ELSE UNCHANGED <<store, sub>>
  /\ UNCHANGED <<clusterVars, queue, excused>>

(* The store does not add the event. *)
AddFails ==
  /\ identified /\ sub = None /\ ch # <<>> /\ Head(ch).type = "upsert" /\ ch' = Tail(ch)
  /\ store' = IF Head(ch).app \in pods THEN store \ Raw(store, Engine, Head(ch).app) ELSE store
  /\ excused' = excused \cup {<<"KUBERNETES", Head(ch).app, Head(ch).at>>}
  /\ UNCHANGED <<clusterVars, queue, sub>>

DeleteOriginal ==
  /\ sub # None /\ sub' = None
  /\ store' = store \ Raw(store, sub.mesh, sub.app)
  /\ UNCHANGED <<clusterVars, queue, ch, excused>>

ProcessDelete ==
  /\ sub = None /\ ch # <<>> /\ Head(ch).type = "deleted" /\ ch' = Tail(ch)
  /\ store' = store \ IF Head(ch).raw THEN Raw(store, Engine, Head(ch).app) ELSE {Head(ch).entry}
  /\ UNCHANGED <<clusterVars, queue, sub, excused>>

Next ==
  \/ \E a \in Apps : Occurs(a) \/ Expires(a) \/ PodChanges(a) \/ RecordRegistryEvent(a)
  \/ Relist \/ HandleDeltas \/ ProcessUpsert \/ AddFails \/ DeleteOriginal \/ ProcessDelete

Spec == Init /\ [][Next]_vars

-----------------------------------------------------------------------------
(* The console *)

(* resolveAppEventNames and filterEventsByNames: what begins with the name and "/" or "-",     *)
(* and the pods that are known.                                                                  *)
MatchesApplication(a, e) ==
  \/ e.app # a /\ IsPrefix(a, e.app) /\ (e.source = "REGISTRY" \/ e.app \in Named)
  \/ e.app = a /\ (e.source = "REGISTRY" \/ a \in Named \/ a \in pods)

(* A Kubernetes event's key falls with the time, that of a registry event rises, and all the   *)
(* former are above the latter.                                                                  *)
SortKey(e) == IF e.source = "KUBERNETES" THEN 2 * MaxTime + 1 - e.at ELSE e.at

ListApplicationEvents(a) ==
  SetToSortSeq({e \in store : e.mesh = Mesh /\ MatchesApplication(a, e)},
               LAMBDA e, f : SortKey(e) < SortKey(f))

(* The console passes the address and the application: the registry's name for an instance, and *)
(* the pod when it is known.                                                                       *)
ListInstanceEvents(a) ==
  {e \in store : e.mesh = Mesh /\ e.app = a /\ (e.source = "REGISTRY" \/ a \in pods)}

-----------------------------------------------------------------------------
(* The store, the deltas and the channel keep their shape. *)
TypeOK ==
  /\ pods \subseteq Apps /\ Len(ch) <= BufferSize /\ now \in 0..MaxTime
  /\ \A e \in store : e.mesh \in {Engine, Mesh} /\ e.at \in 1..MaxTime /\ (e.raw => e.mesh = Engine)

(* Once the informer and the subscriber are done, every occurrence of an event and every        *)
(* registry record is in the store once, and nothing is left under the name the informer gave   *)
(* it (lifecycle_event.go:72-103, :164-196).  Excused is what the bus dropped or the store       *)
(* refused, and all that a new list of the watch found: it deletes what is in the store, and its *)
(* deletions overtake what is listed again (informer.go:184-190).                                  *)
EventsAreFiled ==
  identified /\ queue = <<>> /\ ch = <<>> /\ sub = None =>
    /\ \A o \in seen \ excused :
         Cardinality({e \in store : <<e.source, e.app, e.at>> = o /\ ~e.raw}) = 1
    /\ \A e \in store : e.raw => \E o \in excused : o[2] = e.app

(* The timeline of an application (event.go:38-160) is the newest first as far as Kubernetes    *)
(* goes, holds all that is filed for an application whose pods bear its name, and besides it     *)
(* only what belongs to applications whose names continue with a hyphen; what is shown of an      *)
(* instance is part of it.                                                                          *)
TimelineShowsApplication ==
  \A a \in Apps :
    LET shown == ListApplicationEvents(a)
    IN /\ \A i, j \in DOMAIN shown : i < j /\ shown[i].source = "KUBERNETES" => shown[j].at <= shown[i].at
       /\ a \in Named => {e \in store : e.mesh = Mesh /\ e.app = a} \subseteq ToSet(shown)
       /\ \A i \in DOMAIN shown : IsPrefix(a, shown[i].app)
       /\ ListInstanceEvents(a) \subseteq ToSet(shown)
=============================================================================
