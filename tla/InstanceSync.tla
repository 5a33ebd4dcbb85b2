---------------------------- MODULE InstanceSync ----------------------------
(***************************************************************************)
(* The Instances of one application, put together from two sources.  The   *)
(* registry's RPC instances and the runtime's pods are kept in stores of   *)
(* their own; each change is an event, and two subscribers with a queue    *)
(* and a goroutine each merge the events into the Instance resources.  A   *)
(* third one recounts the instances of the Application, which two metadata *)
(* subscribers may create as well.  All subscribers run beside one event   *)
(* bus and write to the database store: a read or write of a store is one  *)
(* step, and no subscriber holds anything between two of them.             *)
(***************************************************************************)
EXTENDS Integers, FiniteSets, Sequences, Functions

CONSTANTS
  Keys,         \* names of the application's instances: app, ip and port
  Ip,           \* the address in a name
  Pods,         \* runtime instances
  PodIp,        \* the address of a pod
  PodKey,       \* the instance name in a pod's labels, None when incomplete
  RpcData,      \* what a registry says of an instance
  Timed,        \* the data that carry a timestamp, which becomes RegisterTime
  RtData,       \* what the engine says of a pod
  None,
  Metas,        \* the provider and the consumer metadata subscriber
  MaxNotices,   \* bound: service notices of the registry
  MaxPodEvents, \* bound: pod deltas of the engine
  MaxMetas      \* bound: events of each metadata subscriber

\* What is merged of a resource of each source.
Instance == [rpc : RpcData \cup {None}, rt : RtData \cup {None}]

\* The name in a pod's labels is made with the address of the pod.
ASSUME SyncAssumption ==
  /\ Timed \subseteq RpcData
  /\ None \notin RpcData \cup RtData \cup Keys /\ None \notin Instance /\ None \notin Nat
  /\ IsFiniteSet(Keys)
  /\ PodKey \in [Pods -> Keys \cup {None}]
  /\ \A p \in Pods : PodKey[p] # None => Ip[PodKey[p]] = PodIp[p]
  /\ MaxNotices \in Nat /\ MaxPodEvents \in Nat /\ MaxMetas \in Nat

VARIABLES
  rpcStore,   \* RPCInstance resources
  rtStore,    \* RuntimeInstance resources
  instances,  \* Instance resources
  app,        \* InstanceCount of the Application resource, or None
  rpcQueue,   \* events in the buffer of RPCInstanceEventSubscriber
  rtQueue,    \* events in the buffer of RuntimeInstanceEventSubscriber
  recounts,   \* number of events in the buffer of InstanceEventSubscriber
  rpcSub,     \* what the goroutine of each subscriber is doing
  rtSub,
  countSub,
  metaSub,
  notices,    \* service notices so far
  podEvents,  \* pod deltas so far
  metas,      \* metadata events so far
  raced,      \* history: keys whose Instance both subscribers have had in hand
  collided    \* history: the Application was missing for two subscribers at once

sources == <<rpcStore, rtStore, notices, podEvents>>
counting == <<app, countSub, metaSub, metas>>
vars == <<rpcStore, rtStore, instances, app, rpcQueue, rtQueue, recounts, rpcSub, rtSub,
          countSub, metaSub, notices, podEvents, metas, raced, collided>>

Idle == [at |-> "idle"]

RpcEvent == [type : {"upsert"}, key : Keys, data : RpcData] \cup [type : {"delete"}, key : Keys]

RtEvent == [type : {"upsert"}, pod : Pods, data : RtData] \cup [type : {"delete"}, pod : Pods]

TypeOK ==
  /\ rpcStore \in [Keys -> RpcData \cup {None}]
  /\ rtStore \in [Pods -> RtData \cup {None}]
  /\ instances \in [Keys -> Instance \cup {None}]
  /\ app \in Nat \cup {None}
  /\ rpcQueue \in Seq(RpcEvent)
  /\ rtQueue \in Seq(RtEvent)
  /\ recounts \in Nat
  /\ rpcSub \in {Idle} \cup [at : {"find", "add", "write"}, event : RpcEvent, key : Keys,
                             read : Instance \cup {None}]
  /\ rtSub \in {Idle} \cup [at : {"write"}, event : RtEvent, key : Keys,
                            read : Instance \cup {None}]
  /\ countSub \in {Idle} \cup [at : {"get", "add", "update"}, count : 0 .. Cardinality(Keys)]
  /\ metaSub \in [Metas -> {Idle, [at |-> "add"]}]
  /\ notices \in 0 .. MaxNotices
  /\ podEvents \in 0 .. MaxPodEvents
  /\ metas \in [Metas -> 0 .. MaxMetas]
  /\ raced \subseteq Keys
  /\ collided \in BOOLEAN

Init ==
  /\ rpcStore = [k \in Keys |-> None]
  /\ rtStore = [p \in Pods |-> None]
  /\ instances = [k \in Keys |-> None]
  /\ app = None
  /\ rpcQueue = <<>>
  /\ rtQueue = <<>>
  /\ recounts = 0
  /\ rpcSub = Idle
  /\ rtSub = Idle
  /\ countSub = Idle
  /\ metaSub = [s \in Metas |-> Idle]
  /\ notices = 0
  /\ podEvents = 0
  /\ metas = [s \in Metas |-> 0]
  /\ raced = {}
  /\ collided = FALSE

-----------------------------------------------------------------------------
(* The sources                                                              *)

\* The orders in which the keys of a map are walked.
Orders(S) == Bijection(1 .. Cardinality(S), S)

Upsert(k, d) == [type |-> "upsert", key |-> k, data |-> d]

Offline(k) == [type |-> "delete", key |-> k]

\* processRPCInstanceUpsert: the service's list replaces what the store has of
\* it; offline instances first, then the new ones, then those that stay.  The
\* maps are walked in any order.
NacosNotice(list) ==
  /\ notices < MaxNotices
  /\ LET old == {k \in Keys : rpcStore[k] # None}
         new == {k \in Keys : list[k] # None} IN
     \E gone \in Orders(old \ new), come \in Orders(new \ old), stay \in Orders(new \cap old) :
       rpcQueue' = rpcQueue \o [i \in DOMAIN gone |-> Offline(gone[i])]
                            \o [i \in DOMAIN come |-> Upsert(come[i], list[come[i]])]
                            \o [i \in DOMAIN stay |-> Upsert(stay[i], list[stay[i]])]
  /\ rpcStore' = list
  /\ notices' = notices + 1
  /\ UNCHANGED <<rtStore, instances, rtQueue, recounts, rpcSub, rtSub, podEvents, raced, collided, counting>>

\* processRPCInstanceDelete: the service is gone and all its instances with it.
NacosDelete ==
  /\ notices < MaxNotices
  /\ \E gone \in Orders({k \in Keys : rpcStore[k] # None}) :
       rpcQueue' = rpcQueue \o [i \in DOMAIN gone |-> Offline(gone[i])]
  /\ rpcStore' = [k \in Keys |-> None]
  /\ notices' = notices + 1
  /\ UNCHANGED <<rtStore, instances, rtQueue, recounts, rpcSub, rtSub, podEvents, raced, collided, counting>>

\* HandleDeltas for one delta: the store is written, then the event is sent.
\* Added and Updated events are handled alike.
PodUpsert(p, d) ==
  /\ podEvents < MaxPodEvents
  /\ rtStore' = [rtStore EXCEPT ![p] = d]
  /\ rtQueue' = Append(rtQueue, [type |-> "upsert", pod |-> p, data |-> d])
  /\ podEvents' = podEvents + 1
  /\ UNCHANGED <<rpcStore, instances, rpcQueue, recounts, rpcSub, rtSub, notices, raced, collided, counting>>

PodDelete(p) ==
  /\ podEvents < MaxPodEvents
  /\ rtStore[p] # None
  /\ rtStore' = [rtStore EXCEPT ![p] = None]
  /\ rtQueue' = Append(rtQueue, [type |-> "delete", pod |-> p])
  /\ podEvents' = podEvents + 1
  /\ UNCHANGED <<rpcStore, instances, rpcQueue, recounts, rpcSub, rtSub, notices, raced, collided, counting>>

-----------------------------------------------------------------------------
(* Writing an Instance                                                      *)

HasRPCInstanceSource(i) == i.rpc \in Timed

HasRuntimeInstanceSource(i) == i.rt # None

\* instanceStore.Add, and the Added event; the key may be there by now.
AddInstance(k, i) ==
  \/ /\ instances[k] = None
     /\ instances' = [instances EXCEPT ![k] = i]
     /\ recounts' = recounts + 1
  \/ instances[k] # None /\ UNCHANGED <<instances, recounts>>

\* instanceStore.Update with the number of events sent after it.
UpdateInstance(k, i, sent) ==
  \/ /\ instances[k] # None
     /\ instances' = [instances EXCEPT ![k] = i]
     /\ recounts' = recounts + sent
  \/ instances[k] = None /\ UNCHANGED <<instances, recounts>>

\* Seeded bug: the deletion is not announced.
DeleteInstance_Quiet(k) ==
  \/ /\ instances[k] # None
     /\ instances' = [instances EXCEPT ![k] = None]
     /\ UNCHANGED recounts
  \/ instances[k] = None /\ UNCHANGED <<instances, recounts>>

DeleteInstance(k) ==
  \/ /\ instances[k] # None
     /\ instances' = [instances EXCEPT ![k] = None]
     /\ recounts' = recounts + 1
  \/ instances[k] = None /\ UNCHANGED <<instances, recounts>>

-----------------------------------------------------------------------------
(* RPCInstanceEventSubscriber                                               *)

Busy(sub, k) == sub # Idle /\ sub.key = k

\* getRelatedInstanceRes.  A delete event without an Instance is done.
RpcGet ==
  /\ rpcSub = Idle
  /\ rpcQueue # <<>>
  /\ LET e == Head(rpcQueue)
         read == instances[e.key] IN
     /\ rpcSub' = IF read # None
                    THEN [at |-> "write", event |-> e, key |-> e.key, read |-> read]
                  ELSE IF e.type = "upsert"
                    THEN [at |-> "find", event |-> e, key |-> e.key, read |-> None]
                  ELSE Idle
     /\ raced' = raced \cup {k \in {e.key} : Busy(rtSub, k)}
  /\ rpcQueue' = Tail(rpcQueue)
  /\ UNCHANGED <<instances, rtQueue, recounts, rtSub, collided, sources, counting>>

\* Seeded bug: a pod without labels is not looked for.
RuntimeFor_Labelled(k) == {p \in Pods : rtStore[p] # None /\ PodKey[p] = k}

\* The runtime instance at the address of k: the one whose labels name k, else any.
RuntimeFor(k) ==
  LET candidates == {p \in Pods : rtStore[p] # None /\ PodIp[p] = Ip[k]}
      exact == {p \in candidates : PodKey[p] = k} IN
  IF exact # {} THEN exact ELSE candidates

\* FromRPCInstance and findRelatedRuntimeInstanceAndMerge; the Instance made is
\* kept in "read" until it is added.
RpcFind ==
  /\ rpcSub # Idle /\ rpcSub.at = "find"
  /\ \/ \E p \in RuntimeFor(rpcSub.key) :
          rpcSub' = [rpcSub EXCEPT !.at = "add", !.read = [rpc |-> rpcSub.event.data, rt |-> rtStore[p]]]
     \/ /\ RuntimeFor(rpcSub.key) = {}
        /\ rpcSub' = [rpcSub EXCEPT !.at = "add", !.read = [rpc |-> rpcSub.event.data, rt |-> None]]
  /\ UNCHANGED <<instances, rpcQueue, rtQueue, recounts, rtSub, raced, collided, sources, counting>>

RpcAdd ==
  /\ rpcSub # Idle /\ rpcSub.at = "add"
  /\ AddInstance(rpcSub.key, rpcSub.read)
  /\ rpcSub' = Idle
  /\ UNCHANGED <<rpcQueue, rtQueue, rtSub, raced, collided, sources, counting>>

\* The rest of processUpsert and processDelete for an Instance that was found.
RpcWrite ==
  /\ rpcSub # Idle /\ rpcSub.at = "write"
  /\ LET e == rpcSub.event
         cleared == [rpcSub.read EXCEPT !.rpc = None] IN
     \/ e.type = "upsert" /\ UpdateInstance(e.key, [rpcSub.read EXCEPT !.rpc = e.data], 0)
     \/ e.type = "delete" /\ HasRuntimeInstanceSource(cleared) /\ UpdateInstance(e.key, cleared, 1)
     \/ e.type = "delete" /\ ~HasRuntimeInstanceSource(cleared) /\ DeleteInstance(e.key)
  /\ rpcSub' = Idle
  /\ UNCHANGED <<rpcQueue, rtQueue, rtSub, raced, collided, sources, counting>>

-----------------------------------------------------------------------------
(* RuntimeInstanceEventSubscriber                                           *)

\* getRelatedKubernetesInstance: by the name in the labels, else the only
\* Instance at the pod's address.  Its lookups are one step: as long as
\* addresses are not shared, they find what the last of them finds.
Related(p) ==
  LET named == {k \in Keys : PodKey[p] = k /\ instances[k] # None}
      same == {k \in Keys : PodIp[p] = Ip[k] /\ instances[k] # None} IN
  IF named # {} THEN named ELSE IF Cardinality(same) = 1 THEN same ELSE {}

\* The event is done when nothing is found and it is a delete event or the
\* labels are incomplete.
RtGet ==
  /\ rtSub = Idle
  /\ rtQueue # <<>>
  /\ LET e == Head(rtQueue) IN
     /\ \/ \E k \in Related(e.pod) :
             rtSub' = [at |-> "write", event |-> e, key |-> k, read |-> instances[k]]
        \/ /\ Related(e.pod) = {}
           /\ rtSub' = IF e.type = "upsert" /\ PodKey[e.pod] # None
                         THEN [at |-> "write", event |-> e, key |-> PodKey[e.pod], read |-> None]
                         ELSE Idle
     /\ raced' = raced \cup {k \in Keys : Busy(rpcSub, k) /\ PodIp[e.pod] = Ip[k]}
  /\ rtQueue' = Tail(rtQueue)
  /\ UNCHANGED <<instances, rpcQueue, recounts, rpcSub, collided, sources, counting>>

RtWrite ==
  /\ rtSub # Idle
  /\ LET e == rtSub.event
         k == rtSub.key IN
     \/ /\ rtSub.read = None
        /\ AddInstance(k, [rpc |-> None, rt |-> e.data])
     \/ /\ rtSub.read # None
        /\ LET cleared == [rtSub.read EXCEPT !.rt = None] IN
           \/ e.type = "upsert" /\ UpdateInstance(k, [rtSub.read EXCEPT !.rt = e.data], 0)
           \/ e.type = "delete" /\ HasRPCInstanceSource(cleared) /\ UpdateInstance(k, cleared, 1)
           \/ e.type = "delete" /\ ~HasRPCInstanceSource(cleared) /\ DeleteInstance(k)
  /\ rtSub' = Idle
  /\ UNCHANGED <<rpcQueue, rtQueue, rpcSub, raced, collided, sources, counting>>

-----------------------------------------------------------------------------
(* The Application: InstanceEventSubscriber and the metadata subscribers    *)

merging == <<instances, rpcQueue, rtQueue, rpcSub, rtSub, raced>>

CountList ==
  /\ countSub = Idle
  /\ recounts > 0
  /\ recounts' = recounts - 1
  /\ countSub' = [at |-> "get", count |-> Cardinality({k \in Keys : instances[k] # None})]
  /\ UNCHANGED <<app, metaSub, metas, collided, sources, merging>>

CountGet ==
  /\ countSub # Idle /\ countSub.at = "get"
  /\ countSub' = [countSub EXCEPT !.at = IF app = None THEN "add" ELSE "update"]
  /\ UNCHANGED <<app, recounts, metaSub, metas, collided, sources, merging>>

\* Add fails, and the count is lost, when a metadata subscriber was faster.
CountWrite ==
  /\ countSub # Idle
  /\ \/ /\ countSub.at = "update" \/ (countSub.at = "add" /\ app = None)
        /\ app' = countSub.count
        /\ collided' = FALSE
     \/ countSub.at = "add" /\ app # None /\ UNCHANGED <<app, collided>>
  /\ countSub' = Idle
  /\ UNCHANGED <<recounts, metaSub, metas, sources, merging>>

\* ensureApplication of the provider, processUpsert of the consumer metadata
\* subscriber: an Application without a count is added when there is none.
MetaGet(s) ==
  /\ metaSub[s] = Idle
  /\ metas[s] < MaxMetas
  /\ metas' = [metas EXCEPT ![s] = @ + 1]
  /\ metaSub' = IF app = None THEN [metaSub EXCEPT ![s] = [at |-> "add"]] ELSE metaSub
  /\ UNCHANGED <<app, recounts, countSub, collided, sources, merging>>

MetaAdd(s) ==
  /\ metaSub[s] # Idle
  /\ metaSub' = [metaSub EXCEPT ![s] = Idle]
  /\ \/ /\ app = None
        /\ app' = 0
        /\ collided' = (countSub # Idle /\ countSub.at = "add")
     \/ app # None /\ UNCHANGED <<app, collided>>
  /\ UNCHANGED <<recounts, countSub, metas, sources, merging>>

Next ==
  \/ \E list \in [Keys -> RpcData \cup {None}] : NacosNotice(list)
  \/ NacosDelete
  \/ \E p \in Pods, d \in RtData : PodUpsert(p, d)
  \/ \E p \in Pods : PodDelete(p)
  \/ RpcGet \/ RpcFind \/ RpcAdd \/ RpcWrite
  \/ RtGet \/ RtWrite
  \/ CountList \/ CountGet \/ CountWrite
  \/ \E s \in Metas : MetaGet(s) \/ MetaAdd(s)

Spec == Init /\ [][Next]_vars

-----------------------------------------------------------------------------
(* Properties                                                               *)

\* An event about the registration, or about the pods at the address, of k is
\* waiting or being handled.
RpcPending(k) == Busy(rpcSub, k) \/ \E i \in DOMAIN rpcQueue : rpcQueue[i].key = k

RtPending(k) ==
  \/ rtSub # Idle /\ PodIp[rtSub.event.pod] = Ip[k]
  \/ \E i \in DOMAIN rtQueue : PodIp[rtQueue[i].pod] = Ip[k]

PodsAt(k) == {p \in Pods : PodIp[p] = Ip[k] /\ rtStore[p] # None}

\* Once the events of a registration have been handled, the Instance shows the
\* registration the RPC instance store has, and does not show one that is gone,
\* whatever the runtime side is doing.  Except for an Instance that both
\* subscribers have had in hand at once, and for a registration without a
\* timestamp: the deletion of the pod takes its Instance along, and a pod that
\* comes back makes one without it.
RegistrationShown ==
  \A k \in Keys \ raced : RpcPending(k) \/
    LET shown == IF instances[k] = None THEN None ELSE instances[k].rpc IN
    shown = rpcStore[k] \/ (shown = None /\ rpcStore[k] \notin Timed)

\* Once the events of a pod have been handled, the Instance at its address shows
\* what the runtime instance store has of the pod, and a pod whose labels are
\* complete has an Instance, whatever the registry side is doing.
PodShown ==
  \A k \in Keys \ raced : RtPending(k) \/
    IF instances[k] = None THEN \A p \in PodsAt(k) : PodKey[p] # k
    ELSE instances[k].rt \in (IF PodsAt(k) = {} THEN {None} ELSE {rtStore[p] : p \in PodsAt(k)})

\* processDelete never leaves an Instance behind that has neither source, not
\* even when the subscribers overwrite each other's merge.
NoEmptyInstance == \A k \in Keys : instances[k] # [rpc |-> None, rt |-> None]

\* When no Instance event is waiting, the Application exists if an Instance does
\* and its InstanceCount is the number of Instances, however the two merging
\* subscribers interleave.  Except when a metadata subscriber has created the
\* Application between the check and the Add of the last recount.
CountIsCurrent ==
  recounts = 0 /\ countSub = Idle /\ ~collided =>
    LET count == Cardinality({k \in Keys : instances[k] # None}) IN
    \/ app = count
    \/ app = None /\ count = 0

\* An Instance shows exactly its two sources, and goes when both are gone.
SourcesShown == TypeOK /\ RegistrationShown /\ PodShown /\ NoEmptyInstance
=============================================================================
