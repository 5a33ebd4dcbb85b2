------------------------- MODULE InstanceMergeProofs ------------------------
(***************************************************************************)
(* Proofs about InstanceSync, for any number of instances, pods and        *)
(* events: what the merging subscribers show of an instance's two sources. *)
(***************************************************************************)
EXTENDS InstanceSyncProofs

(* Registrations                                                            *)

\* As long as an Instance has not been in both subscribers' hands at once, what
\* a subscriber has read of it is still what the store has.
Hands ==
  \A k \in Keys \ raced :
    /\ Busy(rpcSub, k) => /\ ~Busy(rtSub, k)
                          /\ instances[k] = IF rpcSub.at = "write" THEN rpcSub.read ELSE None
    /\ Busy(rtSub, k) => instances[k] = rtSub.read

\* A write touches one Instance only.
LEMMA OthersStay ==
  ASSUME TypeInv, NEW k \in Keys, NEW l \in Keys, l # k, NEW i, NEW n,
         AddInstance(k, i) \/ UpdateInstance(k, i, n) \/ DeleteInstance(k)
  PROVE  instances'[l] = instances[l]
BY Zenon DEF TypeInv, TypeOK, AddInstance, UpdateInstance, DeleteInstance

\* What a subscriber leaves of an Instance that is as it has read it.
LEMMA RpcLeaves ==
  ASSUME TypeInv, Hands, RpcAdd \/ RpcWrite
  PROVE  /\ rpcSub.key \in Keys /\ rpcSub' = Idle
         /\ \A l \in Keys \ {rpcSub.key} : instances'[l] = instances[l]
         /\ rpcSub.key \notin raced =>
              \/ /\ rpcSub.at = "add"
                 /\ instances'[rpcSub.key] = rpcSub.read
                 /\ rpcSub.read \in Instance
                 /\ rpcSub.event.type = "upsert" /\ rpcSub.read.rpc = rpcSub.event.data
              \/ /\ instances[rpcSub.key] \in Instance
                 /\ rpcSub.event.type = "upsert"
                 /\ instances'[rpcSub.key] = [rpc |-> rpcSub.event.data, rt |-> instances[rpcSub.key].rt]
              \/ /\ instances[rpcSub.key] \in Instance
                 /\ rpcSub.event.type = "delete"
                 /\ instances[rpcSub.key].rt # None
                 /\ instances'[rpcSub.key] = [rpc |-> None, rt |-> instances[rpcSub.key].rt]
              \/ /\ instances[rpcSub.key] \in Instance
                 /\ rpcSub.event.type = "delete"
                 /\ instances[rpcSub.key].rt = None
                 /\ instances'[rpcSub.key] = None
<1> DEFINE k == rpcSub.key
<1>1. /\ k \in Keys /\ rpcSub.event \in RpcEvent /\ rpcSub.event.key = k
      /\ rpcSub.read \in Instance /\ rpcSub' = Idle /\ rpcSub # Idle
      /\ instances \in [Keys -> Instance \cup {None}]
  BY Zenon DEF TypeInv, TypeOK, RpcInHand, RpcAdd, RpcWrite, Idle
<1>2. \A l \in Keys \ {k} : instances'[l] = instances[l]
  BY <1>1, OthersStay, Zenon DEF RpcAdd, RpcWrite
<1>3. ASSUME k \notin raced, RpcAdd
      PROVE  /\ rpcSub.at = "add" /\ instances'[k] = rpcSub.read /\ rpcSub.event.type = "upsert"
             /\ rpcSub.read.rpc = rpcSub.event.data
  <2>1. instances[k] = None
    BY <1>1, <1>3, Zenon DEF Hands, Busy, RpcAdd
  <2>2. rpcSub.event.type = "upsert" /\ rpcSub.at = "add" /\ rpcSub.read.rpc = rpcSub.event.data
    BY <1>1, <1>3, Zenon DEF TypeInv, RpcInHand, RpcAdd
  <2> QED BY <1>1, <1>3, <2>1, <2>2, Zenon DEF RpcAdd, AddInstance
<1>4. ASSUME k \notin raced, RpcWrite
      PROVE  \/ /\ rpcSub.event.type = "upsert"
                /\ instances'[k] = [rpc |-> rpcSub.event.data, rt |-> instances[k].rt]
             \/ /\ rpcSub.event.type = "delete"
                /\ instances[k].rt # None
                /\ instances'[k] = [rpc |-> None, rt |-> instances[k].rt]
             \/ /\ rpcSub.event.type = "delete"
                /\ instances[k].rt = None
                /\ instances'[k] = None
  <2>1. instances[k] = rpcSub.read /\ instances[k] # None
    BY <1>1, <1>4, SyncAssumption, Zenon DEF Hands, Busy, RpcWrite
  <2>2. [rpcSub.read EXCEPT !.rpc = None] = [rpc |-> None, rt |-> instances[k].rt]
    BY <1>1, <2>1 DEF Instance
  <2>3. [rpcSub.read EXCEPT !.rpc = rpcSub.event.data] = [rpc |-> rpcSub.event.data, rt |-> instances[k].rt]
    BY <1>1, <2>1 DEF Instance
  <2> QED BY <1>1, <1>4, <2>1, <2>2, <2>3, SMTT(60) DEF RpcWrite, UpdateInstance, DeleteInstance, HasRuntimeInstanceSource
<1>5. k \notin raced /\ RpcWrite => instances[k] \in Instance
  BY <1>1, Zenon DEF Hands, Busy, RpcWrite
<1> QED BY <1>1, <1>2, <1>3, <1>4, <1>5, ZenonT(60)

LEMMA RtLeaves ==
  ASSUME TypeInv, Hands, RtWrite
  PROVE  /\ rtSub.key \in Keys /\ rtSub' = Idle /\ rtSub # Idle
         /\ rtSub.event \in RtEvent /\ Ip[rtSub.key] = PodIp[rtSub.event.pod]
         /\ \A l \in Keys \ {rtSub.key} : instances'[l] = instances[l]
         /\ rtSub.key \notin raced =>
              \/ /\ instances[rtSub.key] = None
                 /\ rtSub.event.type = "upsert"
                 /\ instances'[rtSub.key] = [rpc |-> None, rt |-> rtSub.event.data]
              \/ /\ instances[rtSub.key] \in Instance
                 /\ rtSub.event.type = "upsert"
                 /\ instances'[rtSub.key] = [rpc |-> instances[rtSub.key].rpc, rt |-> rtSub.event.data]
              \/ /\ instances[rtSub.key] \in Instance
                 /\ rtSub.event.type = "delete"
                 /\ instances[rtSub.key].rpc \in Timed
                 /\ instances'[rtSub.key] = [rpc |-> instances[rtSub.key].rpc, rt |-> None]
              \/ /\ instances[rtSub.key] \in Instance
                 /\ rtSub.event.type = "delete"
                 /\ instances[rtSub.key].rpc \notin Timed
                 /\ instances'[rtSub.key] = None
<1> DEFINE k == rtSub.key
<1>1. /\ k \in Keys /\ rtSub.event \in RtEvent /\ rtSub' = Idle /\ rtSub # Idle
      /\ rtSub.read \in Instance \cup {None} /\ Ip[k] = PodIp[rtSub.event.pod]
      /\ rtSub.read = None => rtSub.event.type = "upsert"
      /\ instances \in [Keys -> Instance \cup {None}]
  BY Zenon DEF TypeInv, TypeOK, RtInHand, RtWrite, Idle
<1>2. \A l \in Keys \ {k} : instances'[l] = instances[l]
  BY <1>1, OthersStay, Zenon DEF RtWrite
<1>3. k \notin raced => instances[k] = rtSub.read
  BY <1>1, Zenon DEF Hands, Busy
<1>4. ASSUME k \notin raced, rtSub.read = None
      PROVE  instances'[k] = [rpc |-> None, rt |-> rtSub.event.data]
  BY <1>1, <1>3, <1>4, Zenon DEF RtWrite, AddInstance
<1>5. ASSUME k \notin raced, rtSub.read # None
      PROVE  \/ /\ rtSub.event.type = "upsert"
                /\ instances'[k] = [rpc |-> instances[k].rpc, rt |-> rtSub.event.data]
             \/ /\ rtSub.event.type = "delete"
                /\ instances[k].rpc \in Timed
                /\ instances'[k] = [rpc |-> instances[k].rpc, rt |-> None]
             \/ /\ rtSub.event.type = "delete"
                /\ instances[k].rpc \notin Timed
                /\ instances'[k] = None
  <2>1. instances[k] = rtSub.read /\ rtSub.read \in Instance
    BY <1>1, <1>3, <1>5, Zenon
  <2>2. [rtSub.read EXCEPT !.rt = None] = [rpc |-> instances[k].rpc, rt |-> None]
    BY <2>1 DEF Instance
  <2>3. [rtSub.read EXCEPT !.rt = rtSub.event.data] = [rpc |-> instances[k].rpc, rt |-> rtSub.event.data]
    BY <2>1 DEF Instance
  <2> QED BY <1>1, <1>5, <2>1, <2>2, <2>3, SMTT(60) DEF RtWrite, UpdateInstance, DeleteInstance, HasRPCInstanceSource
<1> QED BY <1>1, <1>2, <1>3, <1>4, <1>5, Zenon
\* The Application's subscribers leave everything else alone.
LEMMA CountersAreApart ==
  ASSUME CountList \/ CountGet \/ CountWrite \/ (\E s \in Metas : MetaGet(s) \/ MetaAdd(s)) \/ UNCHANGED vars
  PROVE  UNCHANGED <<rpcStore, rtStore, instances, rpcQueue, rtQueue, rpcSub, rtSub, raced>>
BY Zenon DEF CountList, CountGet, CountWrite, MetaGet, MetaAdd, sources, merging, vars

\* The sources leave the Instances and the subscribers' hands alone.
LEMMA SourcesAreApart ==
  ASSUME \/ NacosDelete \/ \E list \in [Keys -> RpcData \cup {None}] : NacosNotice(list)
         \/ \E p \in Pods, d \in RtData : PodUpsert(p, d)
         \/ \E p \in Pods : PodDelete(p)
  PROVE  UNCHANGED <<instances, rpcSub, rtSub, raced>>
BY Zenon DEF NacosDelete, NacosNotice, PodUpsert, PodDelete

LEMMA StepHands == TypeInv /\ TypeInv' /\ Hands /\ [Next]_vars => Hands'
<1> SUFFICES ASSUME TypeInv, TypeInv', Hands, [Next]_vars PROVE Hands'
  BY Zenon
<1>1. CASE UNCHANGED <<instances, rpcSub, rtSub, raced>>
  BY <1>1, Zenon DEF Hands, Busy
<1>2. CASE RpcGet
  <2>1. /\ instances' = instances /\ rtSub' = rtSub
        /\ raced' = raced \cup {k \in {Head(rpcQueue).key} : Busy(rtSub, k)}
        /\ \/ rpcSub' = Idle
           \/ /\ rpcSub'.key = Head(rpcQueue).key
              /\ instances[Head(rpcQueue).key] = IF rpcSub'.at = "write" THEN rpcSub'.read ELSE None
    BY <1>2, Zenon DEF RpcGet
  <2> QED BY <2>1, Zenon DEF Hands, Busy
<1>3. CASE RpcFind
  <2>1. /\ instances' = instances /\ rtSub' = rtSub /\ raced' = raced
        /\ rpcSub # Idle /\ rpcSub.at = "find" /\ rpcSub'.at = "add" /\ rpcSub'.key = rpcSub.key
    BY <1>3, Zenon DEF RpcFind, TypeInv, TypeOK
  <2> QED BY <2>1, Zenon DEF Hands, Busy
<1>4. CASE RpcAdd \/ RpcWrite
  <2>1. rtSub' = rtSub /\ raced' = raced /\ rpcSub # Idle
    BY <1>4, Zenon DEF RpcAdd, RpcWrite
  <2>2. rpcSub' = Idle /\ \A l \in Keys \ {rpcSub.key} : instances'[l] = instances[l]
    BY <1>4, RpcLeaves, Zenon
  <2>3. ASSUME NEW k \in Keys \ raced, Busy(rtSub, k) PROVE instances'[k] = rtSub.read
    <3>1. k # rpcSub.key
      BY <2>1, <2>3, Zenon DEF Hands, Busy
    <3> QED BY <2>2, <2>3, <3>1, Zenon DEF Hands
  <2> QED BY <2>1, <2>2, <2>3, Zenon DEF Hands, Busy
<1>5. CASE RtGet
  <2>1. /\ instances' = instances /\ rpcSub' = rpcSub
        /\ raced' = raced \cup {k \in Keys : Busy(rpcSub, k) /\ PodIp[Head(rtQueue).pod] = Ip[k]}
    BY <1>5, Zenon DEF RtGet
  <2>2. rtSub' = Idle \/ (rtSub'.read = instances[rtSub'.key] /\ rtSub'.event = Head(rtQueue))
    <3>1. CASE \E k \in Related(Head(rtQueue).pod) :
                 rtSub' = [at |-> "write", event |-> Head(rtQueue), key |-> k, read |-> instances[k]]
      BY <3>1
    <3>2. CASE /\ Related(Head(rtQueue).pod) = {} /\ PodKey[Head(rtQueue).pod] # None
               /\ rtSub' = [at |-> "write", event |-> Head(rtQueue),
                            key |-> PodKey[Head(rtQueue).pod], read |-> None]
      <4>0. rtQueue \in Seq(RtEvent) /\ rtQueue # <<>>
        BY <1>5, Zenon DEF TypeInv, TypeOK, RtGet
      <4>1. PodKey[Head(rtQueue).pod] \in Keys
        BY <3>2, <4>0, HeadTailProperties, EmptySeq, SyncAssumption, SMTT(60) DEF RtEvent
      <4>2. instances[PodKey[Head(rtQueue).pod]] = None
        BY <3>2, <4>1, Zenon DEF Related
      <4> QED BY <3>2, <4>2, Zenon
    <3> QED BY <1>5, <3>1, <3>2, Zenon DEF RtGet
  <2>3. rtSub' # Idle => Ip[rtSub'.key] = PodIp[rtSub'.event.pod]
    BY Zenon DEF TypeInv, RtInHand
  <2> QED BY <2>1, <2>2, <2>3, Zenon DEF Hands, Busy
<1>6. CASE RtWrite
  <2>1. rpcSub' = rpcSub /\ raced' = raced /\ rtSub # Idle
    BY <1>6, Zenon DEF RtWrite
  <2>2. rtSub' = Idle /\ \A l \in Keys \ {rtSub.key} : instances'[l] = instances[l]
    BY <1>6, RtLeaves, Zenon
  <2>3. ASSUME NEW k \in Keys \ raced, Busy(rpcSub, k)
        PROVE  instances'[k] = IF rpcSub.at = "write" THEN rpcSub.read ELSE None
    <3>1. k # rtSub.key
      BY <2>1, <2>3, Zenon DEF Hands, Busy
    <3> QED BY <2>2, <2>3, <3>1, Zenon DEF Hands
  <2> QED BY <2>1, <2>2, <2>3, Zenon DEF Hands, Busy
<1> QED BY <1>1, <1>2, <1>3, <1>4, <1>5, <1>6, CountersAreApart, SourcesAreApart, ZenonT(60) DEF Next

\* What the Instance shows of the registration.
Shown(k) == IF instances[k] = None THEN None ELSE instances[k].rpc

LEMMA StepRegistrationShown ==
  TypeInv /\ EventsTell /\ Hands /\ RegistrationShown /\ [Next]_vars => RegistrationShown'
<1> SUFFICES ASSUME TypeInv, EventsTell, Hands, RegistrationShown, [Next]_vars,
                    NEW k \in Keys, k \notin raced', ~Busy(rpcSub', k), ~RpcQueued(k)'
             PROVE  Shown(k)' = rpcStore'[k] \/ (Shown(k)' = None /\ rpcStore'[k] \notin Timed)
  BY Zenon DEF RegistrationShown, RpcPending, Shown, RpcQueued, Busy
<1>0. k \notin raced => \/ Busy(rpcSub, k) \/ RpcQueued(k)
                        \/ Shown(k) = rpcStore[k] \/ (Shown(k) = None /\ rpcStore[k] \notin Timed)
  BY Zenon DEF RegistrationShown, RpcPending, Shown, RpcQueued
<1>a. None \notin Instance /\ None \notin RpcData /\ Timed \subseteq RpcData
  BY SyncAssumption
<1>b. \A x \in RpcData \cup {None}, y \in RtData \cup {None} : [rpc |-> x, rt |-> y] # None
  BY <1>a DEF Instance
<1>1. CASE NacosDelete \/ \E list \in [Keys -> RpcData \cup {None}] : NacosNotice(list)
  <2>1. ~RpcQueued(k) /\ rpcStore'[k] = rpcStore[k]
    BY <1>1, StepOfNotice, Zenon DEF EventsTell
  <2>2. instances' = instances /\ rpcSub' = rpcSub /\ raced' = raced
    BY <1>1, SourcesAreApart, Zenon
  <2> QED BY <1>0, <2>1, <2>2, Zenon DEF Shown, Busy
<1>2. CASE RpcGet
  <2> DEFINE h == Head(rpcQueue)
  <2>1. /\ instances' = instances /\ rpcStore' = rpcStore /\ rpcSub = Idle /\ raced \subseteq raced'
        /\ rpcSub' = Idle => h.type # "upsert" /\ instances[h.key] = None
        /\ rpcSub' # Idle => rpcSub'.key = h.key
    BY <1>2, Zenon DEF RpcGet, sources, Idle
  <2>2. /\ RpcQueued(k) => k = h.key
        /\ k = h.key => Tells(h, rpcStore[k])
    BY <1>2, GetTellsRpc, Zenon DEF EventsTell
  <2> HIDE DEF h
  <2>3. CASE k = h.key
    <3>1. rpcSub' = Idle
      BY <2>1, <2>3, Zenon DEF Busy
    <3>2. rpcStore[k] = None
      BY <2>1, <2>2, <2>3, <3>1, Zenon DEF Tells
    <3> QED BY <2>1, <2>3, <3>1, <3>2, Zenon DEF Shown
  <2>4. CASE k # h.key
    BY <1>0, <2>1, <2>2, <2>4, Zenon DEF Shown, Busy
  <2> QED BY <2>3, <2>4, Zenon
<1>3. CASE RpcFind
  <2>1. /\ instances' = instances /\ rpcStore' = rpcStore /\ raced' = raced /\ rpcQueue' = rpcQueue
        /\ rpcSub'.key = rpcSub.key /\ rpcSub'.at = "add"
    BY <1>3, Zenon DEF RpcFind, sources, TypeInv, TypeOK
  <2>2. rpcSub' # Idle
    BY <2>1 DEF Idle
  <2> QED BY <1>0, <2>1, <2>2, Zenon DEF Shown, Busy, RpcQueued
<1>4. CASE RpcAdd \/ RpcWrite
  <2>1. rpcStore' = rpcStore /\ raced' = raced /\ rpcQueue' = rpcQueue /\ rpcSub # Idle
    BY <1>4, Zenon DEF RpcAdd, RpcWrite, sources
  <2>2. ~RpcQueued(k)
    BY <2>1, Zenon DEF RpcQueued
  <2>3. CASE k = rpcSub.key
    <3>1. Tells(rpcSub.event, rpcStore[k])
      BY <2>1, <2>2, <2>3, SMTT(60) DEF EventsTell, RpcHandTells, Busy
    <3>2. \/ instances'[k] # None /\ instances'[k].rpc = rpcSub.event.data /\ rpcSub.event.type = "upsert"
          \/ instances'[k] # None /\ instances'[k].rpc = None /\ rpcSub.event.type = "delete"
          \/ instances'[k] = None /\ rpcSub.event.type = "delete"
      <4>1. rpcSub.event \in RpcEvent
        BY <2>1, Zenon DEF TypeInv, TypeOK
      <4>2. rpcSub.event.type = "upsert" => rpcSub.event.data \in RpcData
        BY <4>1, Zenon DEF RpcEvent
      <4>4. instances[k] \in Instance => instances[k].rt \in RtData \cup {None}
        BY Zenon DEF Instance
      <4> QED BY <1>4, <1>a, <2>1, <2>3, <1>b, <4>2, <4>4, RpcLeaves, SMTT(60)
    <3> QED BY <2>1, <3>1, <3>2, Zenon DEF Shown, Tells
  <2>4. CASE k # rpcSub.key
    <3>1. instances'[k] = instances[k]
      BY <1>4, <2>4, RpcLeaves, Zenon
    <3> QED BY <1>0, <2>1, <2>2, <2>4, <3>1 DEF Shown, Busy
  <2> QED BY <2>3, <2>4, Zenon
<1>5. CASE RtGet
  <2>1. /\ instances' = instances /\ rpcStore' = rpcStore /\ raced \subseteq raced' /\ rpcQueue' = rpcQueue
        /\ rpcSub' = rpcSub
    BY <1>5, Zenon DEF RtGet, sources
  <2> QED BY <1>0, <2>1, Zenon DEF Shown, Busy, RpcQueued
<1>6. CASE RtWrite
  <2>1. rpcStore' = rpcStore /\ raced' = raced /\ rpcQueue' = rpcQueue /\ rpcSub' = rpcSub
    BY <1>6, Zenon DEF RtWrite, sources
  <2>2. Shown(k) = rpcStore[k] \/ (Shown(k) = None /\ rpcStore[k] \notin Timed)
    BY <1>0, <2>1, Zenon DEF Busy, RpcQueued
  <2>3. CASE k = rtSub.key
    <3>0. /\ rtSub.event.type = "upsert" => rtSub.event.data \in RtData \cup {None}
          /\ instances[k] \in Instance => instances[k].rpc \in RpcData \cup {None}
      BY <1>6, RtLeaves, SMTT(60) DEF RtEvent, Instance
    <3>1. \/ instances[k] = None /\ instances'[k] # None /\ instances'[k].rpc = None
          \/ instances[k] # None /\ instances'[k] # None /\ instances'[k].rpc = instances[k].rpc
          \/ instances[k] # None /\ instances[k].rpc \notin Timed /\ instances'[k] = None
      BY <1>6, <1>a, <1>b, <2>1, <2>3, <3>0, RtLeaves, SMTT(60)
    <3>2. Shown(k)' = Shown(k) \/ (Shown(k)' = None /\ Shown(k) \notin Timed)
      BY <3>1, Zenon DEF Shown
    <3> QED BY <2>1, <2>2, <3>2, SMTT(60)
  <2>4. CASE k # rtSub.key
    <3>1. instances'[k] = instances[k]
      BY <1>6, <2>4, RtLeaves, Zenon
    <3> QED BY <2>1, <2>2, <3>1, SMTT(60) DEF Shown
  <2> QED BY <2>3, <2>4, Zenon
<1>7. CASE \/ \E p \in Pods, d \in RtData : PodUpsert(p, d)
           \/ \E p \in Pods : PodDelete(p)
           \/ CountList \/ CountGet \/ CountWrite \/ \E s \in Metas : MetaGet(s) \/ MetaAdd(s)
           \/ UNCHANGED vars
  <2>1. UNCHANGED <<instances, rpcStore, raced, rpcQueue, rpcSub>>
    BY <1>7, CountersAreApart, Zenon DEF PodUpsert, PodDelete
  <2> QED BY <1>0, <2>1, Zenon DEF Shown, Busy, RpcQueued
<1> QED BY <1>1, <1>2, <1>3, <1>4, <1>5, <1>6, <1>7, SMTT(60) DEF Next
-----------------------------------------------------------------------------
(* Pods                                                                     *)

\* No address is shared: an address has one instance of the application, and
\* one pod.
OwnAddresses ==
  /\ \A k, l \in Keys : Ip[k] = Ip[l] => k = l
  /\ \A p, q \in Pods : PodIp[p] = PodIp[q] => p = q

\* What may be shown of the pods at the address of k.
PodData(k) == IF PodsAt(k) = {} THEN {None} ELSE {rtStore[p] : p \in PodsAt(k)}

\* PodShown, and: the runtime instance found for a new Instance is still the one
\* in the store when no event about it is on its way.
PodInv ==
  \A k \in Keys \ raced : RtPending(k) \/
    /\ instances[k] = None => \A p \in PodsAt(k) : PodKey[p] # k
    /\ instances[k] # None => instances[k].rt \in PodData(k)
    /\ Busy(rpcSub, k) /\ rpcSub.at = "add" => rpcSub.read.rt \in PodData(k)

LEMMA PodInvShows == PodInv => PodShown
BY Zenon DEF PodInv, PodShown, PodData

\* An event about the pod at an address that is not waited for any more is the
\* last one, and tells what is shown of the address.
LEMMA LastPodEvent ==
  ASSUME OwnAddresses, TypeInv, NEW k \in Keys, NEW p \in Pods, PodIp[p] = Ip[k],
         NEW e \in RtEvent, e.pod = p, Tells(e, rtStore[p])
  PROVE  /\ e.type = "delete" => PodsAt(k) = {} /\ PodData(k) = {None}
         /\ e.type = "upsert" => PodsAt(k) = {p} /\ PodData(k) = {e.data}
<1>1. rtStore \in [Pods -> RtData \cup {None}] /\ None \notin RtData
  BY SyncAssumption, Zenon DEF TypeInv, TypeOK
<1>2. \A q \in PodsAt(k) : q = p /\ rtStore[p] # None
  BY Zenon DEF OwnAddresses, PodsAt
<1>3. e.type = "delete" => rtStore[p] = None
  BY Zenon DEF Tells
<1>4. e.type = "upsert" => e.data = rtStore[p] /\ rtStore[p] # None
  BY Zenon DEF Tells
<1>5. e.type = "delete" => PodsAt(k) = {}
  BY <1>2, <1>3, Zenon
<1>6. e.type = "upsert" => PodsAt(k) = {p}
  BY <1>2, <1>4, Zenon DEF PodsAt
<1> QED BY <1>4, <1>5, <1>6, SMTT(60) DEF PodData

LEMMA StepPodInv ==
  ASSUME OwnAddresses
  PROVE  TypeInv /\ EventsTell /\ Hands /\ PodInv /\ [Next]_vars => PodInv'
<1> SUFFICES ASSUME TypeInv, EventsTell, Hands, PodInv, [Next]_vars,
                    NEW k \in Keys, k \notin raced', ~RtPending(k)'
             PROVE  /\ instances'[k] = None => \A p \in PodsAt(k)' : PodKey[p] # k
                    /\ instances'[k] # None => instances'[k].rt \in PodData(k)'
                    /\ Busy(rpcSub', k) /\ rpcSub'.at = "add" => rpcSub'.read.rt \in PodData(k)'
  BY Zenon DEF PodInv, Busy
<1>0. k \notin raced /\ ~RtPending(k) =>
        /\ instances[k] = None => \A p \in PodsAt(k) : PodKey[p] # k
        /\ instances[k] # None => instances[k].rt \in PodData(k)
        /\ Busy(rpcSub, k) /\ rpcSub.at = "add" => rpcSub.read.rt \in PodData(k)
  BY Zenon DEF PodInv
<1>a. /\ None \notin Instance /\ None \notin RtData /\ None \notin Keys
      /\ rtQueue \in Seq(RtEvent) /\ rtStore \in [Pods -> RtData \cup {None}]
      /\ instances \in [Keys -> Instance \cup {None}]
  BY SyncAssumption, Zenon DEF TypeInv, TypeOK
<1>b. \A x \in RpcData \cup {None}, y \in RtData \cup {None} : [rpc |-> x, rt |-> y] # None
  BY <1>a DEF Instance
<1>c. rtStore' = rtStore => PodsAt(k)' = PodsAt(k) /\ PodData(k)' = PodData(k)
  BY Zenon DEF PodsAt, PodData
<1>1. CASE (\E p \in Pods, d \in RtData : PodUpsert(p, d)) \/ \E p \in Pods : PodDelete(p)
  <2>1. PICK p \in Pods, e \in RtEvent, d \in RtData \cup {None} :
          /\ e.pod = p /\ rtQueue' = Append(rtQueue, e) /\ rtStore' = [rtStore EXCEPT ![p] = d]
    <3>1. ASSUME NEW p \in Pods, NEW d \in RtData, PodUpsert(p, d)
          PROVE  \E e \in RtEvent : e.pod = p /\ rtQueue' = Append(rtQueue, e)
      BY <3>1, Zenon DEF PodUpsert, RtEvent
    <3>2. ASSUME NEW p \in Pods, PodDelete(p)
          PROVE  \E e \in RtEvent : e.pod = p /\ rtQueue' = Append(rtQueue, e)
      BY <3>2, Zenon DEF PodDelete, RtEvent
    <3> QED BY <1>1, <3>1, <3>2, Zenon DEF PodUpsert, PodDelete
  <2>2. /\ Len(rtQueue) \in Nat /\ DOMAIN rtQueue = 1 .. Len(rtQueue)
        /\ DOMAIN rtQueue' = 1 .. Len(rtQueue) + 1
        /\ \A i \in 1 .. Len(rtQueue) : rtQueue'[i] = rtQueue[i]
        /\ rtQueue'[Len(rtQueue) + 1] = e
    BY <1>a, <2>1, AppendProperties, LenProperties, SMTT(60)
  <2>3. UNCHANGED <<instances, rpcSub, rtSub, raced>>
    BY <1>1, SourcesAreApart, Zenon
  <2>4. PodIp[p] # Ip[k]
    BY <2>1, <2>2 DEF RtPending
  <2>5. ~RtPending(k)
    BY <2>2, <2>3 DEF RtPending
  <2>6. \A q \in Pods : PodIp[q] = Ip[k] => rtStore'[q] = rtStore[q]
    BY <1>a, <2>1, <2>4, Zenon
  <2>7. PodsAt(k)' = PodsAt(k)
    BY <2>6, Zenon DEF PodsAt
  <2>8. PodData(k)' = PodData(k)
    BY <2>6, <2>7 DEF PodData, PodsAt
  <2> QED BY <1>0, <2>3, <2>5, <2>7, <2>8, Zenon DEF Busy
<1>2. CASE RpcGet
  <2>1. /\ instances' = instances /\ rtSub' = rtSub /\ rtQueue' = rtQueue /\ rtStore' = rtStore
        /\ raced \subseteq raced' /\ (rpcSub' = Idle \/ rpcSub'.at # "add")
    BY <1>2, Zenon DEF RpcGet, sources
  <2> QED BY <1>0, <1>c, <2>1, SMTT(60) DEF RtPending, Busy
<1>3. CASE RpcFind
  <2>1. /\ instances' = instances /\ rtSub' = rtSub /\ rtQueue' = rtQueue /\ rtStore' = rtStore
        /\ raced' = raced /\ rpcSub # Idle /\ rpcSub'.key = rpcSub.key
    BY <1>3, Zenon DEF RpcFind, sources, TypeInv, TypeOK
  <2>a. \A i : [rpcSub EXCEPT !.at = "add", !.read = i].read = i
    BY <2>1, SMTT(60) DEF TypeInv, TypeOK
  <2>2. CASE RuntimeFor(rpcSub.key) = {}
    <3>1. rpcSub'.read.rt = None
      <4> DEFINE i == [rpc |-> rpcSub.event.data, rt |-> None]
      <4>1. rpcSub' = [rpcSub EXCEPT !.at = "add", !.read = i]
        BY <1>3, <2>2 DEF RpcFind
      <4>2. i.rt = None
        BY Zenon
      <4> HIDE DEF i
      <4> QED BY <2>a, <4>1, <4>2, Zenon
    <3>2. PodsAt(rpcSub.key) = {}
      BY <2>2, SMTT(60) DEF RuntimeFor, PodsAt
    <3> QED BY <1>0, <1>c, <2>1, <3>1, <3>2, SMTT(60) DEF RtPending, Busy, PodData
  <2>3. CASE RuntimeFor(rpcSub.key) # {}
    <3>1. PICK p \in RuntimeFor(rpcSub.key) : rpcSub'.read.rt = rtStore[p]
      <4>1. PICK p \in RuntimeFor(rpcSub.key) :
              rpcSub' = [rpcSub EXCEPT !.at = "add", !.read = [rpc |-> rpcSub.event.data, rt |-> rtStore[p]]]
        BY <1>3, <2>3, Zenon DEF RpcFind
      <4> DEFINE i == [rpc |-> rpcSub.event.data, rt |-> rtStore[p]]
      <4>2. rpcSub' = [rpcSub EXCEPT !.at = "add", !.read = i] /\ i.rt = rtStore[p]
        BY <4>1, SMTT(60)
      <4> HIDE DEF i
      <4> QED BY <2>a, <4>2, Zenon
    <3>2. p \in PodsAt(rpcSub.key)
      BY <3>1, Zenon DEF RuntimeFor, PodsAt
    <3>3. rtStore[p] \in PodData(rpcSub.key)
      BY <3>2, SMTT(60) DEF PodData
    <3> QED BY <1>0, <1>c, <2>1, <3>1, <3>3, SMTT(60) DEF RtPending, Busy
  <2> QED BY <2>2, <2>3, Zenon
<1>4. CASE RpcAdd \/ RpcWrite
  <2>1. /\ rtSub' = rtSub /\ rtQueue' = rtQueue /\ rtStore' = rtStore /\ raced' = raced
        /\ rpcSub # Idle /\ rpcSub' = Idle
    BY <1>4, Zenon DEF RpcAdd, RpcWrite, sources
  <2>2. ~RtPending(k)
    BY <2>1, Zenon DEF RtPending
  <2>3. CASE k = rpcSub.key
    <3>1. \/ instances'[k] # None /\ instances'[k].rt \in PodData(k)
          \/ instances[k] # None /\ instances[k].rt = None /\ instances'[k] = None
      <4>1. rpcSub.event.type = "upsert" => rpcSub.event.data \in RpcData
        BY <2>1, Zenon DEF TypeInv, TypeOK, RpcEvent
      <4>2. instances[k] \in Instance => instances[k].rt \in RtData \cup {None}
        BY Zenon DEF Instance
      <4> QED BY <1>0, <1>4, <1>a, <1>b, <2>1, <2>2, <2>3, <4>1, <4>2, RpcLeaves, SMTT(60) DEF Busy
    <3>2. CASE instances[k] # None /\ instances[k].rt = None /\ instances'[k] = None
      <4>1. None \in PodData(k)
        BY <1>0, <2>1, <2>2, <3>2, SMTT(60)
      <4>2. PodsAt(k) = {}
        BY <4>1, Zenon DEF PodData, PodsAt
      <4> QED BY <1>c, <2>1, <3>2, <4>2, SMTT(60) DEF Busy
    <3> QED BY <1>c, <2>1, <3>1, <3>2, Zenon DEF Busy
  <2>4. CASE k # rpcSub.key
    <3>1. instances'[k] = instances[k]
      BY <1>4, <2>4, RpcLeaves, SMTT(60)
    <3> QED BY <1>0, <1>c, <2>1, <2>2, <3>1, SMTT(60) DEF Busy
  <2> QED BY <2>3, <2>4, Zenon
<1>5. CASE RtGet
  <2>0. PICK h : h = Head(rtQueue)
    BY SMTT(60)
  <2>1. /\ instances' = instances /\ rtStore' = rtStore /\ rtSub = Idle /\ rpcSub' = rpcSub
        /\ raced' = raced \cup {l \in Keys : Busy(rpcSub, l) /\ PodIp[h.pod] = Ip[l]}
        /\ rtQueue # <<>>
        /\ rtSub' = Idle => Related(h.pod) = {} /\ (h.type # "upsert" \/ PodKey[h.pod] = None)
        /\ rtSub' # Idle => rtSub'.event = h
    BY <1>5, <2>0, SMTT(60) DEF RtGet, sources, Idle
  <2>2. h \in RtEvent /\ h.pod \in Pods
    BY <1>a, <2>0, <2>1, HeadTailProperties, EmptySeq, SMTT(60) DEF RtEvent
  <2>3. /\ \A p \in Pods : RtQueued(p) => p = h.pod \/ RtQueued(p)'
        /\ ~RtQueued(h.pod)' => Tells(h, rtStore[h.pod])
    BY <1>5, <2>0, GetTellsRt, Zenon DEF EventsTell
  <2>4. CASE PodIp[h.pod] = Ip[k]
    <3>1. rtSub' = Idle /\ ~RtQueued(h.pod)'
      BY <2>1, <2>4, Zenon DEF RtPending, RtQueued
    <3>2. Tells(h, rtStore[h.pod])
      BY <2>3, <3>1, SMTT(60)
    <3>3. ~Busy(rpcSub, k)
      BY <2>1, <2>4, SMTT(60)
    <3>4. {l \in Keys : PodIp[h.pod] = Ip[l] /\ instances[l] # None} = {k} \/ instances[k] = None
      BY <2>4, Zenon DEF OwnAddresses
    <3>5. Cardinality({k}) = 1
      BY FS_Singleton, Zenon
    <3>6. instances[k] = None
      BY <2>1, <3>1, <3>4, <3>5, Zenon DEF Related
    <3>7. \A p \in PodsAt(k) : PodKey[p] # k
      <4>1. h.type = "upsert" => PodsAt(k) = {h.pod}
        BY <2>2, <2>4, <3>2, LastPodEvent, SMTT(60)
      <4>2. h.type = "delete" => PodsAt(k) = {}
        BY <2>2, <2>4, <3>2, LastPodEvent, SMTT(60)
      <4>3. h.type \in {"upsert", "delete"}
        BY <2>2, SMTT(60) DEF RtEvent
      <4> QED BY <1>a, <2>1, <3>1, <4>1, <4>2, <4>3, SMTT(60)
    <3> QED BY <1>c, <2>1, <3>3, <3>6, <3>7, Zenon DEF Busy
  <2>5. CASE PodIp[h.pod] # Ip[k]
    <3>1. ASSUME NEW i \in DOMAIN rtQueue, PodIp[rtQueue[i].pod] = Ip[k] PROVE FALSE
      <4>1. rtQueue[i].pod \in Pods
        BY <1>a, ElementOfSeq, LenProperties DEF RtEvent
      <4>2. RtQueued(rtQueue[i].pod)
        BY Zenon DEF RtQueued
      <4>3. PICK q \in Pods : q = rtQueue[i].pod
        BY <4>1, Zenon
      <4>4. RtQueued(q)'
        BY <2>3, <2>5, <3>1, <4>2, <4>3, Zenon
      <4> QED BY <3>1, <4>3, <4>4 DEF RtPending, RtQueued
    <3>2. ~RtPending(k)
      BY <2>1, <3>1, Zenon DEF RtPending
    <3> QED BY <1>0, <1>c, <2>1, <3>2, SMTT(60) DEF Busy
  <2> QED BY <2>4, <2>5, Zenon
<1>6. CASE RtWrite
  <2>1. rtStore' = rtStore /\ raced' = raced /\ rtQueue' = rtQueue /\ rpcSub' = rpcSub
    BY <1>6, Zenon DEF RtWrite, sources
  <2>2. PICK e : e = rtSub.event
    BY Zenon
  <2>3. /\ rtSub.key \in Keys /\ rtSub' = Idle /\ rtSub # Idle /\ e \in RtEvent
        /\ Ip[rtSub.key] = PodIp[e.pod]
    BY <1>6, <2>2, RtLeaves, SMTT(60)
  <2>4. e.pod \in Pods /\ (e.type = "upsert" => e.data \in RtData)
    BY <2>3, Zenon DEF RtEvent
  <2>5. CASE k = rtSub.key
    <3>1. ~RtQueued(e.pod)
      BY <2>1, <2>3, <2>5, SMTT(60) DEF RtPending, RtQueued
    <3>2. Tells(e, rtStore[e.pod])
      BY <2>2, <2>3, <2>4, <3>1 DEF EventsTell, RtHandTells
    <3>3. /\ e.type = "delete" => PodsAt(k) = {} /\ PodData(k) = {None}
          /\ e.type = "upsert" => PodData(k) = {e.data}
      BY <2>3, <2>4, <2>5, <3>2, LastPodEvent, Zenon
    <3>4. ~Busy(rpcSub, k)
      BY <2>1, <2>3, <2>5 DEF Hands, Busy
    <3>5. instances[k] \in Instance => instances[k].rpc \in RpcData \cup {None}
      BY SMTT(60) DEF Instance
    <3>6. \/ e.type = "upsert" /\ instances'[k] # None /\ instances'[k].rt = e.data
          \/ e.type = "delete" /\ instances'[k] # None /\ instances'[k].rt = None
          \/ e.type = "delete" /\ instances'[k] = None
      BY <1>6, <1>a, <1>b, <2>1, <2>2, <2>4, <2>5, <3>5, RtLeaves, SMTT(60)
    <3> QED BY <1>c, <2>1, <3>3, <3>4, <3>6, Zenon DEF Busy
  <2>6. CASE k # rtSub.key
    <3>1. instances'[k] = instances[k]
      BY <1>6, <2>6, RtLeaves
    <3>2. PodIp[e.pod] # Ip[k]
      BY <2>3, <2>6, SMTT(60) DEF OwnAddresses
    <3>3. ~RtPending(k)
      BY <2>1, <2>2, <3>2 DEF RtPending
    <3> QED BY <1>0, <1>c, <2>1, <3>1, <3>3, SMTT(60) DEF Busy
  <2> QED BY <2>5, <2>6, Zenon
<1>7. CASE \/ NacosDelete \/ \E list \in [Keys -> RpcData \cup {None}] : NacosNotice(list)
           \/ CountList \/ CountGet \/ CountWrite \/ \E s \in Metas : MetaGet(s) \/ MetaAdd(s)
           \/ UNCHANGED vars
  <2>1. UNCHANGED <<instances, rtStore, raced, rtQueue, rtSub, rpcSub>>
    BY <1>7, CountersAreApart, Zenon DEF NacosDelete, NacosNotice
  <2> QED BY <1>0, <1>c, <2>1, Zenon DEF RtPending, Busy
<1> QED BY <1>1, <1>2, <1>3, <1>4, <1>5, <1>6, <1>7, SMTT(60) DEF Next
-----------------------------------------------------------------------------
(* The Instances show their sources                                         *)

\* No write leaves an Instance without a source.
LEMMA StepNoEmptyInstance == TypeInv /\ NoEmptyInstance /\ [Next]_vars => NoEmptyInstance'
<1> SUFFICES ASSUME TypeInv, NoEmptyInstance, [Next]_vars PROVE NoEmptyInstance'
  BY Zenon
<1> DEFINE empty == [rpc |-> None, rt |-> None]
<1>a. /\ None \notin RpcData /\ None \notin RtData /\ Timed \subseteq RpcData /\ None # empty
      /\ instances \in [Keys -> Instance \cup {None}]
  BY SyncAssumption DEF TypeInv, TypeOK, Instance
<1>b. \A x, y : [rpc |-> x, rt |-> y] = empty => x = None /\ y = None
  BY Zenon
<1> HIDE DEF empty
<1>c. \A k \in Keys : instances[k] # empty
  BY Zenon DEF NoEmptyInstance, empty
<1>d. ASSUME NEW k \in Keys, NEW i, NEW n, i # empty,
             AddInstance(k, i) \/ UpdateInstance(k, i, n) \/ DeleteInstance(k)
      PROVE  \A l \in Keys : instances'[l] # empty
  BY <1>a, <1>c, <1>d, Zenon DEF AddInstance, UpdateInstance, DeleteInstance
<1>1. CASE RpcAdd
  <2>1. /\ rpcSub.key \in Keys /\ rpcSub.event \in RpcEvent /\ rpcSub.event.type = "upsert"
        /\ rpcSub.read.rpc = rpcSub.event.data
    BY <1>1, Zenon DEF RpcAdd, TypeInv, TypeOK, RpcInHand
  <2>2. rpcSub.read # empty
    BY <1>a, <2>1, SMTT(60) DEF RpcEvent, empty
  <2> QED BY <1>1, <1>d, <2>1, <2>2, Zenon DEF RpcAdd, NoEmptyInstance, empty
<1>2. CASE RpcWrite
  <2>1. /\ rpcSub.event \in RpcEvent /\ rpcSub.event.key \in Keys
        /\ rpcSub.read \in Instance
    BY <1>2, Zenon DEF RpcWrite, TypeInv, TypeOK, RpcInHand
  <2>2. rpcSub.event.type = "upsert" => [rpcSub.read EXCEPT !.rpc = rpcSub.event.data] # empty
    BY <1>a, <2>1, Zenon DEF RpcEvent, Instance, empty
  <2>3. HasRuntimeInstanceSource([rpcSub.read EXCEPT !.rpc = None]) => [rpcSub.read EXCEPT !.rpc = None] # empty
    BY Zenon DEF HasRuntimeInstanceSource, empty
  <2>4. instances[rpcSub.event.key] # empty
    BY <1>c, <2>1, Zenon
  <2>5. \A l \in Keys : instances'[l] # empty
    BY <1>2, <1>a, <1>c, <1>d, <2>1, <2>2, <2>3, Zenon DEF RpcWrite, DeleteInstance
  <2> QED BY <2>5, Zenon DEF NoEmptyInstance, empty
<1>3. CASE RtWrite
  <2>1. /\ rtSub.event \in RtEvent /\ rtSub.key \in Keys /\ rtSub.read \in Instance \cup {None}
        /\ rtSub.read = None => rtSub.event.type = "upsert"
    BY <1>3, Zenon DEF RtWrite, TypeInv, TypeOK, RtInHand
  <2>2. rtSub.event.type = "upsert" => [rpc |-> None, rt |-> rtSub.event.data] # empty
    BY <1>a, <1>b, <2>1 DEF RtEvent
  <2>3. rtSub.read \in Instance /\ rtSub.event.type = "upsert" => [rtSub.read EXCEPT !.rt = rtSub.event.data] # empty
    BY <1>a, <2>1, Zenon DEF RtEvent, Instance, empty
  <2>4. HasRPCInstanceSource([rtSub.read EXCEPT !.rt = None]) => [rtSub.read EXCEPT !.rt = None] # empty
    BY <1>a, Zenon DEF HasRPCInstanceSource, empty
  <2>5. \A l \in Keys : instances'[l] # empty
    BY <1>3, <1>a, <1>c, <1>d, <2>1, <2>2, <2>3, <2>4, ZenonT(60) DEF RtWrite, DeleteInstance
  <2> QED BY <2>5, Zenon DEF NoEmptyInstance, empty
<1>4. CASE RpcGet \/ RpcFind \/ RtGet
  <2>1. instances' = instances
    BY <1>4, Zenon DEF RpcGet, RpcFind, RtGet
  <2> QED BY <2>1, Zenon DEF NoEmptyInstance
<1>5. CASE UNCHANGED instances
  BY <1>5, Zenon DEF NoEmptyInstance
<1> QED BY <1>1, <1>2, <1>3, <1>4, <1>5, SourcesAreApart, CountersAreApart, SMTT(60) DEF Next

\* Once the events of a registration have been handled, its Instance shows the
\* registration the RPC instance store has, for as long as the Instance has not
\* been in both subscribers' hands: processUpsert and processDelete read the
\* Instance, merge the last event, which tells what the store has, and write it
\* back before the other subscriber reads it.  Pods may share addresses.
THEOREM RegistrationsAreShown == Spec => []RegistrationShown
<1> DEFINE RegInv == EventsTell /\ Hands /\ RegistrationShown
<1>1. Init => RegInv
  BY DEF Init, EventsTell, RpcQueueTells, RpcHandTells, RtQueueTells, RtHandTells, Hands, Busy, RegistrationShown
<1>2. TypeInv /\ RegInv /\ [Next]_vars => RegInv'
  BY StepTypeInv, StepEventsTell, StepHands, StepRegistrationShown, Zenon
<1>3. RegInv => RegistrationShown
  BY Zenon
<1> QED BY <1>1, <1>2, <1>3, TypeInvHolds, PTL DEF Spec

\* With addresses that are not shared, an Instance shows exactly its two
\* sources, whatever the order in which the two subscribers handle their events:
\* the registration, the pod, and never neither of them.
THEOREM SourcesAreShown ==
  ASSUME OwnAddresses
  PROVE  Spec => []SourcesShown
<1> DEFINE Inv == EventsTell /\ Hands /\ PodInv /\ NoEmptyInstance
<1>1. Init => Inv
  <2> SUFFICES ASSUME Init PROVE Inv
    BY SMTT(60)
  <2>1. EventsTell /\ Hands
    BY SMTT(60) DEF Init, EventsTell, RpcQueueTells, RpcHandTells, RtQueueTells, RtHandTells, Hands, Busy
  <2>2. PodInv
    BY Zenon DEF Init, PodInv, PodsAt, Busy
  <2>3. NoEmptyInstance
    BY SyncAssumption DEF Init, NoEmptyInstance, Instance
  <2> QED BY <2>1, <2>2, <2>3, Zenon
<1>2. TypeInv /\ Inv /\ [Next]_vars => Inv'
  BY StepTypeInv, StepEventsTell, StepHands, StepPodInv, StepNoEmptyInstance, Zenon
<1>3. TypeInv /\ Inv /\ RegistrationShown => SourcesShown
  BY PodInvShows, Zenon DEF TypeInv, SourcesShown
<1> QED BY <1>1, <1>2, <1>3, TypeInvHolds, RegistrationsAreShown, PTL DEF Spec
=============================================================================
