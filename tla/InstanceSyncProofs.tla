------------------------- MODULE InstanceSyncProofs -------------------------
(***************************************************************************)
(* Proofs about InstanceSync, for any number of instances, pods, metadata  *)
(* subscribers and events: types, what the Application's counter says, and *)
(* that the last event about a resource tells what the store has of it.    *)
(***************************************************************************)
EXTENDS InstanceSync, FiniteSetTheorems, SequenceTheorems, TLAPS

\* What the RPC subscriber has in hand fits the step it is at.
RpcInHand ==
  rpcSub # Idle =>
    /\ rpcSub.key = rpcSub.event.key
    /\ rpcSub.at \in {"find", "add"} => rpcSub.event.type = "upsert"
    /\ rpcSub.at = "find" => rpcSub.read = None
    /\ rpcSub.at = "write" => rpcSub.read # None
    /\ rpcSub.at = "add" => rpcSub.read # None /\ rpcSub.read.rpc = rpcSub.event.data

\* The runtime subscriber writes the Instance at its pod's address; only an
\* upsert makes a new one.
RtInHand ==
  rtSub # Idle =>
    /\ Ip[rtSub.key] = PodIp[rtSub.event.pod]
    /\ rtSub.read = None => rtSub.event.type = "upsert"

TypeInv == TypeOK /\ RpcInHand /\ RtInHand

-----------------------------------------------------------------------------
(* Types                                                                    *)

LEMMA InitTypeInv == Init => TypeInv
<1> SUFFICES ASSUME Init PROVE TypeInv
  BY Zenon
<1> USE SyncAssumption DEF Init
<1>1. TypeOK
  <2>1. rpcQueue \in Seq(RpcEvent) /\ rtQueue \in Seq(RtEvent)
    OBVIOUS
  <2>2. metaSub \in [Metas -> {Idle, [at |-> "add"]}] /\ metas \in [Metas -> 0 .. MaxMetas]
    OBVIOUS
  <2>3. /\ rpcStore \in [Keys -> RpcData \cup {None}] /\ rtStore \in [Pods -> RtData \cup {None}]
        /\ instances \in [Keys -> Instance \cup {None}]
    BY Zenon
  <2>4. /\ app \in Nat \cup {None} /\ recounts \in Nat /\ raced \subseteq Keys
        /\ notices \in 0 .. MaxNotices /\ podEvents \in 0 .. MaxPodEvents
    OBVIOUS
  <2>5. rpcSub = Idle /\ rtSub = Idle /\ countSub = Idle /\ collided \in BOOLEAN
    BY Zenon
  <2> QED BY <2>1, <2>2, <2>3, <2>4, <2>5, Zenon DEF TypeOK
<1>2. RpcInHand /\ RtInHand
  BY Zenon DEF RpcInHand, RtInHand
<1> QED BY <1>1, <1>2, Zenon DEF TypeInv

\* The keys in a list of a set's elements.
LEMMA ListedKeys ==
  ASSUME NEW S \in SUBSET Keys, NEW s \in Orders(S)
  PROVE  /\ s \in [1 .. Cardinality(S) -> S] /\ Cardinality(S) \in Nat
         /\ s \in Seq(Keys) /\ DOMAIN s = 1 .. Len(s)
         /\ \A k \in S : \E i \in DOMAIN s : s[i] = k
         /\ \A i \in DOMAIN s : s[i] \in S
<1> DEFINE n == Cardinality(S)
<1>1. IsFiniteSet(S) /\ n \in Nat
  BY SyncAssumption, FS_Subset, FS_CardinalityType, Zenon
<1>2. s \in [1 .. n -> S] /\ \A k \in S : \E i \in 1 .. n : s[i] = k
  BY Zenon DEF Orders, Bijection, Surjection
<1> HIDE DEF n
<1>3. s \in [1 .. n -> Keys]
  BY <1>2, Zenon
<1>4. s \in Seq(Keys) /\ DOMAIN s = 1 .. Len(s)
  BY <1>1, <1>3, SeqDef, LenProperties
<1> QED BY <1>1, <1>2, <1>4, Zenon DEF n

LEMMA OfflineEvents ==
  ASSUME NEW S \in SUBSET Keys, NEW s \in Orders(S)
  PROVE  [i \in DOMAIN s |-> Offline(s[i])] \in Seq(RpcEvent)
<1>1. /\ Cardinality(S) \in Nat /\ DOMAIN s = 1 .. Cardinality(S)
      /\ \A i \in DOMAIN s : s[i] \in S
  BY ListedKeys, Zenon
<1>2. \A i \in DOMAIN s : Offline(s[i]) \in RpcEvent
  BY <1>1, Zenon DEF Offline, RpcEvent
<1> QED BY <1>1, <1>2, SeqDef

LEMMA UpsertEvents ==
  ASSUME NEW S \in SUBSET Keys, NEW s \in Orders(S),
         NEW list, \A k \in S : list[k] \in RpcData
  PROVE  [i \in DOMAIN s |-> Upsert(s[i], list[s[i]])] \in Seq(RpcEvent)
<1>1. /\ Cardinality(S) \in Nat /\ DOMAIN s = 1 .. Cardinality(S)
      /\ \A i \in DOMAIN s : s[i] \in S
  BY ListedKeys, Zenon
<1>2. \A i \in DOMAIN s : Upsert(s[i], list[s[i]]) \in RpcEvent
  BY <1>1, Zenon DEF Upsert, RpcEvent
<1> QED BY <1>1, <1>2, SeqDef

\* A write changes one Instance, and announces it when there is one more or less.
LEMMA WriteOfInstance ==
  ASSUME TypeOK, NEW k \in Keys, NEW i \in Instance, NEW n \in {0, 1},
         AddInstance(k, i) \/ UpdateInstance(k, i, n) \/ DeleteInstance(k)
  PROVE  /\ instances' \in [Keys -> Instance \cup {None}]
         /\ recounts' \in Nat
         /\ recounts' > 0 \/ \A l \in Keys : instances'[l] = None <=> instances[l] = None
<1>1. instances \in [Keys -> Instance \cup {None}] /\ recounts \in Nat /\ None \notin Instance
  BY SyncAssumption, Zenon DEF TypeOK
<1>2. recounts + 1 > 0 /\ recounts + n \in Nat
  BY <1>1
<1>3. CASE AddInstance(k, i)
  BY <1>1, <1>2, <1>3 DEF AddInstance
<1>4. CASE UpdateInstance(k, i, n)
  BY <1>1, <1>2, <1>4, Zenon DEF UpdateInstance
<1>5. CASE DeleteInstance(k)
  BY <1>1, <1>2, <1>5 DEF DeleteInstance
<1> QED BY <1>3, <1>4, <1>5, Zenon

\* What the RPC subscriber writes is an Instance.
LEMMA RpcWritesInstance ==
  ASSUME TypeInv, RpcAdd \/ RpcWrite
  PROVE  \E k \in Keys, i \in Instance, n \in {0, 1} :
           AddInstance(k, i) \/ UpdateInstance(k, i, n) \/ DeleteInstance(k)
<1>1. /\ rpcSub.key \in Keys /\ rpcSub.event \in RpcEvent /\ rpcSub.event.key = rpcSub.key
      /\ rpcSub.read \in Instance
  BY Zenon DEF TypeInv, TypeOK, RpcInHand, RpcAdd, RpcWrite, Idle
<1>2. CASE RpcAdd
  BY <1>1, <1>2, Zenon DEF RpcAdd
<1>3. CASE RpcWrite
  <2>1. [rpcSub.read EXCEPT !.rpc = None] \in Instance
    BY <1>1, Zenon DEF Instance
  <2>2. rpcSub.event.type = "upsert" => [rpcSub.read EXCEPT !.rpc = rpcSub.event.data] \in Instance
    BY <1>1, Zenon DEF Instance, RpcEvent
  <2> QED BY <1>1, <1>3, <2>1, <2>2, Zenon DEF RpcWrite
<1> QED BY <1>2, <1>3, Zenon

LEMMA RtWritesInstance ==
  ASSUME TypeInv, RtWrite
  PROVE  \E k \in Keys, i \in Instance, n \in {0, 1} :
           AddInstance(k, i) \/ UpdateInstance(k, i, n) \/ DeleteInstance(k)
<1>1. /\ rtSub.key \in Keys /\ rtSub.event \in RtEvent /\ rtSub.read \in Instance \cup {None}
      /\ rtSub.read = None => rtSub.event.type = "upsert"
  BY Zenon DEF TypeInv, TypeOK, RtInHand, RtWrite, Idle
<1>2. rtSub.event.type = "upsert" => rtSub.event.data \in RtData
  BY <1>1, Zenon DEF RtEvent
<1>3. CASE rtSub.read = None
  <2>1. [rpc |-> None, rt |-> rtSub.event.data] \in Instance
    BY <1>1, <1>2, <1>3, Zenon DEF Instance
  <2> QED BY <1>1, <1>3, <2>1, Zenon DEF RtWrite
<1>4. CASE rtSub.read # None
  <2>1. [rtSub.read EXCEPT !.rt = None] \in Instance
    BY <1>1, <1>4, Zenon DEF Instance
  <2>2. rtSub.event.type = "upsert" => [rtSub.read EXCEPT !.rt = rtSub.event.data] \in Instance
    BY <1>1, <1>2, <1>4, Zenon DEF Instance
  <2> QED BY <1>1, <1>4, <2>1, <2>2, Zenon DEF RtWrite
<1> QED BY <1>3, <1>4, Zenon
LEMMA StepTypeInv == TypeInv /\ [Next]_vars => TypeInv'
<1> SUFFICES ASSUME TypeInv, [Next]_vars PROVE TypeInv'
  BY Zenon
<1>0. TypeOK /\ RpcInHand /\ RtInHand
  BY Zenon DEF TypeInv
<1>1. CASE UNCHANGED vars
  BY <1>0, <1>1 DEF vars, TypeInv, TypeOK, RpcInHand, RtInHand
<1>2. ASSUME NEW list \in [Keys -> RpcData \cup {None}], NacosNotice(list) PROVE TypeInv'
  <2> DEFINE old == {k \in Keys : rpcStore[k] # None}
             new == {k \in Keys : list[k] # None}
  <2>1. PICK gone \in Orders(old \ new), come \in Orders(new \ old), stay \in Orders(new \cap old) :
          rpcQueue' = rpcQueue \o [i \in DOMAIN gone |-> Offline(gone[i])]
                               \o [i \in DOMAIN come |-> Upsert(come[i], list[come[i]])]
                               \o [i \in DOMAIN stay |-> Upsert(stay[i], list[stay[i]])]
    BY <1>2, Zenon DEF NacosNotice
  <2>2. /\ [i \in DOMAIN gone |-> Offline(gone[i])] \in Seq(RpcEvent)
        /\ [i \in DOMAIN come |-> Upsert(come[i], list[come[i]])] \in Seq(RpcEvent)
        /\ [i \in DOMAIN stay |-> Upsert(stay[i], list[stay[i]])] \in Seq(RpcEvent)
    <3>1. \A k \in new : list[k] \in RpcData
      BY Zenon
    <3>2. /\ old \ new \in SUBSET Keys /\ new \ old \in SUBSET Keys /\ new \cap old \in SUBSET Keys
          /\ new \ old \subseteq new /\ new \cap old \subseteq new
      BY Zenon
    <3> HIDE DEF old, new
    <3>3. [i \in DOMAIN gone |-> Offline(gone[i])] \in Seq(RpcEvent)
      BY <3>2, OfflineEvents, Zenon
    <3>4. [i \in DOMAIN come |-> Upsert(come[i], list[come[i]])] \in Seq(RpcEvent)
      BY <3>1, <3>2, UpsertEvents, Zenon
    <3>5. [i \in DOMAIN stay |-> Upsert(stay[i], list[stay[i]])] \in Seq(RpcEvent)
      BY <3>1, <3>2, UpsertEvents, Zenon
    <3> QED BY <3>3, <3>4, <3>5, Zenon
  <2>3. rpcQueue' \in Seq(RpcEvent)
    <3>1. rpcQueue \in Seq(RpcEvent)
      BY <1>0, Zenon DEF TypeOK
    <3> QED BY <2>1, <2>2, <3>1, ConcatProperties, Zenon
  <2>4. rpcStore' \in [Keys -> RpcData \cup {None}] /\ notices' \in 0 .. MaxNotices
    BY <1>0, <1>2, SyncAssumption, SMTT(60) DEF NacosNotice, TypeOK
  <2> QED BY <1>0, <1>2, <2>3, <2>4, ZenonT(60) DEF NacosNotice, counting, TypeInv, TypeOK, RpcInHand, RtInHand
<1>3. CASE NacosDelete
  <2>1. PICK gone \in Orders({k \in Keys : rpcStore[k] # None}) :
          rpcQueue' = rpcQueue \o [i \in DOMAIN gone |-> Offline(gone[i])]
    BY <1>3, Zenon DEF NacosDelete
  <2>2. [i \in DOMAIN gone |-> Offline(gone[i])] \in Seq(RpcEvent)
    BY OfflineEvents, Zenon
  <2>3. rpcQueue' \in Seq(RpcEvent)
    BY <1>0, <2>1, <2>2, ConcatProperties, Zenon DEF TypeOK
  <2>4. rpcStore' \in [Keys -> RpcData \cup {None}] /\ notices' \in 0 .. MaxNotices
    BY <1>0, <1>3, SyncAssumption, SMTT(60) DEF NacosDelete, TypeOK
  <2> QED BY <1>0, <1>3, <2>3, <2>4 DEF NacosDelete, counting, TypeInv, TypeOK, RpcInHand, RtInHand
<1>4. ASSUME NEW p \in Pods, NEW d \in RtData, PodUpsert(p, d) PROVE TypeInv'
  <2>1. [type |-> "upsert", pod |-> p, data |-> d] \in RtEvent
    BY Zenon DEF RtEvent
  <2>2. rtQueue' \in Seq(RtEvent)
    BY <1>0, <1>4, <2>1, AppendProperties, Zenon DEF PodUpsert, TypeOK
  <2>3. rtStore' \in [Pods -> RtData \cup {None}] /\ podEvents' \in 0 .. MaxPodEvents
    BY <1>0, <1>4, SyncAssumption, SMTT(60) DEF PodUpsert, TypeOK
  <2> QED BY <1>0, <1>4, <2>2, <2>3 DEF PodUpsert, counting, TypeInv, TypeOK, RpcInHand, RtInHand
<1>5. ASSUME NEW p \in Pods, PodDelete(p) PROVE TypeInv'
  <2>1. [type |-> "delete", pod |-> p] \in RtEvent
    BY Zenon DEF RtEvent
  <2>2. rtQueue' \in Seq(RtEvent)
    BY <1>0, <1>5, <2>1, AppendProperties, Zenon DEF PodDelete, TypeOK
  <2>3. rtStore' \in [Pods -> RtData \cup {None}] /\ podEvents' \in 0 .. MaxPodEvents
    BY <1>0, <1>5, SyncAssumption, SMTT(60) DEF PodDelete, TypeOK
  <2> QED BY <1>0, <1>5, <2>2, <2>3, SMTT(60) DEF PodDelete, counting, TypeInv, TypeOK, RpcInHand, RtInHand
<1>6. CASE RpcGet
  <2> DEFINE e == Head(rpcQueue)
  <2>1. e \in RpcEvent /\ rpcQueue' \in Seq(RpcEvent)
    BY <1>0, <1>6, HeadTailProperties, Zenon DEF RpcGet, TypeOK
  <2>2. e.key \in Keys /\ e.type \in {"upsert", "delete"}
    BY <2>1, Zenon DEF RpcEvent
  <2> HIDE DEF e
  <2>3. instances[e.key] \in Instance \cup {None}
    BY <1>0, <2>2, Zenon DEF TypeOK
  <2>4. \/ rpcSub' = Idle
        \/ /\ instances[e.key] # None
           /\ rpcSub' = [at |-> "write", event |-> e, key |-> e.key, read |-> instances[e.key]]
        \/ /\ e.type = "upsert"
           /\ rpcSub' = [at |-> "find", event |-> e, key |-> e.key, read |-> None]
    BY <1>6, Zenon DEF RpcGet, e
  <2>5. rpcSub' \in {Idle} \cup [at : {"find", "add", "write"}, event : RpcEvent, key : Keys,
                                 read : Instance \cup {None}]
    BY <2>1, <2>2, <2>3, <2>4
  <2>6. RpcInHand'
    BY <2>2, <2>4 DEF RpcInHand, Idle
  <2>7. raced' \subseteq Keys
    BY <1>0, <1>6, <2>2, Zenon DEF RpcGet, TypeOK, e
  <2> QED
    BY <1>0, <1>6, <2>1, <2>5, <2>6, <2>7, Zenon
    DEF RpcGet, sources, counting, TypeInv, TypeOK, RtInHand
<1>7. CASE RpcFind
  <2>1. /\ rpcSub.key \in Keys /\ rpcSub.event \in RpcEvent /\ rpcSub.event.type = "upsert"
        /\ rpcSub.event.key = rpcSub.key
        /\ rpcSub \in [at : {"find", "add", "write"}, event : RpcEvent, key : Keys,
                       read : Instance \cup {None}]
    BY <1>0, <1>7, Zenon DEF TypeOK, RpcInHand, RpcFind
  <2>2. rpcSub.event.data \in RpcData
    BY <2>1, Zenon DEF RpcEvent
  <2>3. PICK i \in Instance :
          i.rpc = rpcSub.event.data /\ rpcSub' = [rpcSub EXCEPT !.at = "add", !.read = i]
    <3>1. ASSUME NEW p \in Pods PROVE [rpc |-> rpcSub.event.data, rt |-> rtStore[p]] \in Instance
      BY <1>0, <2>2, Zenon DEF TypeOK, Instance
    <3>2. [rpc |-> rpcSub.event.data, rt |-> None] \in Instance
      BY <2>2, Zenon DEF Instance
    <3>3. RuntimeFor(rpcSub.key) \subseteq Pods
      BY Zenon DEF RuntimeFor
    <3> QED BY <1>7, <3>1, <3>2, <3>3, Zenon DEF RpcFind
  <2>4. rpcSub' \in [at : {"find", "add", "write"}, event : RpcEvent, key : Keys,
                     read : Instance \cup {None}]
    BY <2>1, <2>3, Zenon
  <2>5. RpcInHand'
    BY <2>1, <2>3, SyncAssumption, SMTT(60) DEF RpcInHand
  <2> QED
    BY <1>0, <1>7, <2>4, <2>5, Zenon DEF RpcFind, sources, counting, TypeInv, TypeOK, RtInHand
<1>8. CASE RpcAdd \/ RpcWrite
  <2>1. instances' \in [Keys -> Instance \cup {None}] /\ recounts' \in Nat
    BY <1>0, <1>8, RpcWritesInstance, WriteOfInstance, Zenon
  <2>2. rpcSub' = Idle /\ UNCHANGED <<rpcQueue, rtQueue, rtSub, raced, collided, sources, counting>>
    BY <1>8, Zenon DEF RpcAdd, RpcWrite
  <2> QED
    BY <1>0, <2>1, <2>2, Zenon DEF sources, counting, TypeInv, TypeOK, RpcInHand, RtInHand
<1>9. CASE RtGet
  <2> DEFINE e == Head(rtQueue)
  <2>1. e \in RtEvent /\ rtQueue' \in Seq(RtEvent)
    BY <1>0, <1>9, HeadTailProperties, Zenon DEF RtGet, TypeOK
  <2>2. e.pod \in Pods
    BY <2>1, Zenon DEF RtEvent
  <2> HIDE DEF e
  <2>3. \A k \in Related(e.pod) : k \in Keys /\ instances[k] # None /\ Ip[k] = PodIp[e.pod]
    BY <2>2, SyncAssumption, Zenon DEF Related
  <2>4. \/ rtSub' = Idle
        \/ \E k \in Keys : /\ Ip[k] = PodIp[e.pod] /\ instances[k] # None
                           /\ rtSub' = [at |-> "write", event |-> e, key |-> k, read |-> instances[k]]
        \/ /\ e.type = "upsert" /\ PodKey[e.pod] # None
           /\ rtSub' = [at |-> "write", event |-> e, key |-> PodKey[e.pod], read |-> None]
    BY <1>9, <2>3, Zenon DEF RtGet, e
  <2>5. PodKey[e.pod] # None => PodKey[e.pod] \in Keys /\ Ip[PodKey[e.pod]] = PodIp[e.pod]
    BY <2>2, SyncAssumption, Zenon
  <2>6. rtSub' \in {Idle} \cup [at : {"write"}, event : RtEvent, key : Keys, read : Instance \cup {None}]
    BY <1>0, <2>1, <2>4, <2>5 DEF TypeOK
  <2>7. RtInHand'
    BY <2>4, <2>5, SMTT(60) DEF RtInHand, Idle
  <2>8. raced' \subseteq Keys
    BY <1>0, <1>9, Zenon DEF RtGet, TypeOK
  <2> QED
    BY <1>0, <1>9, <2>1, <2>6, <2>7, <2>8, Zenon
    DEF RtGet, sources, counting, TypeInv, TypeOK, RpcInHand
<1>10. CASE RtWrite
  <2>1. instances' \in [Keys -> Instance \cup {None}] /\ recounts' \in Nat
    BY <1>0, <1>10, RtWritesInstance, WriteOfInstance, Zenon
  <2> QED
    BY <1>0, <1>10, <2>1, ZenonT(60) DEF RtWrite, sources, counting, TypeInv, TypeOK, RpcInHand, RtInHand
<1>11. CASE CountList
  <2> DEFINE n == Cardinality({k \in Keys : instances[k] # None})
  <2>1. n \in 0 .. Cardinality(Keys)
    BY SyncAssumption, FS_Subset, FS_CardinalityType
  <2> HIDE DEF n
  <2>2. countSub' \in [at : {"get", "add", "update"}, count : 0 .. Cardinality(Keys)]
    BY <1>11, <2>1, Zenon DEF CountList, n
  <2>3. recounts' \in Nat
    BY <1>0, <1>11 DEF CountList, TypeOK
  <2> QED
    BY <1>0, <1>11, <2>2, <2>3, SMTT(60)
    DEF CountList, sources, merging, TypeInv, TypeOK, RpcInHand, RtInHand
<1>12. CASE CountGet
  <2>1. countSub' \in [at : {"get", "add", "update"}, count : 0 .. Cardinality(Keys)]
    BY <1>0, <1>12, Zenon DEF CountGet, TypeOK
  <2> QED
    BY <1>0, <1>12, <2>1, Zenon DEF CountGet, sources, merging, TypeInv, TypeOK, RpcInHand, RtInHand
<1>13. CASE CountWrite
  <2>1. app' \in Nat \cup {None} /\ collided' \in BOOLEAN
    <3>1. countSub.count \in Nat
      BY <1>0, <1>13, SyncAssumption, FS_CardinalityType DEF CountWrite, TypeOK
    <3> QED BY <1>0, <1>13, <3>1, Zenon DEF CountWrite, TypeOK
  <2> QED
    BY <1>0, <1>13, <2>1, Zenon DEF CountWrite, sources, merging, TypeInv, TypeOK, RpcInHand, RtInHand
<1>14. ASSUME NEW s \in Metas, MetaGet(s) PROVE TypeInv'
  <2>1. /\ metas' \in [Metas -> 0 .. MaxMetas]
        /\ metaSub' \in [Metas -> {Idle, [at |-> "add"]}]
    BY <1>0, <1>14, SyncAssumption, SMTT(60) DEF MetaGet, TypeOK
  <2> QED
    BY <1>0, <1>14, <2>1, ZenonT(60) DEF MetaGet, sources, merging, TypeInv, TypeOK, RpcInHand, RtInHand
<1>15. ASSUME NEW s \in Metas, MetaAdd(s) PROVE TypeInv'
  <2>1. metaSub' \in [Metas -> {Idle, [at |-> "add"]}] /\ app' \in Nat \cup {None}
    BY <1>0, <1>15 DEF MetaAdd, TypeOK
  <2>2. collided' \in BOOLEAN
    BY <1>0, <1>15, Zenon DEF MetaAdd, TypeOK
  <2> QED
    BY <1>0, <1>15, <2>1, <2>2, SMTT(60) DEF MetaAdd, sources, merging, TypeInv, TypeOK, RpcInHand, RtInHand
<1> QED
  BY <1>1, <1>2, <1>3, <1>4, <1>5, <1>6, <1>7, <1>8, <1>9, <1>10, <1>11, <1>12, <1>13, <1>14, <1>15, SMTT(60)
  DEF Next

LEMMA TypeInvHolds == Spec => []TypeInv
  BY InitTypeInv, StepTypeInv, PTL DEF Spec
-----------------------------------------------------------------------------
(* The Application's counter                                                *)

Present == {k \in Keys : instances[k] # None}

\* CountIsCurrent is kept by knowing what a recount under way has found: it is
\* current unless another one is waiting, and it is lost only when collided.
CountInv ==
  /\ recounts = 0 /\ countSub = Idle /\ ~collided =>
       app = Cardinality(Present) \/ (app = None /\ Cardinality(Present) = 0)
  /\ recounts = 0 /\ countSub # Idle => countSub.count = Cardinality(Present)
  /\ app = None => ~collided
  /\ countSub # Idle /\ countSub.at = "update" => app # None
  /\ countSub # Idle /\ countSub.at = "add" /\ app # None => collided

\* Whoever changes the set of Instances leaves an event behind.
LEMMA StepOfPresent ==
  ASSUME TypeInv, Next
  PROVE  \/ /\ recounts' \in Nat
            /\ recounts' > 0 \/ (Present' = Present /\ recounts' = recounts)
            /\ UNCHANGED <<app, countSub, collided>>
         \/ /\ Present' = Present
            /\ CountList \/ CountGet \/ CountWrite \/ \E s \in Metas : MetaAdd(s)
<1>1. CASE CountList \/ CountGet \/ CountWrite \/ \E s \in Metas : MetaAdd(s)
  BY <1>1, Zenon DEF CountList, CountGet, CountWrite, MetaAdd, merging, Present
<1>2. CASE RpcAdd \/ RpcWrite \/ RtWrite
  <2>1. /\ recounts' \in Nat
        /\ recounts' > 0 \/ \A l \in Keys : instances'[l] = None <=> instances[l] = None
    BY <1>2, RpcWritesInstance, RtWritesInstance, WriteOfInstance, Zenon DEF TypeInv
  <2>2. recounts' > 0 \/ recounts' = recounts
    <3>1. recounts \in Nat
      BY Zenon DEF TypeInv, TypeOK
    <3>2. \E n \in {0, 1} : recounts' = recounts + n
      BY <1>2, <3>1
      DEF RpcAdd, RpcWrite, RtWrite, AddInstance, UpdateInstance, DeleteInstance
    <3> QED BY <3>1, <3>2
  <2>3. UNCHANGED <<app, countSub, collided>>
    BY <1>2, Zenon DEF RpcAdd, RpcWrite, RtWrite, counting
  <2> QED BY <2>1, <2>2, <2>3, Zenon DEF Present
<1>3. CASE RpcGet \/ RpcFind \/ RtGet
  BY <1>3, Zenon DEF RpcGet, RpcFind, RtGet, counting, Present, TypeInv, TypeOK
<1>4. CASE \/ \E list \in [Keys -> RpcData \cup {None}] : NacosNotice(list)
           \/ NacosDelete
           \/ \E p \in Pods, d \in RtData : PodUpsert(p, d)
           \/ \E p \in Pods : PodDelete(p)
  BY <1>4, Zenon DEF NacosNotice, NacosDelete, PodUpsert, PodDelete, counting, Present, TypeInv, TypeOK
<1>5. ASSUME NEW s \in Metas, MetaGet(s)
      PROVE  /\ recounts' = recounts /\ Present' = Present
             /\ UNCHANGED <<app, countSub, collided>>
  BY <1>5, Zenon DEF MetaGet, merging, Present
<1>6. recounts \in Nat
  BY Zenon DEF TypeInv, TypeOK
<1> QED BY <1>1, <1>2, <1>3, <1>4, <1>5, <1>6, Zenon DEF Next

LEMMA StepCountInv == TypeInv /\ CountInv /\ [Next]_vars => CountInv'
<1> SUFFICES ASSUME TypeInv, CountInv, [Next]_vars PROVE CountInv'
  BY Zenon
<1>0. /\ recounts \in Nat /\ app \in Nat \cup {None} /\ None \notin Nat /\ collided \in BOOLEAN
      /\ countSub \in {Idle} \cup [at : {"get", "add", "update"}, count : 0 .. Cardinality(Keys)]
      /\ Cardinality(Keys) \in Nat
  BY SyncAssumption, FS_CardinalityType, Zenon DEF TypeInv, TypeOK
<1> DEFINE n == Cardinality(Present)
<1>1. n \in Nat /\ (Present' = Present => n' = n)
  BY SyncAssumption, FS_Subset, FS_CardinalityType, Zenon DEF Present
<1> HIDE DEF n
<1>2. CASE UNCHANGED vars
  BY <1>2, Zenon DEF vars, CountInv, Present
<1>3. CASE recounts' \in Nat /\ recounts' > 0 /\ UNCHANGED <<app, countSub, collided>>
  BY <1>3 DEF CountInv
<1>4. CASE Present' = Present /\ recounts' = recounts /\ UNCHANGED <<app, countSub, collided>>
  BY <1>4, Zenon DEF CountInv
<1>5. CASE CountList /\ Present' = Present
  <2>1. countSub' = [at |-> "get", count |-> n]
    BY <1>5, Zenon DEF CountList, n, Present
  <2>2. app' = app /\ collided' = collided
    BY <1>5, Zenon DEF CountList
  <2> QED BY <1>1, <1>5, <2>1, <2>2, Zenon DEF CountInv, n, Idle
<1>6. CASE CountGet /\ Present' = Present
  <2>1. /\ countSub' = [countSub EXCEPT !.at = IF app = None THEN "add" ELSE "update"]
        /\ countSub # Idle /\ app' = app /\ collided' = collided /\ recounts' = recounts
    BY <1>6, Zenon DEF CountGet
  <2>2. countSub'.count = countSub.count /\ countSub'.at = (IF app = None THEN "add" ELSE "update")
    BY <1>0, <2>1, Zenon
  <2>3. countSub' # Idle
    BY <2>2 DEF Idle
  <2> QED BY <1>0, <1>1, <1>6, <2>1, <2>2, <2>3, Zenon DEF CountInv, n
<1>7. CASE CountWrite /\ Present' = Present
  <2>1. countSub' = Idle /\ recounts' = recounts /\ countSub # Idle
    BY <1>7, Zenon DEF CountWrite
  <2>2. CASE app' = countSub.count /\ collided' = FALSE
    <3>1. app' \in Nat
      BY <1>0, <2>1, <2>2
    <3>2. recounts = 0 => app' = n
      BY <2>1, <2>2, Zenon DEF CountInv, n
    <3> QED BY <1>0, <1>1, <1>7, <2>1, <2>2, <3>1, <3>2, Zenon DEF CountInv, n
  <2>3. CASE countSub.at = "add" /\ app # None /\ UNCHANGED <<app, collided>>
    BY <1>0, <1>7, <2>1, <2>3, Zenon DEF CountInv
  <2> QED BY <1>7, <2>2, <2>3, Zenon DEF CountWrite
<1>8. ASSUME NEW s \in Metas, MetaAdd(s), Present' = Present PROVE CountInv'
  <2>1. recounts' = recounts /\ countSub' = countSub
    BY <1>8, Zenon DEF MetaAdd
  <2>2. CASE app # None /\ UNCHANGED <<app, collided>>
    BY <1>8, <2>1, <2>2, Zenon DEF CountInv
  <2>3. CASE /\ app = None /\ app' = 0
             /\ collided' = (countSub # Idle /\ countSub.at = "add")
    <3>1. ~collided
      BY <2>3, Zenon DEF CountInv
    <3>2. recounts = 0 /\ countSub = Idle => n = 0
      BY <1>0, <1>1, <2>3, <3>1, Zenon DEF CountInv, n
    <3>3. app' # None
      BY <1>0, <2>3
    <3>4. countSub # Idle => countSub.at # "update"
      BY <2>3, Zenon DEF CountInv
    <3>5. recounts = 0 /\ countSub # Idle => countSub.count = n
      BY Zenon DEF CountInv, n
    <3> QED BY <1>1, <1>8, <2>1, <2>3, <3>2, <3>3, <3>4, <3>5, Zenon DEF CountInv, n
  <2> QED BY <1>8, <2>2, <2>3, Zenon DEF MetaAdd
<1> QED BY <1>2, <1>3, <1>4, <1>5, <1>6, <1>7, <1>8, StepOfPresent, Zenon

\* When no Instance event is waiting the Application's InstanceCount is the
\* number of Instances, for any number of instances, pods and metadata
\* subscribers and however they interleave, unless a metadata subscriber
\* created the Application between the check and the Add of the last recount.
THEOREM CountsAreCurrent == Spec => []CountIsCurrent
<1>1. Init => CountInv
  <2> SUFFICES ASSUME Init PROVE CountInv
    BY Zenon
  <2>1. Present = {}
    BY Zenon DEF Init, Present
  <2>2. Cardinality(Present) = 0
    BY <2>1, FS_EmptySet, Zenon
  <2> QED BY <2>2, Zenon DEF Init, CountInv
<1>2. CountInv => CountIsCurrent
  BY Zenon DEF CountInv, CountIsCurrent, Present
<1> QED BY <1>1, <1>2, StepCountInv, TypeInvHolds, PTL DEF Spec
-----------------------------------------------------------------------------
(* Events tell the stores                                                   *)

\* The event says that a store has data d of the resource it is about.
Tells(e, d) == IF d = None THEN e.type = "delete" ELSE e.type = "upsert" /\ e.data = d

RpcQueued(k) == \E i \in DOMAIN rpcQueue : rpcQueue[i].key = k

\* The last event about a registration, in the queue or else in hand, says what
\* the RPC instance store has.
RpcQueueTells ==
  \A k \in Keys : \A i \in DOMAIN rpcQueue :
    rpcQueue[i].key = k /\ (\A j \in DOMAIN rpcQueue : j > i => rpcQueue[j].key # k)
      => Tells(rpcQueue[i], rpcStore[k])

RpcHandTells ==
  \A k \in Keys : Busy(rpcSub, k) /\ ~RpcQueued(k) => Tells(rpcSub.event, rpcStore[k])

RtQueued(p) == \E i \in DOMAIN rtQueue : rtQueue[i].pod = p

\* The same of the events about a pod and the runtime instance store.
RtQueueTells ==
  \A p \in Pods : \A i \in DOMAIN rtQueue :
    rtQueue[i].pod = p /\ (\A j \in DOMAIN rtQueue : j > i => rtQueue[j].pod # p)
      => Tells(rtQueue[i], rtStore[p])

RtHandTells ==
  \A p \in Pods :
    rtSub # Idle /\ rtSub.event.pod = p /\ ~RtQueued(p) => Tells(rtSub.event, rtStore[p])

EventsTell == RpcQueueTells /\ RpcHandTells /\ RtQueueTells /\ RtHandTells

\* The positions of a concatenation.
LEMMA PositionsOfConcat ==
  ASSUME NEW E, NEW s \in Seq(E), NEW t \in Seq(E)
  PROVE  /\ s \o t \in Seq(E)
         /\ \A i \in DOMAIN s : i \in DOMAIN (s \o t) /\ (s \o t)[i] = s[i]
         /\ \A i \in DOMAIN t : Len(s) + i \in DOMAIN (s \o t) /\ (s \o t)[Len(s) + i] = t[i]
         /\ \A i \in DOMAIN (s \o t) :
              (i \in DOMAIN s /\ (s \o t)[i] = s[i]) \/ \E j \in DOMAIN t : i = Len(s) + j /\ (s \o t)[i] = t[j]
<1>1. /\ s \o t \in Seq(E) /\ Len(s \o t) = Len(s) + Len(t)
      /\ \A i \in 1 .. Len(s) + Len(t) : (s \o t)[i] = IF i <= Len(s) THEN s[i] ELSE t[i - Len(s)]
  BY ConcatProperties, Zenon
<1>2. /\ Len(s) \in Nat /\ Len(t) \in Nat /\ DOMAIN s = 1 .. Len(s) /\ DOMAIN t = 1 .. Len(t)
      /\ DOMAIN (s \o t) = 1 .. Len(s) + Len(t)
  BY <1>1, LenProperties, Zenon
<1> DEFINE u == s \o t
<1> HIDE DEF u
<1>3. /\ DOMAIN u = 1 .. Len(s) + Len(t)
      /\ \A i \in 1 .. Len(s) + Len(t) : u[i] = IF i <= Len(s) THEN s[i] ELSE t[i - Len(s)]
  BY <1>1, <1>2, Zenon DEF u
<1>4. \A i \in DOMAIN s : i \in DOMAIN u /\ u[i] = s[i]
  BY <1>2, <1>3
<1>5. \A i \in DOMAIN t : Len(s) + i \in DOMAIN u /\ u[Len(s) + i] = t[i]
  BY <1>2, <1>3
<1>6. ASSUME NEW i \in DOMAIN u
      PROVE  (i \in DOMAIN s /\ u[i] = s[i]) \/ \E j \in DOMAIN t : i = Len(s) + j /\ u[i] = t[j]
  <2>1. CASE i <= Len(s)
    BY <1>2, <1>3, <2>1
  <2>2. CASE ~(i <= Len(s))
    <3>1. i - Len(s) \in DOMAIN t /\ u[i] = t[i - Len(s)] /\ i = Len(s) + (i - Len(s))
      BY <1>2, <1>3, <2>2
    <3> QED BY <3>1, Zenon
  <2> QED BY <2>1, <2>2, Zenon
<1> QED BY <1>1, <1>4, <1>5, <1>6, Zenon DEF u

\* The events b tell what the list has, and there is one for every key of S.
Announce(b, list, S) ==
  /\ b \in Seq(RpcEvent)
  /\ \A i \in DOMAIN b : Tells(b[i], list[b[i].key])
  /\ \A k \in S : \E i \in DOMAIN b : b[i].key = k

\* A queue that grows by events which tell the new content of the store, about
\* every key whose content may have changed, still tells it.
LEMMA NoticeTells ==
  ASSUME TypeInv, RpcQueueTells, RpcHandTells, rpcSub' = rpcSub,
         NEW list \in [Keys -> RpcData \cup {None}], rpcStore' = list,
         NEW b, rpcQueue' = rpcQueue \o b,
         Announce(b, list, {k \in Keys : rpcStore[k] # None \/ list[k] # None})
  PROVE  /\ RpcQueueTells' /\ RpcHandTells'
         /\ \A k \in Keys : RpcQueued(k) => RpcQueued(k)'
         /\ \A k \in Keys : RpcQueued(k)' \/ rpcStore'[k] = rpcStore[k]
<1>0. /\ b \in Seq(RpcEvent)
      /\ \A i \in DOMAIN b : Tells(b[i], list[b[i].key])
      /\ \A k \in Keys : rpcStore[k] # None \/ list[k] # None => \E i \in DOMAIN b : b[i].key = k
  BY Zenon DEF Announce
<1>1. /\ rpcQueue \in Seq(RpcEvent) /\ Len(rpcQueue) \in Nat /\ DOMAIN rpcQueue = 1 .. Len(rpcQueue)
      /\ DOMAIN b = 1 .. Len(b) /\ Len(b) \in Nat
  BY <1>0, LenProperties, Zenon DEF TypeInv, TypeOK
<1>2. /\ \A i \in DOMAIN rpcQueue : i \in DOMAIN rpcQueue' /\ rpcQueue'[i] = rpcQueue[i]
      /\ \A i \in DOMAIN b : Len(rpcQueue) + i \in DOMAIN rpcQueue' /\ rpcQueue'[Len(rpcQueue) + i] = b[i]
      /\ \A i \in DOMAIN rpcQueue' :
           \/ i \in DOMAIN rpcQueue /\ rpcQueue'[i] = rpcQueue[i]
           \/ \E j \in DOMAIN b : i = Len(rpcQueue) + j /\ rpcQueue'[i] = b[j]
  <2> DEFINE q == rpcQueue \o b
  <2>1. /\ \A i \in DOMAIN rpcQueue : i \in DOMAIN q /\ q[i] = rpcQueue[i]
        /\ \A i \in DOMAIN b : Len(rpcQueue) + i \in DOMAIN q /\ q[Len(rpcQueue) + i] = b[i]
        /\ \A i \in DOMAIN q :
             \/ i \in DOMAIN rpcQueue /\ q[i] = rpcQueue[i]
             \/ \E j \in DOMAIN b : i = Len(rpcQueue) + j /\ q[i] = b[j]
    <3>1. rpcQueue \in Seq(RpcEvent) /\ b \in Seq(RpcEvent)
      BY <1>0, <1>1, Zenon
    <3> QED BY <3>1, PositionsOfConcat
  <2>2. rpcQueue' = q
    BY Zenon
  <2> HIDE DEF q
  <2> QED BY <2>1, <2>2, Zenon
<1>3. \A k \in Keys : RpcQueued(k) => RpcQueued(k)'
  BY <1>2, Zenon DEF RpcQueued
<1>4. ASSUME NEW k \in Keys, rpcStore[k] # None \/ list[k] # None PROVE RpcQueued(k)'
  <2>1. PICK i \in DOMAIN b : b[i].key = k
    BY <1>0, <1>4, Zenon
  <2>2. Len(rpcQueue) + i \in DOMAIN rpcQueue' /\ rpcQueue'[Len(rpcQueue) + i].key = k
    BY <1>2, <2>1, SMTT(60)
  <2> QED BY <2>2, Zenon DEF RpcQueued
<1>5. RpcQueueTells'
  <2> SUFFICES ASSUME NEW k \in Keys, NEW i \in DOMAIN rpcQueue', rpcQueue'[i].key = k,
                      \A j \in DOMAIN rpcQueue' : j > i => rpcQueue'[j].key # k
               PROVE  Tells(rpcQueue'[i], list[k])
    BY SMTT(60) DEF RpcQueueTells, Tells
  <2>1. CASE \E j \in DOMAIN b : i = Len(rpcQueue) + j /\ rpcQueue'[i] = b[j]
    BY <1>0, <2>1, Zenon
  <2>2. CASE i \in DOMAIN rpcQueue /\ rpcQueue'[i] = rpcQueue[i]
    <3>1. \A j \in DOMAIN b : Len(rpcQueue) + j > i
      BY <1>1, <2>2
    <3>2. ~(\E j \in DOMAIN b : b[j].key = k)
      BY <1>2, <3>1, SMTT(60)
    <3>3. rpcStore[k] = None /\ list[k] = None
      BY <1>0, <3>2, Zenon
    <3>4. \A j \in DOMAIN rpcQueue : j > i => rpcQueue[j].key # k
      BY <1>2, Zenon
    <3>5. Tells(rpcQueue[i], rpcStore[k])
      BY <2>2, <3>4, Zenon DEF RpcQueueTells
    <3> QED BY <2>2, <3>3, <3>5, Zenon
  <2> QED BY <1>2, <2>1, <2>2, SMTT(60)
<1>6. RpcHandTells'
  <2> SUFFICES ASSUME NEW k \in Keys, Busy(rpcSub, k), ~RpcQueued(k)'
               PROVE  Tells(rpcSub.event, list[k])
    BY Zenon DEF RpcHandTells, Busy, Tells
  <2>1. ~RpcQueued(k) /\ rpcStore[k] = None /\ list[k] = None
    BY <1>3, <1>4, Zenon
  <2>2. Tells(rpcSub.event, rpcStore[k])
    BY <2>1, Zenon DEF RpcHandTells
  <2> QED BY <2>1, <2>2, SMTT(60)
<1> QED BY <1>3, <1>4, <1>5, <1>6, Zenon
\* The events made of a set's elements are about all of them, and tell what
\* becomes of them.
LEMMA OfflineTells ==
  ASSUME NEW S \in SUBSET Keys, NEW s \in Orders(S), NEW list, \A k \in S : list[k] = None,
         NEW b, b = [i \in DOMAIN s |-> Offline(s[i])]
  PROVE  Announce(b, list, S)
<1>1. /\ \A k \in S : \E i \in DOMAIN s : s[i] = k
      /\ \A i \in DOMAIN s : s[i] \in S
  BY ListedKeys, Zenon
<1>2. b \in Seq(RpcEvent)
  BY OfflineEvents, Zenon
<1> QED BY <1>1, <1>2, Zenon DEF Announce, Tells, Offline

LEMMA UpsertTells ==
  ASSUME NEW S \in SUBSET Keys, NEW s \in Orders(S), NEW list, \A k \in S : list[k] \in RpcData,
         NEW b, b = [i \in DOMAIN s |-> Upsert(s[i], list[s[i]])]
  PROVE  Announce(b, list, S)
<1>1. /\ \A k \in S : \E i \in DOMAIN s : s[i] = k
      /\ \A i \in DOMAIN s : s[i] \in S
  BY ListedKeys, Zenon
<1>2. b \in Seq(RpcEvent)
  BY UpsertEvents, Zenon
<1>3. None \notin RpcData
  BY SyncAssumption, SMTT(60)
<1> QED BY <1>1, <1>2, <1>3, Zenon DEF Announce, Tells, Upsert

\* The same of two lists of events one after the other.
LEMMA BothTell ==
  ASSUME NEW list, NEW S, NEW T, NEW a, NEW b, Announce(a, list, S), Announce(b, list, T)
  PROVE  Announce(a \o b, list, S \cup T)
<1> DEFINE c == a \o b
<1>0. /\ a \in Seq(RpcEvent) /\ b \in Seq(RpcEvent)
      /\ \A i \in DOMAIN a : Tells(a[i], list[a[i].key])
      /\ \A i \in DOMAIN b : Tells(b[i], list[b[i].key])
      /\ \A k \in S : \E i \in DOMAIN a : a[i].key = k
      /\ \A k \in T : \E i \in DOMAIN b : b[i].key = k
  BY SMTT(60) DEF Announce
<1>1. /\ a \o b \in Seq(RpcEvent)
      /\ \A i \in DOMAIN a : i \in DOMAIN (a \o b) /\ (a \o b)[i] = a[i]
      /\ \A i \in DOMAIN b : Len(a) + i \in DOMAIN (a \o b) /\ (a \o b)[Len(a) + i] = b[i]
      /\ \A i \in DOMAIN (a \o b) :
           \/ i \in DOMAIN a /\ (a \o b)[i] = a[i]
           \/ \E j \in DOMAIN b : i = Len(a) + j /\ (a \o b)[i] = b[j]
  BY <1>0, PositionsOfConcat, SMTT(60)
<1> HIDE DEF c
<1>2. /\ c \in Seq(RpcEvent)
      /\ \A i \in DOMAIN a : i \in DOMAIN c /\ c[i] = a[i]
      /\ \A i \in DOMAIN b : Len(a) + i \in DOMAIN c /\ c[Len(a) + i] = b[i]
      /\ \A i \in DOMAIN c :
           \/ i \in DOMAIN a /\ c[i] = a[i]
           \/ \E j \in DOMAIN b : i = Len(a) + j /\ c[i] = b[j]
  BY <1>1, Zenon DEF c
<1>3. \A i \in DOMAIN c : Tells(c[i], list[c[i].key])
  BY <1>0, <1>2, Zenon
<1>4. \A k \in S : \E i \in DOMAIN c : c[i].key = k
  BY <1>0, <1>2, Zenon
<1>5. ASSUME NEW k \in T PROVE \E i \in DOMAIN c : c[i].key = k
  <2>1. PICK i \in DOMAIN b : b[i].key = k
    BY <1>0, Zenon
  <2>2. Len(a) + i \in DOMAIN c /\ c[Len(a) + i].key = k
    BY <1>2, <2>1, Zenon
  <2> QED BY <2>2, Zenon
<1> QED BY <1>2, <1>3, <1>4, <1>5, SMTT(60) DEF Announce, c

LEMMA StepOfNotice ==
  ASSUME TypeInv, RpcQueueTells, RpcHandTells,
         NacosDelete \/ \E list \in [Keys -> RpcData \cup {None}] : NacosNotice(list)
  PROVE  /\ RpcQueueTells' /\ RpcHandTells'
         /\ \A k \in Keys : RpcQueued(k) => RpcQueued(k)'
         /\ \A k \in Keys : RpcQueued(k)' \/ rpcStore'[k] = rpcStore[k]
<1> DEFINE old == {k \in Keys : rpcStore[k] # None}
<1>1. CASE NacosDelete
  <2> DEFINE list == [k \in Keys |-> None]
  <2>1. PICK gone \in Orders(old) : rpcQueue' = rpcQueue \o [i \in DOMAIN gone |-> Offline(gone[i])]
    BY <1>1, Zenon DEF NacosDelete
  <2> DEFINE b == [i \in DOMAIN gone |-> Offline(gone[i])]
  <2>2. rpcQueue' = rpcQueue \o b /\ rpcStore' = list /\ rpcSub' = rpcSub
    BY <1>1, <2>1, Zenon DEF NacosDelete
  <2>3. /\ old \in SUBSET Keys /\ \A k \in old : list[k] = None
        /\ list \in [Keys -> RpcData \cup {None}]
        /\ {k \in Keys : rpcStore[k] # None \/ list[k] # None} = old
    BY Zenon
  <2> HIDE DEF list, old
  <2>4. Announce(b, list, old)
    BY <2>3, OfflineTells, Zenon
  <2> HIDE DEF b
  <2> QED BY <2>2, <2>3, <2>4, NoticeTells, Zenon
<1>2. ASSUME NEW list \in [Keys -> RpcData \cup {None}], NacosNotice(list)
      PROVE  /\ RpcQueueTells' /\ RpcHandTells'
             /\ \A k \in Keys : RpcQueued(k) => RpcQueued(k)'
             /\ \A k \in Keys : RpcQueued(k)' \/ rpcStore'[k] = rpcStore[k]
  <2> DEFINE new == {k \in Keys : list[k] # None}
  <2>1. PICK gone \in Orders(old \ new), come \in Orders(new \ old), stay \in Orders(new \cap old) :
          rpcQueue' = rpcQueue \o [i \in DOMAIN gone |-> Offline(gone[i])]
                               \o [i \in DOMAIN come |-> Upsert(come[i], list[come[i]])]
                               \o [i \in DOMAIN stay |-> Upsert(stay[i], list[stay[i]])]
    BY <1>2, Zenon DEF NacosNotice
  <2> DEFINE g == [i \in DOMAIN gone |-> Offline(gone[i])]
             c == [i \in DOMAIN come |-> Upsert(come[i], list[come[i]])]
             s == [i \in DOMAIN stay |-> Upsert(stay[i], list[stay[i]])]
  <2>2. rpcQueue' = ((rpcQueue \o g) \o c) \o s /\ rpcStore' = list /\ rpcSub' = rpcSub
    BY <1>2, <2>1, Zenon DEF NacosNotice
  <2>3. /\ old \ new \in SUBSET Keys /\ \A k \in old \ new : list[k] = None
        /\ new \ old \in SUBSET Keys /\ \A k \in new \ old : list[k] \in RpcData
        /\ new \cap old \in SUBSET Keys /\ \A k \in new \cap old : list[k] \in RpcData
    BY Zenon
  <2>4. {k \in Keys : rpcStore[k] # None \/ list[k] # None} =
          ((old \ new) \cup (new \ old)) \cup (new \cap old)
    BY Zenon
  <2> HIDE DEF old, new
  <2>5. Announce(g, list, old \ new)
    BY <2>3, OfflineTells, Zenon
  <2>6. Announce(c, list, new \ old)
    BY <2>3, UpsertTells, Zenon
  <2>7. Announce(s, list, new \cap old)
    BY <2>3, UpsertTells, Zenon
  <2> HIDE DEF g, c, s
  <2>8. Announce((g \o c) \o s, list, ((old \ new) \cup (new \ old)) \cup (new \cap old))
    BY <2>5, <2>6, <2>7, BothTell, Zenon
  <2>9. rpcQueue' = rpcQueue \o ((g \o c) \o s)
    <3>1. /\ rpcQueue \in Seq(RpcEvent) /\ g \in Seq(RpcEvent) /\ c \in Seq(RpcEvent)
          /\ s \in Seq(RpcEvent)
      BY <2>5, <2>6, <2>7, Zenon DEF Announce, TypeInv, TypeOK
    <3>2. g \o c \in Seq(RpcEvent)
      BY <3>1, ConcatProperties, Zenon
    <3>3. (rpcQueue \o g) \o c = rpcQueue \o (g \o c)
      BY <3>1, ConcatAssociative, SMTT(60)
    <3>4. (rpcQueue \o (g \o c)) \o s = rpcQueue \o ((g \o c) \o s)
      <4> DEFINE gc == g \o c
      <4>1. gc \in Seq(RpcEvent)
        BY <3>2, Zenon
      <4> HIDE DEF gc
      <4>2. (rpcQueue \o gc) \o s = rpcQueue \o (gc \o s)
        BY <3>1, <4>1, ConcatAssociative, SMTT(60)
      <4> QED BY <4>2, Zenon DEF gc
    <3> QED BY <2>2, <3>3, <3>4, SMTT(60)
  <2> QED BY <2>2, <2>4, <2>8, <2>9, NoticeTells, Zenon
<1> QED BY <1>1, <1>2, SMTT(60)
\* Taking the first event into hand.
LEMMA GetTellsRpc ==
  ASSUME TypeInv, RpcQueueTells, RpcHandTells, RpcGet, NEW h, h = Head(rpcQueue)
  PROVE  /\ RpcQueueTells' /\ RpcHandTells'
         /\ \A k \in Keys : RpcQueued(k) => k = h.key \/ RpcQueued(k)'
         /\ ~RpcQueued(h.key)' =>
              Tells(h, rpcStore[h.key])
<1>1. rpcQueue \in Seq(RpcEvent) /\ rpcQueue # <<>> /\ rpcQueue' = Tail(rpcQueue) /\ rpcStore' = rpcStore
  BY Zenon DEF TypeInv, TypeOK, RpcGet, sources
<1>2. /\ Len(rpcQueue) \in Nat \ {0} /\ DOMAIN rpcQueue = 1 .. Len(rpcQueue)
      /\ DOMAIN rpcQueue' = 1 .. Len(rpcQueue) - 1
      /\ \A i \in 1 .. Len(rpcQueue) - 1 : rpcQueue'[i] = rpcQueue[i + 1]
      /\ h = rpcQueue[1] /\ h \in RpcEvent
  BY <1>1, HeadTailProperties, LenProperties, EmptySeq
<1>3. h.key \in Keys
  BY <1>2, Zenon DEF RpcEvent
<1>4. RpcQueueTells'
  <2> SUFFICES ASSUME NEW k \in Keys, NEW i \in DOMAIN rpcQueue', rpcQueue'[i].key = k,
                      \A j \in DOMAIN rpcQueue' : j > i => rpcQueue'[j].key # k
               PROVE  Tells(rpcQueue'[i], rpcStore[k])
    BY <1>1 DEF RpcQueueTells, Tells
  <2>1. ASSUME NEW j \in DOMAIN rpcQueue, j > i + 1 PROVE rpcQueue[j].key # k
    <3>1. j - 1 \in DOMAIN rpcQueue' /\ j - 1 > i /\ rpcQueue'[j - 1] = rpcQueue[j]
      BY <1>2, <2>1
    <3> QED BY <3>1, Zenon
  <2>2. i + 1 \in DOMAIN rpcQueue /\ rpcQueue'[i] = rpcQueue[i + 1]
    BY <1>2
  <2> QED BY <2>1, <2>2, Zenon DEF RpcQueueTells
<1>5. \A k \in Keys : RpcQueued(k) => k = h.key \/ RpcQueued(k)'
  <2> SUFFICES ASSUME NEW k \in Keys, NEW i \in DOMAIN rpcQueue, rpcQueue[i].key = k,
                      k # h.key
               PROVE  RpcQueued(k)'
    BY Zenon DEF RpcQueued
  <2>1. i - 1 \in DOMAIN rpcQueue' /\ rpcQueue'[i - 1] = rpcQueue[i]
    BY <1>2
  <2> QED BY <2>1, Zenon DEF RpcQueued
<1>6. ASSUME ~RpcQueued(h.key)'
      PROVE  Tells(h, rpcStore[h.key])
  <2>1. ASSUME NEW j \in DOMAIN rpcQueue, j > 1 PROVE rpcQueue[j].key # h.key
    <3>1. j - 1 \in DOMAIN rpcQueue' /\ rpcQueue'[j - 1] = rpcQueue[j]
      BY <1>2, <2>1
    <3> QED BY <1>6, <3>1, Zenon DEF RpcQueued
  <2>2. 1 \in DOMAIN rpcQueue
    BY <1>2
  <2> QED BY <1>2, <1>3, <2>1, <2>2, Zenon DEF RpcQueueTells
<1>7. RpcHandTells'
  <2>1. rpcSub' = Idle \/ (rpcSub'.key = h.key /\ rpcSub'.event = h)
    BY Zenon DEF RpcGet
  <2> QED BY <1>1, <1>6, <2>1, Zenon DEF RpcHandTells, Busy, Tells
<1> QED BY <1>4, <1>5, <1>6, <1>7, Zenon

\* A change of a pod.
LEMMA PodTells ==
  ASSUME TypeInv, RtQueueTells, RtHandTells, rtSub' = rtSub,
         NEW p \in Pods, NEW d \in RtData \cup {None}, rtStore' = [rtStore EXCEPT ![p] = d],
         NEW e \in RtEvent, e.pod = p, Tells(e, d), rtQueue' = Append(rtQueue, e)
  PROVE  /\ RtQueueTells' /\ RtHandTells'
         /\ RtQueued(p)'
         /\ \A q \in Pods : RtQueued(q) => RtQueued(q)'
<1>1. rtQueue \in Seq(RtEvent) /\ rtStore \in [Pods -> RtData \cup {None}]
  BY Zenon DEF TypeInv, TypeOK
<1>2. /\ Len(rtQueue) \in Nat /\ DOMAIN rtQueue = 1 .. Len(rtQueue)
      /\ DOMAIN rtQueue' = 1 .. Len(rtQueue) + 1
      /\ \A i \in 1 .. Len(rtQueue) : rtQueue'[i] = rtQueue[i]
      /\ rtQueue'[Len(rtQueue) + 1] = e
  BY <1>1, AppendProperties, LenProperties
<1>3. RtQueued(p)'
  BY <1>2 DEF RtQueued
<1>4. \A q \in Pods : RtQueued(q) => RtQueued(q)'
  BY <1>2 DEF RtQueued
<1>5. rtStore'[p] = d /\ \A q \in Pods \ {p} : rtStore'[q] = rtStore[q]
  BY <1>1, Zenon
<1>6. RtQueueTells'
  <2> SUFFICES ASSUME NEW q \in Pods, NEW i \in DOMAIN rtQueue', rtQueue'[i].pod = q,
                      \A j \in DOMAIN rtQueue' : j > i => rtQueue'[j].pod # q
               PROVE  Tells(rtQueue'[i], rtStore'[q])
    BY Zenon DEF RtQueueTells, Tells
  <2>1. CASE i = Len(rtQueue) + 1
    BY <1>2, <1>5, <2>1, Zenon
  <2>2. CASE i # Len(rtQueue) + 1
    <3>1. i \in DOMAIN rtQueue /\ rtQueue'[i] = rtQueue[i] /\ Len(rtQueue) + 1 > i
      BY <1>2, <2>2
    <3>2. q # p
      BY <1>2, <3>1
    <3>3. \A j \in DOMAIN rtQueue : j > i => rtQueue[j].pod # q
      BY <1>2
    <3>4. Tells(rtQueue[i], rtStore[q])
      BY <3>1, <3>3, Zenon DEF RtQueueTells
    <3> QED BY <1>5, <3>1, <3>2, <3>4, Zenon
  <2> QED BY <2>1, <2>2, Zenon
<1>7. RtHandTells'
  <2> SUFFICES ASSUME NEW q \in Pods, rtSub # Idle, rtSub.event.pod = q, ~RtQueued(q)'
               PROVE  Tells(rtSub.event, rtStore'[q])
    BY Zenon DEF RtHandTells, Tells
  <2>1. q # p /\ ~RtQueued(q)
    BY <1>3, <1>4, Zenon
  <2> QED BY <1>5, <2>1, Zenon DEF RtHandTells
<1> QED BY <1>3, <1>4, <1>6, <1>7, Zenon

LEMMA GetTellsRt ==
  ASSUME TypeInv, RtQueueTells, RtHandTells, RtGet, NEW h, h = Head(rtQueue)
  PROVE  /\ RtQueueTells' /\ RtHandTells'
         /\ \A p \in Pods : RtQueued(p) => p = h.pod \/ RtQueued(p)'
         /\ ~RtQueued(h.pod)' => Tells(h, rtStore[h.pod])
<1>1. rtQueue \in Seq(RtEvent) /\ rtQueue # <<>> /\ rtQueue' = Tail(rtQueue) /\ rtStore' = rtStore
  BY Zenon DEF TypeInv, TypeOK, RtGet, sources
<1>2. /\ Len(rtQueue) \in Nat \ {0} /\ DOMAIN rtQueue = 1 .. Len(rtQueue)
      /\ DOMAIN rtQueue' = 1 .. Len(rtQueue) - 1
      /\ \A i \in 1 .. Len(rtQueue) - 1 : rtQueue'[i] = rtQueue[i + 1]
      /\ h = rtQueue[1] /\ h \in RtEvent
  BY <1>1, HeadTailProperties, LenProperties, EmptySeq
<1>3. h.pod \in Pods
  BY <1>2, Zenon DEF RtEvent
<1>4. RtQueueTells'
  <2> SUFFICES ASSUME NEW p \in Pods, NEW i \in DOMAIN rtQueue', rtQueue'[i].pod = p,
                      \A j \in DOMAIN rtQueue' : j > i => rtQueue'[j].pod # p
               PROVE  Tells(rtQueue'[i], rtStore[p])
    BY <1>1 DEF RtQueueTells, Tells
  <2>1. ASSUME NEW j \in DOMAIN rtQueue, j > i + 1 PROVE rtQueue[j].pod # p
    <3>1. j - 1 \in DOMAIN rtQueue' /\ j - 1 > i /\ rtQueue'[j - 1] = rtQueue[j]
      BY <1>2, <2>1
    <3> QED BY <3>1, Zenon
  <2>2. i + 1 \in DOMAIN rtQueue /\ rtQueue'[i] = rtQueue[i + 1]
    BY <1>2
  <2> QED BY <2>1, <2>2, Zenon DEF RtQueueTells
<1>5. \A p \in Pods : RtQueued(p) => p = h.pod \/ RtQueued(p)'
  <2> SUFFICES ASSUME NEW p \in Pods, NEW i \in DOMAIN rtQueue, rtQueue[i].pod = p,
                      p # h.pod
               PROVE  RtQueued(p)'
    BY Zenon DEF RtQueued
  <2>1. i - 1 \in DOMAIN rtQueue' /\ rtQueue'[i - 1] = rtQueue[i]
    BY <1>2
  <2> QED BY <2>1, Zenon DEF RtQueued
<1>6. ASSUME ~RtQueued(h.pod)'
      PROVE  Tells(h, rtStore[h.pod])
  <2>1. ASSUME NEW j \in DOMAIN rtQueue, j > 1 PROVE rtQueue[j].pod # h.pod
    <3>1. j - 1 \in DOMAIN rtQueue' /\ rtQueue'[j - 1] = rtQueue[j]
      BY <1>2, <2>1
    <3> QED BY <1>6, <3>1, Zenon DEF RtQueued
  <2>2. 1 \in DOMAIN rtQueue
    BY <1>2
  <2> QED BY <1>2, <1>3, <2>1, <2>2, Zenon DEF RtQueueTells
<1>7. RtHandTells'
  <2>1. rtSub' = Idle \/ rtSub'.event = h
    BY SMTT(60) DEF RtGet
  <2> QED BY <1>1, <1>6, <2>1, Zenon DEF RtHandTells, Tells
<1> QED BY <1>4, <1>5, <1>6, <1>7, Zenon
\* The last events keep telling what the stores have, whatever happens.
LEMMA StepEventsTell == TypeInv /\ EventsTell /\ [Next]_vars => EventsTell'
<1> SUFFICES ASSUME TypeInv, EventsTell, [Next]_vars PROVE EventsTell'
  BY Zenon
<1> USE DEF EventsTell
<1>1. CASE NacosDelete \/ \E list \in [Keys -> RpcData \cup {None}] : NacosNotice(list)
  <2>1. RpcQueueTells' /\ RpcHandTells'
    BY <1>1, StepOfNotice, Zenon
  <2>2. rtQueue' = rtQueue /\ rtSub' = rtSub /\ rtStore' = rtStore
    BY <1>1, Zenon DEF NacosDelete, NacosNotice
  <2> QED BY <2>1, <2>2, Zenon DEF RtQueueTells, RtHandTells, RtQueued, Tells
<1>2. ASSUME NEW p \in Pods, NEW d \in RtData, PodUpsert(p, d) PROVE EventsTell'
  <2> DEFINE e == [type |-> "upsert", pod |-> p, data |-> d]
  <2>1. e \in RtEvent /\ e.pod = p /\ Tells(e, d)
    BY SyncAssumption, Zenon DEF RtEvent, Tells
  <2>2. /\ rtSub' = rtSub /\ rtStore' = [rtStore EXCEPT ![p] = d] /\ rtQueue' = Append(rtQueue, e)
        /\ rpcQueue' = rpcQueue /\ rpcSub' = rpcSub /\ rpcStore' = rpcStore
    BY <1>2, Zenon DEF PodUpsert
  <2> HIDE DEF e
  <2>3. RtQueueTells' /\ RtHandTells'
    BY <2>1, <2>2, PodTells, Zenon
  <2> QED BY <2>2, <2>3, Zenon DEF RpcQueueTells, RpcHandTells, RpcQueued, Tells
<1>3. ASSUME NEW p \in Pods, PodDelete(p) PROVE EventsTell'
  <2> DEFINE e == [type |-> "delete", pod |-> p]
  <2>1. e \in RtEvent /\ e.pod = p /\ Tells(e, None)
    BY SyncAssumption, Zenon DEF RtEvent, Tells
  <2>2. /\ rtSub' = rtSub /\ rtStore' = [rtStore EXCEPT ![p] = None] /\ rtQueue' = Append(rtQueue, e)
        /\ rpcQueue' = rpcQueue /\ rpcSub' = rpcSub /\ rpcStore' = rpcStore
    BY <1>3, Zenon DEF PodDelete
  <2> HIDE DEF e
  <2>3. RtQueueTells' /\ RtHandTells'
    BY <2>1, <2>2, PodTells, Zenon
  <2> QED BY <2>2, <2>3, Zenon DEF RpcQueueTells, RpcHandTells, RpcQueued, Tells
<1>4. CASE RpcGet
  <2>1. RpcQueueTells' /\ RpcHandTells'
    BY <1>4, GetTellsRpc, Zenon
  <2>2. rtQueue' = rtQueue /\ rtSub' = rtSub /\ rtStore' = rtStore
    BY <1>4, Zenon DEF RpcGet, sources
  <2> QED BY <2>1, <2>2 DEF RtQueueTells, RtHandTells, RtQueued, Tells
<1>5. CASE RtGet
  <2>1. RtQueueTells' /\ RtHandTells'
    BY <1>5, GetTellsRt, Zenon
  <2>2. rpcQueue' = rpcQueue /\ rpcSub' = rpcSub /\ rpcStore' = rpcStore
    BY <1>5, Zenon DEF RtGet, sources
  <2> QED BY <2>1, <2>2, Zenon DEF RpcQueueTells, RpcHandTells, RpcQueued, Tells
<1>6. CASE RpcFind \/ RpcAdd \/ RpcWrite
  <2>1. rpcQueue' = rpcQueue /\ rpcStore' = rpcStore /\ rtQueue' = rtQueue /\ rtSub' = rtSub /\ rtStore' = rtStore
    BY <1>6, Zenon DEF RpcFind, RpcAdd, RpcWrite, sources
  <2>2. rpcSub' = Idle \/ (rpcSub # Idle /\ rpcSub'.event = rpcSub.event /\ rpcSub'.key = rpcSub.key)
    BY <1>6, Zenon DEF RpcFind, RpcAdd, RpcWrite, TypeInv, TypeOK
  <2> QED BY <2>1, <2>2, SMTT(60) DEF RtQueueTells, RtHandTells, RtQueued, RpcQueueTells, RpcHandTells, RpcQueued, Tells, Busy
<1>7. CASE RtWrite
  <2>1. /\ rpcQueue' = rpcQueue /\ rpcStore' = rpcStore /\ rtQueue' = rtQueue /\ rpcSub' = rpcSub
        /\ rtStore' = rtStore /\ rtSub' = Idle
    BY <1>7, Zenon DEF RtWrite, sources
  <2> QED BY <2>1 DEF RtQueueTells, RtHandTells, RtQueued, RpcQueueTells, RpcHandTells, RpcQueued, Tells, Busy
<1>8. CASE CountList \/ CountGet \/ CountWrite \/ (\E s \in Metas : MetaGet(s) \/ MetaAdd(s)) \/ UNCHANGED vars
  <2>1. /\ rpcQueue' = rpcQueue /\ rpcStore' = rpcStore /\ rtQueue' = rtQueue /\ rpcSub' = rpcSub
        /\ rtStore' = rtStore /\ rtSub' = rtSub
    BY <1>8, Zenon DEF CountList, CountGet, CountWrite, MetaGet, MetaAdd, sources, merging, vars
  <2> QED BY <2>1 DEF RtQueueTells, RtHandTells, RtQueued, RpcQueueTells, RpcHandTells, RpcQueued, Tells, Busy
<1> QED BY <1>1, <1>2, <1>3, <1>4, <1>5, <1>6, <1>7, <1>8 DEF Next
=============================================================================
