------------------------------- MODULE Wiring -------------------------------
(***************************************************************************)
(* How discovery and engine are put together and set going.  Init of each    *)
(* component builds one informer per list watcher of the configured         *)
(* registries and platforms, the subscribers that derive one kind from       *)
(* another, and a leader election when replicas share a database.  Start     *)
(* subscribes and runs the informers, at once or when the replica is         *)
(* elected; the two components hold leases of their own.  The bus of a       *)
(* replica reaches the subscribers of that replica only.                     *)
(***************************************************************************)
EXTENDS Integers, Sequences

CONSTANTS Replicas, MaxFaults, MaxTerms, None

VARIABLES
  config,      \* of all replicas: the store, the registries and the platform
  replica,     \* "new", "up", "stopping" or "down"
  built,       \* per replica and component: informers and subscribers, or None
  gated,       \* the components that wait for their election
  todo,        \* per component: subscribers still to subscribe, or None outside of Start
  directory,   \* per replica: the kinds with a subscriber on its bus
  subscribed,  \* components whose subscribed flag is set
  started,     \* components whose informers have been started once
  live,        \* components whose informers run
  leader,      \* per component: the replica that holds the lease, or None
  ending,      \* components that have lost their lease and not yet called OnStopLeading
  terms, faults,
  broken,      \* registries whose client was not created, per replica
  ungated      \* history: components that run without an election because it failed

vars == <<config, replica, built, gated, todo, directory, subscribed, started, live, leader,
          ending, terms, faults, broken, ungated>>

Components == {"discovery", "engine"}

Parts == Replicas \X Components

-----------------------------------------------------------------------------
(* The list watchers of a registry or platform, by the kind they list. *)

ZookeeperListWatchers == {"ServiceProviderMapping", "RPCInstance", "ZKConfig", "ZKMetadata"}

NacosListerWatchers ==
  {"NacosService", "DynamicConfig", "ConditionRoute", "TagRoute",
   "ServiceProviderMetadata", "ServiceProviderMapping"}

KubernetesListWatchers == {"RuntimeInstance", "LifecycleEvent"}

NewListWatchers(type) ==
  CASE type = "zookeeper" -> ZookeeperListWatchers
    [] type = "nacos2" -> NacosListerWatchers
    [] type = "kubernetes" -> KubernetesListWatchers
    [] type = "mock" -> {}

InitInformers(types) == UNION {{t} \X NewListWatchers(t) : t \in types}

(* The kinds a subscriber writes and announces when it is told of its own kind. *)
Derives(kind) ==
  CASE kind = "NacosService" -> {"RPCInstance", "ServiceConsumerMetadata"}
    [] kind = "ZKMetadata" -> {"ServiceProviderMetadata", "ServiceConsumerMetadata"}
    [] kind = "ZKConfig" -> {"DynamicConfig", "ConditionRoute", "TagRoute"}
    [] kind \in {"RPCInstance", "RuntimeInstance"} -> {"Instance"}
    [] kind = "Instance" -> {"Application"}
    [] kind = "ServiceProviderMetadata" -> {"Application", "Service"}
    [] kind = "ServiceConsumerMetadata" -> {"Application"}
    [] OTHER -> {}

InitSubscribes(c) ==
  <<"RPCInstance", "ServiceConsumerMetadata", "ServiceProviderMetadata", "Instance">>
  \o (IF "nacos2" \in c.discovery THEN <<"NacosService">> ELSE <<>>)
  \o (IF "zookeeper" \in c.discovery THEN <<"ZKMetadata", "ZKConfig">> ELSE <<>>)
  \o (IF c.engine = "kubernetes" THEN <<"LifecycleEvent">> ELSE <<>>)

InitSubscribers == <<"RuntimeInstance">>

-----------------------------------------------------------------------------
(* Init.  A database store has every kind, so that routing does not fail. *)

Types(c) == IF c = "discovery" THEN config.discovery ELSE {config.engine}

Building(r) == replica[r] = "new"

Built(r, c) ==
  built' = [built EXCEPT ![<<r, c>>] =
    [informers |-> InitInformers(Types(c)),
     subscribers |-> IF c = "discovery" THEN InitSubscribes(config) ELSE InitSubscribers]]

Fault == faults < MaxFaults /\ faults' = faults + 1

(* The election is set up when the store is a database.  When the lease table  *)
(* cannot be ensured the component goes on without.                            *)
SetUpElection(r, c) ==
  \/ /\ config.store = "memory"
     /\ UNCHANGED <<gated, faults, ungated>>
  \/ /\ config.store = "database"
     /\ gated' = gated \cup {<<r, c>>}
     /\ UNCHANGED <<faults, ungated>>
  \/ /\ config.store = "database"
     /\ Fault
     /\ ungated' = ungated \cup {<<r, c>>}
     /\ UNCHANGED gated

InitDiscovery(r) ==
  /\ Building(r) /\ built[<<r, "discovery">>] = None
  /\ Built(r, "discovery")
  /\ SetUpElection(r, "discovery")
  /\ UNCHANGED <<config, replica, todo, directory, subscribed, started, live, leader, ending, terms, broken>>

InitEngine(r) ==
  /\ Building(r) /\ built[<<r, "engine">>] = None
  /\ Built(r, "engine")
  /\ SetUpElection(r, "engine")
  /\ UNCHANGED <<config, replica, todo, directory, subscribed, started, live, leader, ending, terms, broken>>

(* No connection to ZooKeeper, or no configuration of the cluster: the process ends. *)
NewListWatchersFails(r) ==
  /\ Building(r) /\ {"zookeeper", "kubernetes"} \cap (config.discovery \cup {config.engine}) # {}
  /\ Fault
  /\ replica' = [replica EXCEPT ![r] = "down"]
  /\ UNCHANGED <<config, built, gated, todo, directory, subscribed, started, live, leader, ending, terms,
                 broken, ungated>>

(* A client of Nacos that could not be created is overlooked: the list watchers *)
(* are built around it.                                                         *)
InitNacosClientsFails(r) ==
  /\ Building(r) /\ built[<<r, "discovery">>] = None /\ "nacos2" \in config.discovery
  /\ r \notin broken
  /\ Fault
  /\ broken' = broken \cup {r}
  /\ UNCHANGED <<config, replica, built, gated, todo, directory, subscribed, started, live, leader, ending,
                 terms, ungated>>

-----------------------------------------------------------------------------
(* Start *)

StartBusinessLogic(r, c) ==
  todo' = [todo EXCEPT ![<<r, c>>] = IF <<r, c>> \in subscribed THEN <<>> ELSE built[<<r, c>>].subscribers]

(* All components are started together, those without an election run at once. *)
StartComponents(r) ==
  /\ replica[r] = "new" /\ \A c \in Components : built[<<r, c>>] # None
  /\ replica' = [replica EXCEPT ![r] = "up"]
  /\ todo' = [p \in Parts |->
                IF p[1] = r /\ p \notin gated THEN built[p].subscribers ELSE todo[p]]
  /\ UNCHANGED <<config, built, gated, directory, subscribed, started, live, leader, ending, terms, faults,
                 broken, ungated>>

OnStartLeading(r, c) ==
  /\ <<r, c>> \in gated \ ending /\ replica[r] = "up"
  /\ leader[c] = None /\ terms < MaxTerms
  /\ leader' = [leader EXCEPT ![c] = r]
  /\ terms' = terms + 1
  /\ StartBusinessLogic(r, c)
  /\ UNCHANGED <<config, replica, built, gated, directory, subscribed, started, live, ending, faults, broken,
                 ungated>>

(* The row runs out, a Renew fails or the loop of a stopping process releases  *)
(* it.  The informers go on until the loop calls back, also while another       *)
(* replica takes the row.                                                       *)
LoseLease(r, c) ==
  /\ leader[c] = r
  /\ leader' = [leader EXCEPT ![c] = None]
  /\ ending' = ending \cup {<<r, c>>}
  /\ UNCHANGED <<config, replica, built, gated, todo, directory, subscribed, started, live, terms,
                 faults, broken, ungated>>

(* Seeded bug: the channel of the term is not closed. *)
OnStopLeading_LeftOpen(r, c) ==
  /\ <<r, c>> \in ending /\ todo[<<r, c>>] = None
  /\ ending' = ending \ {<<r, c>>}
  /\ UNCHANGED <<config, replica, built, gated, todo, directory, subscribed, started, live, leader,
                 terms, faults, broken, ungated>>

(* The election loop calls back one at a time, and closes the channel of the term. *)
OnStopLeading(r, c) ==
  /\ <<r, c>> \in ending /\ todo[<<r, c>>] = None
  /\ ending' = ending \ {<<r, c>>}
  /\ live' = live \ {<<r, c>>}
  /\ UNCHANGED <<config, replica, built, gated, todo, directory, subscribed, started, leader, terms,
                 faults, broken, ungated>>

Subscribe(r, c) ==
  /\ todo[<<r, c>>] \notin {None, <<>>} /\ replica[r] = "up"
  /\ directory' = [directory EXCEPT ![r] = @ \cup {Head(todo[<<r, c>>])}]
  /\ todo' = [todo EXCEPT ![<<r, c>>] = Tail(@)]
  /\ UNCHANGED <<config, replica, built, gated, subscribed, started, live, leader, ending, terms, faults,
                 broken, ungated>>

(* A bus that has stopped refuses, and no informer is started. *)
SubscribeFails(r, c) ==
  /\ todo[<<r, c>>] \notin {None, <<>>} /\ replica[r] = "stopping"
  /\ todo' = [todo EXCEPT ![<<r, c>>] = None]
  /\ UNCHANGED <<config, replica, built, gated, directory, subscribed, started, live, leader, ending, terms,
                 faults, broken, ungated>>

(* Every subscriber is on the bus. *)
StartInformers(r, c) == todo[<<r, c>>] = <<>>

(* Without an election the channel is that of the process. *)
Stopped(r, c) == <<r, c>> \notin gated /\ replica[r] = "stopping"

(* An informer runs once in the life of the process: in a later term Run       *)
(* returns at once.  One around a missing Nacos client takes the process with  *)
(* it at its first list.                                                       *)
RunInformers(r, c) ==
  /\ replica[r] \in {"up", "stopping"} /\ StartInformers(r, c)
  /\ subscribed' = subscribed \cup {<<r, c>>}
  /\ started' = started \cup {<<r, c>>}
  /\ IF c = "discovery" /\ r \in broken /\ <<r, c>> \notin started
     THEN /\ replica' = [replica EXCEPT ![r] = "down"]
          /\ live' = {p \in live : p[1] # r}
          /\ todo' = [p \in Parts |-> IF p[1] = r THEN None ELSE todo[p]]
          /\ leader' = [k \in Components |-> IF leader[k] = r THEN None ELSE leader[k]]
          /\ ending' = {p \in ending : p[1] # r}
     ELSE /\ live' = IF <<r, c>> \in started \/ Stopped(r, c) THEN live ELSE live \cup {<<r, c>>}
          /\ todo' = [todo EXCEPT ![<<r, c>>] = None]
          /\ UNCHANGED <<replica, leader, ending>>
  /\ UNCHANGED <<config, built, gated, directory, terms, faults, broken, ungated>>

(* The stop signal: the bus stops and those without an election see it at once. *)
StopReplica(r) ==
  /\ replica[r] = "up"
  /\ replica' = [replica EXCEPT ![r] = "stopping"]
  /\ live' = {p \in live : p[1] # r \/ p \in gated}
  /\ UNCHANGED <<config, built, gated, todo, directory, subscribed, started, leader, ending, terms, faults,
                 broken, ungated>>

(* With a memory store there is one replica. *)
Init ==
  /\ config \in [store : {"memory", "database"},
                 discovery : {{"zookeeper"}, {"nacos2"}, {"zookeeper", "nacos2"}, {"mock"}},
                 engine : {"kubernetes", "mock"}]
  /\ \E one \in Replicas :
       replica = [r \in Replicas |->
                    IF config.store = "memory" /\ r # one THEN "down" ELSE "new"]
  /\ built = [p \in Parts |-> None]
  /\ gated = {} /\ subscribed = {} /\ started = {} /\ live = {} /\ ending = {}
  /\ ungated = {} /\ broken = {}
  /\ todo = [p \in Parts |-> None]
  /\ directory = [r \in Replicas |-> {}]
  /\ leader = [c \in Components |-> None]
  /\ terms = 0 /\ faults = 0

Next ==
  \E r \in Replicas :
    \/ InitDiscovery(r) \/ InitEngine(r) \/ NewListWatchersFails(r) \/ InitNacosClientsFails(r)
    \/ StartComponents(r) \/ StopReplica(r)
    \/ \E c \in Components :
         \/ OnStartLeading(r, c) \/ LoseLease(r, c) \/ OnStopLeading(r, c)
         \/ Subscribe(r, c) \/ SubscribeFails(r, c) \/ RunInformers(r, c)

Spec == Init /\ [][Next]_vars

-----------------------------------------------------------------------------
TypeOK ==
  /\ replica \in [Replicas -> {"new", "up", "stopping", "down"}]
  /\ {gated, subscribed, started, live, ending, ungated} \subseteq SUBSET Parts
  /\ leader \in [Components -> Replicas \cup {None}]
  /\ broken \subseteq Replicas /\ live \subseteq started /\ gated \cap ungated = {}
  /\ \A p \in Parts : todo[p] # None => built[p] # None

(* The kinds that follow from one, through every subscriber there is. *)
Follow(kinds) == kinds \cup UNION {Derives(k) : k \in kinds}

Consequences(kind) == Follow(Follow(Follow({kind})))

(* The kinds that follow from one on the bus of a replica. *)
FollowOn(r, kinds) == kinds \cup UNION {Derives(k) : k \in kinds \cap directory[r]}

ConsequencesOn(r, kind) == FollowOn(r, FollowOn(r, FollowOn(r, {kind})))

(* Everything that follows from what an informer of discovery reports is       *)
(* derived on the replica where it runs, from its first event on.  What        *)
(* follows from the engine's informers is derived up to the Instance; the      *)
(* Application and the timeline are discovery's, which may not have subscribed *)
(* there: it may start later, and lead elsewhere                               *)
(* (discovery/component.go:188-208, engine/component.go:226-242).              *)
EventsAreHandled ==
  \A p \in live : \A i \in built[p].informers :
    LET r == p[1]
        all == Consequences(i[2])
    IN \/ all \subseteq ConsequencesOn(r, i[2]) /\ (i[2] = "LifecycleEvent" => i[2] \in directory[r])
       \/ /\ p[2] = "engine" /\ <<r, "discovery">> \notin subscribed
          /\ all \ {"Application"} \subseteq ConsequencesOn(r, i[2])

(* The informers of a component run on one replica, however replicas come, go  *)
(* and change the lead, but for one that has lost its lease and is about to    *)
(* stop them (leader.go:225-290), and unless the lease table of one could not  *)
(* be ensured when it started: such a replica runs whoever leads               *)
(* (discovery/component.go:122-148).                                           *)
OneReplicaRuns ==
  \A p, q \in live : p # q /\ p[2] = q[2] => {p, q} \cap (ungated \cup ending) # {}

(* Informers run on the right replicas and their events are derived from. *)
EventsMeetSubscribers == TypeOK /\ EventsAreHandled /\ OneReplicaRuns
=============================================================================
