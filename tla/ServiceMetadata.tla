-------------------------- MODULE ServiceMetadata --------------------------
(***************************************************************************)
(* What providers and consumers publish about a service, and the resources  *)
(* the admin derives from it: a Service per identity (name, version and      *)
(* group), an Application per publisher, a ServiceConsumerMetadata per       *)
(* consumer, and the records of the platform timeline.  The metadata of       *)
(* providers is written by the informer (Nacos) or by the ZooKeeper metadata  *)
(* subscriber; two more asynchronous subscribers derive from it.               *)
(***************************************************************************)
EXTENDS Integers, FiniteSetsExt, SequencesExt

CONSTANTS
  Services,      \* records [name, version, group]; "" for what is not given
  Apps,          \* numbers: applications, in the order of their keys
  Specs,         \* what a provider may publish: records [methods, language]
  BufferSize,    \* of the channel of a subscriber
  MaxChanges,    \* bound: changes in the registry
  None

VARIABLES
  registry,      \* "nacos" or "zookeeper"
  database,      \* whether Add refuses a key that exists (database store) or not (memory)
  provider,      \* ServiceProviderMetadata: per service and application
  sending,       \* an event about provider metadata the writer has not sent yet, or None
  providerCh,    \* the channel of the provider metadata subscriber
  sync,          \* where that subscriber is
  service,       \* the Service of each identity: a spec, or None
  application,   \* the Applications in the store
  listing,       \* per service: who consumes it, as Nacos says
  noticeCh,      \* the channel of the Nacos service subscriber
  consumer,      \* ServiceConsumerMetadata: pairs of service and application
  rpcInstance,   \* instances filed under the name of a consumers' service
  consumerCh,    \* the channel of the consumer metadata subscriber
  adding,        \* the application that subscriber is about to add, or None
  records,       \* per service and application: records added less records removed
  changes,
  underived,     \* history: services with an event that was dropped or gave up
  unlisted,      \* history: services with a Nacos notice that was dropped
  swept          \* history: services whose consumers another one's notice removed

registryVars == <<registry, database, changes>>
providerVars == <<provider, sending, providerCh, sync, service, underived>>
consumerVars == <<listing, noticeCh, consumer, rpcInstance, records, unlisted, swept>>
applicationVars == <<application, consumerCh, adding>>
vars == <<registryVars, providerVars, consumerVars, applicationVars>>

Idle == [at |-> "idle"]

Init ==
  /\ registry \in {"nacos", "zookeeper"} /\ database \in BOOLEAN /\ changes = 0
  /\ provider = [s \in Services |-> [a \in Apps |-> None]] /\ sending = None
  /\ providerCh = <<>> /\ sync = Idle /\ service = [s \in Services |-> None]
  /\ application = {} /\ consumerCh = <<>> /\ adding = None
  /\ listing = [s \in Services |-> {}] /\ noticeCh = <<>> /\ consumer = {} /\ rpcInstance = {}
  /\ records = [s \in Services |-> [a \in Apps |-> 0]]
  /\ underived = {} /\ unlisted = {} /\ swept = {}

-----------------------------------------------------------------------------
(* Provider metadata *)

(* The informer of a Nacos configuration, or processMetadataUpsert for a ZooKeeper node:     *)
(* the resource is added or updated, and recorded.  Deleted nodes of ZooKeeper are ignored.   *)
UpsertProvider(s, a, spec) ==
  /\ sending = None /\ changes < MaxChanges /\ provider[s][a] # spec
  /\ changes' = changes + 1
  /\ spec = None => registry = "nacos"
  /\ provider' = [provider EXCEPT ![s][a] = spec]
  /\ sending' = [service |-> s, app |-> a, deleted |-> spec = None]
  /\ UNCHANGED <<registry, database, providerCh, sync, service, underived, consumerVars, applicationVars>>

(* The bus drops an event for which the channel has no room. *)
SendProvider ==
  /\ sending # None /\ sending' = None
  /\ IF Len(providerCh) < BufferSize
       THEN providerCh' = Append(providerCh, sending) /\ UNCHANGED underived
       ELSE underived' = underived \cup {sending.service} /\ UNCHANGED providerCh
  /\ UNCHANGED <<registryVars, provider, sync, service, consumerVars, applicationVars>>

(* processUpsert and processUpdate look for the application first, processDelete does not. *)
ReceiveProvider ==
  /\ sync = Idle /\ providerCh # <<>>
  /\ LET e == Head(providerCh)
     IN sync' = [at |-> IF e.deleted \/ e.app \in application THEN "list" ELSE "add",
                 service |-> e.service, app |-> e.app]
  /\ providerCh' = Tail(providerCh)
  /\ UNCHANGED <<registryVars, provider, sending, service, underived, consumerVars, applicationVars>>

(* ensureApplication: in a database an application that came into being since it was looked   *)
(* for makes Add fail, and the service is not derived.                                          *)
EnsureApplication ==
  /\ sync.at = "add"
  /\ IF database /\ sync.app \in application
       THEN sync' = Idle /\ underived' = underived \cup {sync.service} /\ UNCHANGED application
       ELSE sync' = [sync EXCEPT !.at = "list"] /\ application' = application \cup {sync.app}
            /\ UNCHANGED underived
  /\ UNCHANGED <<registryVars, provider, sending, providerCh, service, consumerVars, consumerCh, adding>>

(* Seeded bug: the service is made of the provider the event is about. *)
ListProviders_OfEvent ==
  /\ sync.at = "list"
  /\ sync' = [at |-> "write", service |-> sync.service,
              providers |-> [a \in {b \in {sync.app} : provider[sync.service][b] # None} |->
                               provider[sync.service][a]]]
  /\ UNCHANGED <<registryVars, provider, sending, providerCh, service, underived, consumerVars, applicationVars>>

(* syncService lists the providers of the identity the event names. *)
ListProviders ==
  /\ sync.at = "list"
  /\ sync' = [at |-> "write", service |-> sync.service,
              providers |-> [a \in {b \in Apps : provider[sync.service][b] # None} |->
                               provider[sync.service][a]]]
  /\ UNCHANGED <<registryVars, provider, sending, providerCh, service, underived, consumerVars, applicationVars>>

(* The language of the first provider, in the order of the keys, that lets one infer it. *)
InferLanguage(providers) ==
  LET known == {a \in DOMAIN providers : providers[a].language # ""}
  IN IF known = {} THEN "" ELSE providers[Min(known)].language

BuildServiceSpec(providers) ==
  [methods |-> UNION {providers[a].methods : a \in DOMAIN providers},
   language |-> InferLanguage(providers)]

(* syncService writes: nothing else does, so what it reads of the service stays true. *)
SyncService ==
  /\ sync.at = "write"
  /\ service' = [service EXCEPT ![sync.service] =
                   IF DOMAIN sync.providers = {} THEN None ELSE BuildServiceSpec(sync.providers)]
  /\ sync' = Idle
  /\ UNCHANGED <<registryVars, provider, sending, providerCh, underived, consumerVars, applicationVars>>

(* A read or a write fails: the event is given up. *)
SyncFails ==
  /\ sync # Idle /\ sync' = Idle /\ underived' = underived \cup {sync.service}
  /\ UNCHANGED <<registryVars, provider, sending, providerCh, service, consumerVars, applicationVars>>

-----------------------------------------------------------------------------
(* Consumers in Nacos: one Nacos service per identity, one instance per consumer *)

(* The list of a Nacos service changes; the informer sends the old list and the new one. *)
ListingChanges(s, new) ==
  /\ registry = "nacos" /\ changes < MaxChanges /\ new # listing[s]
  /\ changes' = changes + 1
  /\ listing' = [listing EXCEPT ![s] = new]
  /\ IF Len(noticeCh) < BufferSize
       THEN noticeCh' = Append(noticeCh, [service |-> s, old |-> listing[s], new |-> new])
            /\ UNCHANGED unlisted
       ELSE unlisted' = unlisted \cup {s} /\ UNCHANGED noticeCh
  /\ UNCHANGED <<registry, database, consumer, rpcInstance, records, swept, providerVars, applicationVars>>

(* The regular expressions know a version, or a group, but not both. *)
IsConsumerService(s) == s.version = "" \/ s.group = ""

(* Only the name is taken from a Nacos service, and the stored consumers are those of the name. *)
ParseServiceName(s) == s.name

StoredConsumers(s) == {c \in consumer : c[1].name = ParseServiceName(s)}

(* recordNacosConsumerEvents, recordNacosInstanceEvents: the lists are compared. *)
Recorded(e) ==
  [a \in Apps |-> records[e.service][a] + CASE a \in e.new \ e.old -> 1
                                            [] a \in e.old \ e.new -> -1
                                            [] OTHER -> 0]

(* What a subscriber's channel takes of a sequence of events. *)
Sent(ch, apps) == SubSeq(ch \o SetToSeq(apps), 1, Min({BufferSize, Len(ch) + Cardinality(apps)}))

(* processConsumerMetadataUpsert and processServiceConsumerDelete: what is stored for the   *)
(* name and not in this list is deleted, the rest added or updated.                           *)
ProcessConsumerMetadata(e) ==
  /\ consumer' = (consumer \ StoredConsumers(e.service)) \cup {<<e.service, a>> : a \in e.new}
  /\ swept' = (swept \cup {c[1] : c \in StoredConsumers(e.service)}) \ {e.service}
  /\ consumerCh' = Sent(consumerCh, e.new)
  /\ UNCHANGED rpcInstance

(* processRPCInstanceUpsert and processRPCInstanceDelete, under the name of the service. *)
ProcessRPCInstance(e) ==
  /\ rpcInstance' = {i \in rpcInstance : i[1] # e.service} \cup {<<e.service, a>> : a \in e.new}
  /\ UNCHANGED <<consumer, swept, consumerCh>>

ProcessNotice ==
  /\ noticeCh # <<>>
  /\ LET e == Head(noticeCh)
     IN /\ IF IsConsumerService(e.service) THEN ProcessConsumerMetadata(e) ELSE ProcessRPCInstance(e)
        /\ records' = [records EXCEPT ![e.service] = Recorded(e)]
  /\ noticeCh' = Tail(noticeCh)
  /\ UNCHANGED <<registryVars, providerVars, listing, unlisted, application, adding>>

-----------------------------------------------------------------------------
(* The consumer metadata subscriber *)

ReceiveConsumer ==
  /\ adding = None /\ consumerCh # <<>>
  /\ adding' = IF Head(consumerCh) \in application THEN None ELSE Head(consumerCh)
  /\ consumerCh' = Tail(consumerCh)
  /\ UNCHANGED <<registryVars, providerVars, consumerVars, application>>

(* An application that came into being meanwhile is written again or refused: no matter. *)
AddApplication ==
  /\ adding # None /\ adding' = None
  /\ application' = application \cup {adding}
  /\ UNCHANGED <<registryVars, providerVars, consumerVars, consumerCh>>

Next ==
  \/ \E s \in Services, a \in Apps : \E spec \in Specs \cup {None} : UpsertProvider(s, a, spec)
  \/ SendProvider \/ ReceiveProvider \/ EnsureApplication \/ ListProviders \/ SyncService \/ SyncFails
  \/ \E s \in Services : \E new \in SUBSET Apps : ListingChanges(s, new)
  \/ ProcessNotice \/ ReceiveConsumer \/ AddApplication

Spec == Init /\ [][Next]_vars

-----------------------------------------------------------------------------
(* Every resource and every channel keeps its shape. *)
TypeOK ==
  /\ application \subseteq Apps /\ adding \in Apps \cup {None}
  /\ Len(providerCh) <= BufferSize /\ Len(noticeCh) <= BufferSize /\ Len(consumerCh) <= BufferSize
  /\ consumer \subseteq Services \X Apps /\ rpcInstance \subseteq Services \X Apps
  /\ \A s \in Services : records[s] \in [Apps -> -1..2]

(* When the subscriber has nothing left to do, a service exists exactly if somebody provides  *)
(* it, with the methods of all its providers (service_provider_metadata.go:164-257), whatever *)
(* changed while it listed them; unless an event about the service was dropped by the bus or  *)
(* given up, as when another subscriber created the application first (:155-158).              *)
ServiceFollowsProviders ==
  sending = None /\ providerCh = <<>> /\ sync = Idle =>
    \A s \in Services \ underived :
      LET of == [a \in {b \in Apps : provider[s][b] # None} |-> provider[s][a]]
      IN service[s] = IF DOMAIN of = {} THEN None ELSE BuildServiceSpec(of)

(* Once the notices are worked off (nacos_service.go:98-211) the consumers of a service are   *)
(* those Nacos lists, or none when the notice of another version or group of its name came     *)
(* later; those of a service with both a version and a group are filed as instances instead.  *)
ConsumersFollowRegistry ==
  noticeCh = <<>> =>
    \A s \in Services \ unlisted :
      LET stored == {c[2] : c \in {d \in consumer : d[1] = s}}
          filed == {i[2] : i \in {j \in rpcInstance : j[1] = s}}
      IN IF IsConsumerService(s) THEN stored = (IF s \in swept THEN {} ELSE listing[s]) /\ filed = {}
                                 ELSE filed = listing[s] /\ stored = {}

(* The records of the timeline (nacos_service.go:356-480) replay what Nacos lists: added less  *)
(* removed is one for who is listed and nought for who is not, also for consumers that the      *)
(* store has lost to another version's notice.                                                   *)
RecordsReplay ==
  noticeCh = <<>> =>
    \A s \in Services \ unlisted : \A a \in Apps :
      records[s][a] = IF a \in listing[s] THEN 1 ELSE 0
=============================================================================
