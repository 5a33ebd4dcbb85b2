--------------------------- MODULE ZookeeperNodes ---------------------------
(***************************************************************************)
(* The nodes of ZooKeeper under one base path and the resources they are     *)
(* turned into.  An upsert is made from the path and the data of a node, a   *)
(* deletion from the path alone: the watch is right only if both come to the *)
(* same name.  Losses of the watcher are the subject of ZookeeperRules; here *)
(* every change is reported, in order.                                       *)
(***************************************************************************)
EXTENDS Integers, FiniteSetsExt, SequencesExt

CONSTANTS
  Names,         \* services, configurations and applications: sequences of characters
  Ips, Ports,    \* the same for addresses and ports
  Datas,         \* contents of a node
  MaxChanges,    \* bound: changes of the tree
  None

VARIABLES
  kind,      \* of the list watcher
  tree,      \* the data of each node, or None
  events,    \* reported and not yet handled
  store, changes,
  excused    \* history: names that two nodes or a node and its path disagree on

vars == <<kind, tree, events, store, changes, excused>>

(* A segment of a path is split at the colons, a path at the slashes. *)
Base(k) ==
  CASE k = "ServiceProviderMapping" -> <<"dubbo", "mapping">>
    [] k = "ZKConfig" -> <<"dubbo", "config">>
    [] k = "ZKMetadata" -> <<"dubbo", "metadata">>
    [] k = "RPCInstance" -> <<"services">>

Kinds == {"ServiceProviderMapping", "ZKConfig", "ZKMetadata", "RPCInstance"}

Word(name) == <<name>>

Endpoint(ip, port) == <<ip, port>>

Plain == {<<Word(n)>> : n \in Names} \cup {<<Word(n), Word(o)>> : n, o \in Names}

(* The nodes there may be below the base path. *)
Paths(k) ==
  IF k = "RPCInstance"
  THEN {<<Word(n)>> : n \in Names} \cup
       {<<Word(n), Endpoint(i, p)>> : n \in Names, i \in Ips, p \in Ports}
  ELSE Plain

(* What is registered as an instance; an instance may be announced at a path that is not its own. *)
Registrations ==
  [name : Names, address : Ips, port : Ports, payload : {"none", "metadata"}]

Contents(k, p) ==
  IF k # "RPCInstance" THEN Datas
  ELSE {[name |-> None, address |-> None, port |-> None, payload |-> "none"]} \cup
       IF Len(p) < 2 THEN {}
       ELSE {d \in Registrations : d.payload = "none" =>
               d.name = p[1][1] /\ d.address = p[2][1] /\ d.port = p[2][2]}

-----------------------------------------------------------------------------
(* A node becomes a resource.  Segments are counted with the empty one before *)
(* the first slash.                                                            *)

Segments(k, p) == 1 + Len(Base(k)) + Len(p)

Resource(name, data) == [name |-> name, data |-> data]

(* The parts follow each other without a separator before the address. *)
BuildInstanceResName(app, ip, port) == app \o ip \o <<":">> \o port

ToUpsertMappingResource(p, d) ==
  IF Segments(kind, p) # 4 THEN None ELSE Resource(<<p[1]>>, d)

ToDeleteMappingResource(p) ==
  IF Segments(kind, p) # 4 THEN None ELSE <<p[1]>>

ToUpsertZKConfigResource(p, d) ==
  IF Segments(kind, p) # 4 THEN None ELSE Resource(<<p[1]>>, d)

ToDeleteZKConfigResource(p) ==
  IF Segments(kind, p) # 4 THEN None ELSE <<p[1]>>

ToUpsertZKMetadataResource(p, d) ==
  IF Segments(kind, p) < 5 THEN None ELSE Resource(p, d)

(* Seeded bug: only the last segment names the resource. *)
ToDeleteZKMetadataResource_Last(p) ==
  IF Segments(kind, p) < 5 THEN None ELSE <<Last(p)>>

ToDeleteZKMetadataResource(p) ==
  IF Segments(kind, p) < 5 THEN None ELSE p

ToRPCInstance(d) == Resource(BuildInstanceResName(d.name, d.address, d.port), d)

ToUpsertRPCInstanceResource(p, d) ==
  IF d.name = None \/ d.address = None \/ d.port = None \/ d.payload # "metadata" THEN None
  ELSE ToRPCInstance(d)

(* A node below the application without a colon would stop the process. *)
ToDeleteRPCInstanceResource(p) ==
  IF Segments(kind, p) < 4 THEN None ELSE BuildInstanceResName(p[1][1], p[2][1], p[2][2])

ToUpsertResource(p, d) ==
  CASE kind = "ServiceProviderMapping" -> ToUpsertMappingResource(p, d)
    [] kind = "ZKConfig" -> ToUpsertZKConfigResource(p, d)
    [] kind = "ZKMetadata" -> ToUpsertZKMetadataResource(p, d)
    [] OTHER -> ToUpsertRPCInstanceResource(p, d)

ToDeleteResource(p) ==
  CASE kind = "ServiceProviderMapping" -> ToDeleteMappingResource(p)
    [] kind = "ZKConfig" -> ToDeleteZKConfigResource(p)
    [] kind = "ZKMetadata" -> ToDeleteZKMetadataResource(p)
    [] OTHER -> ToDeleteRPCInstanceResource(p)

ListRecursively(t) ==
  {ToUpsertResource(p, t[p]) : p \in {p \in DOMAIN t : t[p] # None}} \ {None}

-----------------------------------------------------------------------------
(* ZooKeeper: a node is created under its parent and deleted without children *)

(* The names a change touches that the path and the data do not agree on: the  *)
(* content cannot be read any more, or announces another instance; or another  *)
(* application and address run on to the same name.                            *)
Announces(p, d) == d.name = p[1][1] /\ d.address = p[2][1] /\ d.port = p[2][2]

RunTogether(p, q) == p # q /\ p[2][2] = q[2][2] /\ p[1][1] \o p[2][1] = q[1][1] \o q[2][1]

Readable(p, d) == d # None /\ ToUpsertResource(p, d) # None

Disputed(p, d) ==
  LET here == {x \in {tree[p], d} : Readable(p, x)}
      names == {ToUpsertResource(p, x).name : x \in here} \cup {ToDeleteResource(p)}
  IN IF /\ kind = "RPCInstance" /\ Len(p) = 2
        /\ \/ \E x \in here : ~Announces(p, x)
           \/ Readable(p, tree[p]) /\ d # None /\ ~Readable(p, d)
           \/ \E q \in DOMAIN tree : Len(q) = 2 /\ tree[q] # None /\ RunTogether(p, q)
     THEN names ELSE {}

Report(p, d, type) ==
  /\ changes < MaxChanges
  /\ changes' = changes + 1
  /\ tree' = [tree EXCEPT ![p] = d]
  /\ events' = Append(events, [type |-> type, path |-> p, data |-> d])
  /\ excused' = excused \cup Disputed(p, d)
  /\ UNCHANGED <<kind, store>>

CreateNode(p) ==
  /\ tree[p] = None /\ (Len(p) > 1 => tree[Front(p)] # None)
  /\ \E d \in Contents(kind, p) : Report(p, d, "NodeCreated")

ChangeNode(p) ==
  /\ tree[p] # None
  /\ \E d \in Contents(kind, p) \ {tree[p]} : Report(p, d, "NodeChanged")

DeleteNode(p) ==
  /\ tree[p] # None
  /\ \A q \in DOMAIN tree : q # p /\ IsPrefix(p, q) => tree[q] = None
  /\ Report(p, None, "NodeDeleted")

-----------------------------------------------------------------------------
(* The list watcher; the informer puts what it sends into the store. *)

Named(name) == {r \in store : r.name = name}

HandleEvent ==
  /\ events # <<>>
  /\ LET e == Head(events)
         res == IF e.type = "NodeDeleted" THEN None ELSE ToUpsertResource(e.path, e.data)
     IN store' = IF e.type = "NodeDeleted" THEN store \ Named(ToDeleteResource(e.path))
                 ELSE IF res = None THEN store ELSE (store \ Named(res.name)) \cup {res}
  /\ events' = Tail(events)
  /\ UNCHANGED <<kind, tree, changes, excused>>

Init ==
  /\ kind \in Kinds
  /\ tree = [p \in Paths(kind) |-> None]
  /\ events = <<>> /\ store = {} /\ changes = 0 /\ excused = {}

Next ==
  \/ HandleEvent
  \/ \E p \in DOMAIN tree : CreateNode(p) \/ ChangeNode(p) \/ DeleteNode(p)

Spec == Init /\ [][Next]_vars

-----------------------------------------------------------------------------
TypeOK ==
  /\ DOMAIN tree = Paths(kind)
  /\ \A p \in DOMAIN tree : tree[p] # None => tree[p] \in Contents(kind, p)
  /\ \A i \in DOMAIN events : events[i].path \in Paths(kind)
  /\ \A r, q \in store : r.name = q.name => r = q
  /\ changes \in 0 .. MaxChanges

(* Once the events are handled the store holds what listing the nodes again    *)
(* would give, so that each deletion has found what an upsert put there        *)
(* (factory.go:99-232, listerwatcher.go:157-198).  Names in dispute are left   *)
(* out: an instance announced at a path that is not its own, content that can  *)
(* no longer be read, and an application and an address that run together.     *)
NodesAreMirrored ==
  events = <<>> =>
    {r \in store : r.name \notin excused} =
    {r \in ListRecursively(tree) : r.name \notin excused}
=============================================================================
