--------------------------- MODULE StoreBackends ---------------------------
(***************************************************************************)
(* The memory store and the database store behind one interface, driven side  *)
(* by side by the same calls, one at a time (what calls of several callers do  *)
(* to each is the subject of GormStore and MemoryStore).  A string is a         *)
(* sequence of characters: the prefix trees and LIKE look inside.               *)
(***************************************************************************)
EXTENDS Integers, SequencesExt, FiniteSetsExt

CONSTANTS
  Kinds,        \* kinds of resource to try
  Resources,    \* per kind: the resources that are written
  Conditions,   \* per kind: [index, value, operator]
  Order,        \* the keys of the resources, sorted
  PageSizes,
  MaxWrites     \* bound: writes

VARIABLES kind, mem, db, writes,
  parted,    \* history: the keys on which the stores have taken a write differently
  stale      \* history: the keys of which a tree may hold an old value

vars == <<kind, mem, db, writes, parted, stale>>

Key(r) == r.mesh \o <<"/">> \o r.name

-----------------------------------------------------------------------------
(* Index functions: the values of a resource under an index *)

NonBlank(s) == IF s = <<>> THEN {} ELSE {s}
ByMesh(r) == {r.mesh}

ByInstanceAppName(r) == NonBlank(r.app)
ByInstanceIp(r) == NonBlank(r.ip)
ByInstanceName(r) == NonBlank(r.name)
ByRPCInstanceAppName(r) == NonBlank(r.app)
ByRuntimeInstanceIp(r) == NonBlank(r.ip)
ByRuntimeInstanceName(r) == NonBlank(r.name)
ByServiceName(r) == {r.name}
ByServiceProviderAppName(r) == {r.app}
ByServiceProviderServiceName(r) == {r.service}
ByServiceProviderServiceKey(r) == {r.service \o <<":">> \o r.version \o <<":">> \o r.group}
ByServiceConsumerAppName(r) == {r.app}
ByServiceConsumerServiceName(r) == {r.service}
ByServiceConsumerServiceKey(r) == {r.service \o <<":">> \o r.version \o <<":">> \o r.group}
ByLifecycleEventInvolvedObjKind(r) == NonBlank(r.objKind)
ByLifecycleEventInvolvedObjName(r) == NonBlank(r.objName)
ByLifecycleEventType(r) == NonBlank(r.type)
ByLifecycleEventSource(r) == NonBlank(r.source)
ByParentRule(r) == {r.parentKind \o <<"/">> \o r.parentMesh \o <<"/">> \o r.parentName}

Registered(k) ==
  CASE k = "Instance" -> {"app", "ip", "name"}
    [] k = "RPCInstance" -> {"app"}
    [] k = "RuntimeInstance" -> {"ip", "name"}
    [] k = "Service" -> {"name"}
    [] k \in {"ServiceProviderMetadata", "ServiceConsumerMetadata"} -> {"app", "service", "key"}
    [] k = "LifecycleEvent" -> {"objKind", "objName", "type", "source"}
    [] k = "RuleVersion" -> {"parent"}
    [] OTHER -> {}

(* IndexersRegistry: the mesh is an index of every kind. *)
Indexers == Registered(kind) \cup {"mesh"}

Values(index, r) ==
  CASE index = "mesh" -> ByMesh(r)
    [] kind = "Instance" -> (CASE index = "app" -> ByInstanceAppName(r) [] index = "ip" -> ByInstanceIp(r)
                               [] index = "name" -> ByInstanceName(r))
    [] kind = "RPCInstance" -> ByRPCInstanceAppName(r)
    [] kind = "RuntimeInstance" -> (CASE index = "ip" -> ByRuntimeInstanceIp(r) [] index = "name" -> ByRuntimeInstanceName(r))
    [] kind = "Service" -> ByServiceName(r)
    [] kind = "ServiceProviderMetadata" ->
         (CASE index = "app" -> ByServiceProviderAppName(r) [] index = "service" -> ByServiceProviderServiceName(r)
            [] index = "key" -> ByServiceProviderServiceKey(r))
    [] kind = "ServiceConsumerMetadata" ->
         (CASE index = "app" -> ByServiceConsumerAppName(r) [] index = "service" -> ByServiceConsumerServiceName(r)
            [] index = "key" -> ByServiceConsumerServiceKey(r))
    [] kind = "LifecycleEvent" ->
         (CASE index = "objKind" -> ByLifecycleEventInvolvedObjKind(r) [] index = "objName" -> ByLifecycleEventInvolvedObjName(r)
            [] index = "type" -> ByLifecycleEventType(r) [] index = "source" -> ByLifecycleEventSource(r))
    [] kind = "RuleVersion" -> ByParentRule(r)

Put(f, r) == [k \in DOMAIN f \cup {Key(r)} |-> IF k = Key(r) THEN r ELSE f[k]]
Without(f, k) == [i \in DOMAIN f \ {k} |-> f[i]]
Empty == [k \in {} |-> {}]

-----------------------------------------------------------------------------
(* The memory store: a client-go indexer, and a tree of "value/key" per index *)

TreeKeys(r) == {<<i, v \o <<"/">> \o Key(r)>> : <<i, v>> \in {p \in Indexers \X UNION {Values(i, r) : i \in Indexers} : p[2] \in Values(p[1], r)}}

MemAddToTrees(trees, r) == trees \cup TreeKeys(r)
MemRemoveFromTrees(trees, r) == trees \ TreeKeys(r)

MemAdd(s, r) == [items |-> Put(s.items, r), trees |-> MemAddToTrees(s.trees, r)]

MemUpdate(s, r) ==
  LET old == IF Key(r) \in DOMAIN s.items THEN MemRemoveFromTrees(s.trees, s.items[Key(r)]) ELSE s.trees
  IN [items |-> Put(s.items, r), trees |-> MemAddToTrees(old, r)]

(* The values that are removed from the trees are those of the object the caller has. *)
MemDelete(s, r) == [items |-> Without(s.items, Key(r)), trees |-> MemRemoveFromTrees(s.trees, r)]

MemReplace(rs) ==
  [items |-> [k \in {Key(r) : r \in rs} |-> CHOOSE r \in rs : Key(r) = k], trees |-> UNION {TreeKeys(r) : r \in rs}]

(* client-go keeps its own indices up to date. *)
ClientGoIndexKeys(s, index, value) == {k \in DOMAIN s.items : value \in Values(index, s.items[k])}

AfterSlash(s) == LET i == SelectInSeq(s, LAMBDA c : c = "/") IN SubSeq(s, i + 1, Len(s))

(* WalkPrefix, and what follows the first slash. *)
MemKeysByPrefix(s, index, prefix) == {AfterSlash(t[2]) : t \in {u \in s.trees : u[1] = index /\ IsPrefix(prefix, u[2])}}

MemKeysByIndexes(s, cs) ==
  LET keys(c) == IF c.operator = "Equals" THEN ClientGoIndexKeys(s, c.index, c.value) ELSE MemKeysByPrefix(s, c.index, c.value)
  IN IF cs = <<>> THEN {} ELSE {k \in keys(cs[1]) : \A i \in DOMAIN cs : k \in keys(cs[i])}

Sorted(keys) == SelectSeq(Order, LAMBDA k : k \in keys)

MemGetByKeys(s, keys) ==
  LET there == SelectSeq(keys, LAMBDA k : k \in DOMAIN s.items) IN [i \in DOMAIN there |-> s.items[there[i]]]

MemListByIndexes(s, cs) == MemGetByKeys(s, Sorted(MemKeysByIndexes(s, cs)))

(* Keys that have gone are skipped, and not counted when the loop comes across them. *)
MemPageListByIndexes(s, cs, offset, size) ==
  LET keys == Sorted(MemKeysByIndexes(s, cs))
      from == IF offset < Len(keys) THEN SubSeq(keys, offset + 1, Len(keys)) ELSE <<>>
      found == MemGetByKeys(s, from)
  IN [total |-> Len(keys) - (Len(from) - Len(found)), data |-> SubSeq(found, 1, IF size < Len(found) THEN size ELSE Len(found))]

-----------------------------------------------------------------------------
(* The database store: a table of the kind, and the entries of its indices *)

DbEntries(r) == {<<i, v, Key(r)>> : <<i, v>> \in {p \in Indexers \X UNION {Values(i, r) : i \in Indexers} : p[2] \in Values(p[1], r)}}

(* persistIndexEntriesTx, with or without an old resource. *)
PersistIndexEntries(entries, r, old) == {e \in entries : ~(old /\ e[3] = Key(r))} \cup DbEntries(r)

DbAdd(s, r) ==
  IF Key(r) \in DOMAIN s.rows THEN s
  ELSE [rows |-> Put(s.rows, r), entries |-> PersistIndexEntries(s.entries, r, FALSE)]

(* Seeded bug: the old entries stay. *)
DbUpdate_OldEntries(s, r) ==
  IF Key(r) \notin DOMAIN s.rows THEN s
  ELSE [rows |-> Put(s.rows, r), entries |-> PersistIndexEntries(s.entries, r, FALSE)]

DbUpdate(s, r) ==
  IF Key(r) \notin DOMAIN s.rows THEN s
  ELSE [rows |-> Put(s.rows, r), entries |-> PersistIndexEntries(s.entries, r, TRUE)]

DbDelete(s, r) == [rows |-> Without(s.rows, Key(r)), entries |-> {e \in s.entries : e[3] # Key(r)}]

DbReplace(rs) ==
  [rows |-> [k \in {Key(r) : r \in rs} |-> CHOOSE r \in rs : Key(r) = k], entries |-> UNION {DbEntries(r) : r \in rs}]

(* Nothing is done where there are no rows. *)
BackfillIndices(s) ==
  IF DOMAIN s.rows = {} THEN s
  ELSE [s EXCEPT !.entries = UNION {DbEntries(s.rows[k]) : k \in DOMAIN s.rows}]

DbListKeys(s) == DOMAIN s.rows
DbList(s) == {s.rows[k] : k \in DOMAIN s.rows}
DbGetByKey(s, key) == IF key \in DOMAIN s.rows THEN {s.rows[key]} ELSE {}
DbGetByKeys(s, keys) == {s.rows[k] : k \in keys \cap DOMAIN s.rows}
DbListIndexFuncValues(s, index) == {e[2] : e \in {d \in s.entries : d[1] = index}}

FindByIndex(s, index, value) == DbGetByKeys(s, {e[3] : e \in {d \in s.entries : d[1] = index /\ d[2] = value}})

DbIndexKeys(s, index, value) == {Key(r) : r \in FindByIndex(s, index, value)}
DbByIndex(s, index, value) == FindByIndex(s, index, value)

(* The first value of the object only. *)
DbIndex(s, index, r) == UNION {FindByIndex(s, index, v) : v \in Values(index, r)}

(* LIKE: an underscore stands for any character. *)
LikePrefix(pattern, s) ==
  /\ Len(pattern) <= Len(s)
  /\ \A i \in DOMAIN pattern : pattern[i] \in {s[i], "_"}

DbKeysByPrefix(s, index, prefix) == {e[3] : e \in {d \in s.entries : d[1] = index /\ LikePrefix(prefix, d[2])}}

DbKeysByIndexes(s, cs) ==
  LET keys(c) == IF c.operator = "Equals" THEN DbIndexKeys(s, c.index, c.value) ELSE DbKeysByPrefix(s, c.index, c.value)
  IN IF cs = <<>> THEN {} ELSE {k \in keys(cs[1]) : \A i \in DOMAIN cs : k \in keys(cs[i])}

SortedByKey(rs) == LET keys == Sorted({Key(r) : r \in rs}) IN [i \in DOMAIN keys |-> CHOOSE r \in rs : Key(r) = keys[i]]

DbListByIndexes(s, cs) == SortedByKey(DbGetByKeys(s, DbKeysByIndexes(s, cs)))

(* The page is cut from the sorted keys; the rows of a page come in no order. *)
DbPageListByIndexes(s, cs, offset, size) ==
  LET keys == Sorted(DbKeysByIndexes(s, cs))
      end == IF offset + size > Len(keys) THEN Len(keys) ELSE offset + size
  IN [total |-> Len(keys), data |-> IF offset >= Len(keys) THEN {} ELSE DbGetByKeys(s, ToSet(SubSeq(keys, offset + 1, end)))]

-----------------------------------------------------------------------------
Init ==
  /\ kind \in Kinds /\ mem = [items |-> Empty, trees |-> {}] /\ db = [rows |-> Empty, entries |-> {}]
  /\ writes = 0 /\ parted = {} /\ stale = {}

Write == writes < MaxWrites /\ writes' = writes + 1 /\ UNCHANGED kind

Add(r) ==
  /\ Write /\ mem' = MemAdd(mem, r) /\ db' = DbAdd(db, r)
  /\ parted' = IF Key(r) \in DOMAIN db.rows THEN parted \cup {Key(r)} ELSE parted
  /\ stale' = IF Key(r) \in DOMAIN mem.items THEN stale \cup {Key(r)} ELSE stale

Update(r) ==
  /\ Write /\ mem' = MemUpdate(mem, r) /\ db' = DbUpdate(db, r)
  /\ parted' = IF Key(r) \in DOMAIN db.rows THEN parted ELSE parted \cup {Key(r)}
  /\ UNCHANGED stale

(* The caller may have an older object. *)
Delete(r) ==
  /\ Write /\ mem' = MemDelete(mem, r) /\ db' = DbDelete(db, r)
  /\ stale' = IF Key(r) \in DOMAIN mem.items /\ mem.items[Key(r)] # r THEN stale \cup {Key(r)} ELSE stale
  /\ UNCHANGED parted

Replace ==
  /\ Write
  /\ \E rs \in kSubset(2, Resources[kind]) :
       /\ Cardinality({Key(r) : r \in rs}) = 2
       /\ mem' = MemReplace(rs) /\ db' = DbReplace(rs)
  /\ parted' = {} /\ stale' = {}

(* The database outlives the process; a replica that starts rebuilds the entries. *)
Restart == Write /\ db' = BackfillIndices(db) /\ UNCHANGED <<mem, parted, stale>>

Next == Restart \/ Replace \/ \E r \in Resources[kind] : Add(r) \/ Update(r) \/ Delete(r)

Spec == Init /\ [][Next]_vars

-----------------------------------------------------------------------------
(* The contents and index entries of both stores are of the kind. *)
TypeOK ==
  /\ ToSet(Order) = {Key(r) : r \in UNION {Resources[k] : k \in Kinds}}
  /\ \A k \in DOMAIN mem.items : mem.items[k] \in Resources[kind] /\ Key(mem.items[k]) = k
  /\ \A e \in db.entries : e[1] \in Indexers /\ e[3] \in DOMAIN db.rows

Questions == {<<>>} \cup {<<c>> : c \in Conditions[kind]} \cup {<<c, d>> : c, d \in Conditions[kind]}

Plain(s) == \A i \in DOMAIN s : s[i] \notin {"/", "_", "%"}

(* A row meets a condition, read off the resource itself. *)
Meets(r, c) ==
  \E v \in Values(c.index, r) : IF c.operator = "Equals" THEN v = c.value ELSE IsPrefix(c.value, v)

(* The database store answers a query with exactly the resources that meet all its conditions, in  *)
(* the order of their keys, cut into pages of which none is missing or twice, with a total that      *)
(* counts them (gorm_store.go:506-549, :595-676), after any sequence of writes and restarts.  A       *)
(* prefix that has an underscore also finds what LIKE takes it for; no condition at all finds nothing. *)
DatabaseAnswersExactly ==
  \A cs \in Questions : (\A i \in DOMAIN cs : cs[i].operator = "Equals" \/ Plain(cs[i].value)) =>
    LET wanted == IF cs = <<>> THEN {} ELSE {r \in DbList(db) : \A i \in DOMAIN cs : Meets(r, cs[i])}
        list == DbListByIndexes(db, cs)
    IN /\ ToSet(list) = wanted /\ Len(list) = Cardinality(wanted)
       /\ \A i, j \in DOMAIN list : i < j => IndexFirstSubSeq(<<Key(list[i])>>, Order) < IndexFirstSubSeq(<<Key(list[j])>>, Order)
       /\ \A size \in PageSizes :
            LET page(n) == DbPageListByIndexes(db, cs, n * size, size)
                pages == 0..Len(list)
            IN /\ UNION {page(n).data : n \in pages} = wanted /\ page(0).total = Cardinality(wanted)
               /\ \A n, o \in pages : n # o => page(n).data \cap page(o).data = {}

(* The stores can be exchanged: as long as no write was refused by one and taken by the other        *)
(* (Add of a key that exists, Update of one that does not: memory/store.go:76-108, gorm_store.go:     *)
(* 119-217) both answer every query by value alike, pages and totals included, and also by prefix      *)
(* unless a tree holds an old value or the strings have slashes, which the tree takes for the end of   *)
(* a value, or underscores, which LIKE takes for any character.                                          *)
StoresAgree ==
  parted = {} =>
    /\ {mem.items[k] : k \in DOMAIN mem.items} = DbList(db)
    /\ DOMAIN mem.items = DbListKeys(db)
    /\ \A k \in ToSet(Order) : {mem.items[i] : i \in DOMAIN mem.items \cap {k}} = DbGetByKey(db, k)
    /\ \A index \in Indexers : LET values == UNION {Values(index, mem.items[k]) : k \in DOMAIN mem.items}
                               IN /\ values = DbListIndexFuncValues(db, index)
                                  /\ \A v \in values : {mem.items[k] : k \in ClientGoIndexKeys(mem, index, v)} = DbByIndex(db, index, v)
    /\ \A index \in Indexers, r \in Resources[kind] :
         UNION {{mem.items[k] : k \in ClientGoIndexKeys(mem, index, v)} : v \in Values(index, r)} = DbIndex(db, index, r)
    /\ \A cs \in Questions :
         (\A i \in DOMAIN cs : cs[i].operator = "HasPrefix" =>
            /\ stale = {} /\ Plain(cs[i].value)
            /\ \A r \in DbList(db) : \A v \in Values(cs[i].index, r) : Plain(v)) =>
         /\ MemListByIndexes(mem, cs) = DbListByIndexes(db, cs)
         /\ \A size \in PageSizes, offset \in 0..3 :
              LET m == MemPageListByIndexes(mem, cs, offset, size)
                  d == DbPageListByIndexes(db, cs, offset, size)
              IN m.total = d.total /\ ToSet(m.data) = d.data
=============================================================================
