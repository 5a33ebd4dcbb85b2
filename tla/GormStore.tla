------------------------------ MODULE GormStore ------------------------------
(***************************************************************************)
(* The database store of one resource kind (pkg/store/dbcommon): its table *)
(* of resources and its rows of the shared resource_indices table.         *)
(* A writer or reader is one call, made on any replica; a starter is a     *)
(* replica whose Init rebuilds the index rows while the others work.  A    *)
(* transaction is one step, a statement outside a transaction is one step. *)
(***************************************************************************)
EXTENDS Integers, Sequences, FiniteSetsExt

CONSTANTS
  Writers,      \* calls of Add, Update or Delete
  Readers,      \* calls of ListByIndexes or PageListByIndexes
  Starters,     \* replicas that run Init
  Keys,         \* resource keys, numbers in the order of the strings
  Resources,    \* contents of a resource
  None,         \* no resource
  IndexValues,  \* entries of resource_indices, each with its index name
  IndexFuncs,   \* the values the registered indexers compute for a resource
  Requests,     \* sequences of IndexConditions a reader may ask for
  Pages         \* PageReqs a reader may ask for: [offset, size]

\* An IndexCondition: its operator and the values that satisfy it.
Condition == [operator : {"Equals", "HasPrefix"}, values : SUBSET IndexValues]

ASSUME StoreAssumption ==
  /\ Keys \subseteq Nat /\ IsFiniteSet(Keys)
  /\ None \notin Resources
  /\ IndexFuncs \in [Resources -> SUBSET IndexValues]
  /\ Requests \subseteq Seq(Condition)
  /\ Pages \subseteq [offset : Nat, size : Nat]

VARIABLES
  rows,      \* the table of the kind: resource_key to data
  indices,   \* the kind's rows of resource_indices; no query tells duplicates apart
  write,     \* the Add, Update or Delete call of each writer
  loaded,    \* the models a starter's backfillIndices has read, or {}
  query,     \* the query of each reader
  lasting,   \* history: keys that matched a query ever since it began
  seen,      \* history: keys that matched a condition at some time since then
  suspect    \* history: keys a backfill has indexed from data no longer current

vars == <<rows, indices, write, loaded, query, lasting, seen, suspect>>

Table == [Keys -> Resources \cup {None}]

New == [at |-> "new"]

Over == [at |-> "over"]

Writes ==
  [at : {"count", "create", "get", "update"}, key : Keys, to : Resources]
    \cup [at : {"delete"}, key : Keys]

\* A query: the conditions still to look up, the keys found so far, the keys of
\* an Equals condition whose resources are to be fetched, and the page asked for
\* ({} for ListByIndexes).
Queries ==
  [at : {"lookup", "recheck", "fetch", "done"}, request : Requests, todo : Seq(Condition),
   keys : SUBSET Keys, candidates : SUBSET Keys, page : SUBSET Pages, result : SUBSET Keys]

TypeOK ==
  /\ rows \in Table
  /\ indices \subseteq Keys \X IndexValues
  /\ write \in [Writers -> Writes \cup {New, Over}]
  /\ loaded \in [Starters -> {{}} \cup {{t} : t \in Table}]
  /\ query \in [Readers -> Queries \cup {New, Over}]
  /\ lasting \in [Readers -> SUBSET Keys]
  /\ seen \in [Readers -> [Condition -> SUBSET Keys]]
  /\ suspect \subseteq Keys

-----------------------------------------------------------------------------
(* Index rows                                                               *)

\* What the registered indexers compute for table t at key k.
Entries(t, k) == IF t[k] = None THEN {} ELSE {k} \X IndexFuncs[t[k]]

EntriesOf(k) == {e \in indices : e[1] = k}

Indexed(c) == {k \in Keys : \E v \in c.values : <<k, v>> \in indices}

Present(S) == {k \in S : rows[k] # None}

Matches(c, k) == rows[k] # None /\ IndexFuncs[rows[k]] \cap c.values # {}

\* The database as earlier calls have left it.
Init ==
  /\ rows \in Table
  /\ indices = UNION {Entries(rows, k) : k \in Keys}
  /\ write = [w \in Writers |-> New]
  /\ loaded = [s \in Starters |-> {}]
  /\ query = [r \in Readers |-> New]
  /\ lasting = [r \in Readers |-> {}]
  /\ seen = [r \in Readers |-> [c \in Condition |-> {}]]
  /\ suspect = {}

-----------------------------------------------------------------------------
(* Add, Update and Delete                                                   *)

At(w, at) == write[w].at = at

Return(w) == write' = [write EXCEPT ![w] = Over]

Goto(w, at) == write' = [write EXCEPT ![w] = [at |-> at, key |-> @.key, to |-> @.to]]

BeginWrite(w) ==
  /\ At(w, "new")
  /\ \E k \in Keys :
       \/ \E r \in Resources, at \in {"count", "get"} :
            write' = [write EXCEPT ![w] = [at |-> at, key |-> k, to |-> r]]
       \/ write' = [write EXCEPT ![w] = [at |-> "delete", key |-> k]]
  /\ UNCHANGED <<rows, indices, loaded, query, suspect>>

\* Add counts the rows of the key before its transaction, Update reads the row.
AddCount(w) ==
  /\ At(w, "count")
  /\ IF rows[write[w].key] # None THEN Return(w) ELSE Goto(w, "create")
  /\ UNCHANGED <<rows, indices, loaded, query, suspect>>

UpdateGet(w) ==
  /\ At(w, "get")
  /\ IF rows[write[w].key] = None THEN Return(w) ELSE Goto(w, "update")
  /\ UNCHANGED <<rows, indices, loaded, query, suspect>>

\* persistIndexEntriesTx after the table has become t, for an Add, which deletes
\* nothing, and for an Update.
AddEntries(t, k) == indices' = indices \cup Entries(t, k)

\* Seeded bug: the old entries stay.
ReplaceEntries_Keep(t, k) == indices' = indices \cup Entries(t, k)

ReplaceEntries(t, k) == indices' = (indices \ EntriesOf(k)) \cup Entries(t, k)

DeleteEntries(k) == indices' = indices \ EntriesOf(k)

\* The unique index on resource_key fails the transaction of the later of two Adds.
AddTx(w) ==
  /\ At(w, "create")
  /\ LET k == write[w].key
         t == [rows EXCEPT ![k] = write[w].to] IN
     \/ rows[k] = None /\ rows' = t /\ AddEntries(t, k)
     \/ rows[k] # None /\ UNCHANGED <<rows, indices>>
  /\ Return(w)
  /\ UNCHANGED <<loaded, query, suspect>>

\* No row affected: the row has been deleted since, and the transaction fails.
UpdateTx(w) ==
  /\ At(w, "update")
  /\ LET k == write[w].key
         t == [rows EXCEPT ![k] = write[w].to] IN
     \/ rows[k] # None /\ rows' = t /\ ReplaceEntries(t, k) /\ suspect' = suspect \ {k}
     \/ rows[k] = None /\ UNCHANGED <<rows, indices, suspect>>
  /\ Return(w)
  /\ UNCHANGED <<loaded, query>>

DeleteTx(w) ==
  /\ At(w, "delete")
  /\ LET k == write[w].key IN
     \/ /\ rows[k] # None
        /\ rows' = [rows EXCEPT ![k] = None]
        /\ DeleteEntries(k)
        /\ suspect' = suspect \ {k}
     \/ rows[k] = None /\ UNCHANGED <<rows, indices, suspect>>
  /\ Return(w)
  /\ UNCHANGED <<loaded, query>>

\* A database error or a crash: nothing of the transaction is kept.
WriteFails(w) ==
  /\ write[w] \notin {New, Over}
  /\ Return(w)
  /\ UNCHANGED <<rows, indices, loaded, query, suspect>>

-----------------------------------------------------------------------------
(* backfillIndices                                                          *)

\* The models are read before the transaction; an empty table ends it.
LoadModels(s) ==
  /\ loaded[s] = {}
  /\ \E k \in Keys : rows[k] # None
  /\ loaded' = [loaded EXCEPT ![s] = {rows}]
  /\ UNCHANGED <<rows, indices, write, query, suspect>>

\* The kind's index rows are dropped and rebuilt from the models read.
Rebuild(s) ==
  \E t \in loaded[s] :
    /\ indices' = UNION {Entries(t, k) : k \in Keys}
    /\ suspect' = {k \in Keys : t[k] # rows[k]}
    /\ loaded' = [loaded EXCEPT ![s] = {}]
    /\ UNCHANGED <<rows, write, query>>

\* The transaction fails, and with it Init.
RebuildFails(s) ==
  /\ loaded[s] # {}
  /\ loaded' = [loaded EXCEPT ![s] = {}]
  /\ UNCHANGED <<rows, indices, write, query, suspect>>

-----------------------------------------------------------------------------
(* ListByIndexes and PageListByIndexes                                      *)

Asking(r, at) == query[r].at = at

Running(r) == query[r].at \in {"lookup", "recheck", "fetch"}

BeginQuery(r) ==
  /\ Asking(r, "new")
  /\ \E q \in Requests, p \in {{}} \cup {{page} : page \in Pages} :
       query' = [query EXCEPT ![r] =
         [at |-> IF q = <<>> THEN "fetch" ELSE "lookup", request |-> q, todo |-> q,
          keys |-> IF q = <<>> THEN {} ELSE Keys, candidates |-> {}, page |-> p,
          result |-> {}]]
  /\ UNCHANGED <<rows, indices, write, loaded, suspect>>

\* The keys of one condition are intersected with those found so far.
Combine(found, S) == found \cap S

NextCondition(r, S) ==
  query' = [query EXCEPT
    ![r].keys = Combine(@, S), ![r].todo = Tail(@), ![r].candidates = {},
    ![r].at = IF Len(query[r].todo) = 1 THEN "fetch" ELSE "lookup"]

\* The index rows of a condition.  An Equals condition goes on to fetch their
\* resources, only to take the keys of those again.
Lookup(r) ==
  /\ Asking(r, "lookup")
  /\ LET c == Head(query[r].todo) IN
     \/ c.operator = "HasPrefix" /\ NextCondition(r, Indexed(c))
     \/ /\ c.operator = "Equals"
        /\ query' = [query EXCEPT ![r].at = "recheck", ![r].candidates = Indexed(c)]
  /\ UNCHANGED <<rows, indices, write, loaded, suspect>>

Recheck(r) ==
  /\ Asking(r, "recheck")
  /\ NextCondition(r, Present(query[r].candidates))
  /\ UNCHANGED <<rows, indices, write, loaded, suspect>>

Sorted(S) ==
  CHOOSE s \in Bijection(1 .. Cardinality(S), S) : \A i, j \in DOMAIN s : i < j => s[i] < s[j]

\* keys[offset:end] of the sorted keys, with end cut to the number of keys.
\* Seeded bug: the page is one key short.
Page_Short(S, p) ==
  LET keys == Sorted(S) IN
  Range(SubSeq(keys, p.offset + 1, Min({p.offset + p.size, Len(keys)}) - 1))

Page(S, p) ==
  LET keys == Sorted(S) IN
  IF p.offset >= Len(keys) THEN {}
  ELSE Range(SubSeq(keys, p.offset + 1, Min({p.offset + p.size, Len(keys)})))

\* GetByKeys of all keys or of the page.
Fetch(r) ==
  /\ Asking(r, "fetch")
  /\ LET keys == query[r].keys IN
     query' = [query EXCEPT ![r].at = "done",
       ![r].result = Present((UNION {Page(keys, p) : p \in query[r].page})
                               \cup {k \in keys : query[r].page = {}})]
  /\ UNCHANGED <<rows, indices, write, loaded, suspect>>

QueryFails(r) ==
  /\ Running(r)
  /\ query' = [query EXCEPT ![r] = Over]
  /\ UNCHANGED <<rows, indices, write, loaded, suspect>>

-----------------------------------------------------------------------------
(* Specification                                                            *)

Step ==
  \/ \E w \in Writers : \/ BeginWrite(w) \/ AddCount(w) \/ UpdateGet(w) \/ AddTx(w)
                        \/ UpdateTx(w) \/ DeleteTx(w) \/ WriteFails(w)
  \/ \E s \in Starters : LoadModels(s) \/ Rebuild(s) \/ RebuildFails(s)
  \/ \E r \in Readers : \/ BeginQuery(r) \/ Lookup(r) \/ Recheck(r) \/ Fetch(r)
                        \/ QueryFails(r)

\* What has matched each running query, judged by the table alone; a key that a
\* backfill has made suspect owes a query nothing.
Observe ==
  LET begins(r) == ~Running(r) /\ Running(r)'
      conditions(r) == Range(query'[r].request) IN
  /\ lasting' = [r \in Readers |->
       IF ~Running(r)' THEN lasting[r]
       ELSE {k \in (IF begins(r) THEN Keys ELSE lasting[r]) \ suspect' :
               \A c \in conditions(r) : Matches(c, k)'}]
  /\ seen' = [r \in Readers |-> [c \in Condition |->
       IF ~Running(r)' THEN seen[r][c]
       ELSE IF c \notin conditions(r) THEN {}
       ELSE (IF begins(r) THEN {} ELSE seen[r][c]) \cup suspect'
              \cup {k \in Keys : Matches(c, k)'}]]

Next == Step /\ Observe

Spec == Init /\ [][Next]_vars

-----------------------------------------------------------------------------
(* Properties                                                               *)

\* The index rows of a key are what the indexers compute from its row, however
\* Adds, Updates, Deletes and backfills interleave, except for a key that was
\* written between a backfill's read and its transaction, and for that one until
\* it is next updated or deleted.
IndexAgrees == \A k \in Keys \ suspect : EntriesOf(k) = Entries(rows, k)

Answered(r) == query[r].at = "done" /\ query[r].request # <<>>

\* ListByIndexes reads the index rows of every condition and then the resources,
\* in separate statements; it misses no key that matched all conditions while it
\* ran.
ListIsComplete ==
  \A r \in Readers : Answered(r) /\ query[r].page = {} => lasting[r] \subseteq query[r].result

\* It returns no key that failed to match one of the conditions all the time.
ListIsSound ==
  \A r \in Readers : Answered(r) =>
    \A k \in query[r].result, c \in Range(query[r].request) : k \in seen[r][c]

\* When no key came or went meanwhile, PageListByIndexes returns the keys whose
\* rank among the matching ones falls on the page.
PageIsExact ==
  \A r \in Readers, p \in Pages :
    LET quiet == \A k \in Keys \ lasting[r] : \E c \in Range(query[r].request) :
                   k \notin seen[r][c]
        rank(k) == Cardinality({j \in lasting[r] : j < k}) IN
    Answered(r) /\ query[r].page = {p} /\ quiet
      => query[r].result = {k \in lasting[r] : rank(k) \in p.offset .. p.offset + p.size - 1}

\* Queries answer exactly although they read in several statements.
QueriesAreExact == TypeOK /\ ListIsComplete /\ ListIsSound /\ PageIsExact
=============================================================================
