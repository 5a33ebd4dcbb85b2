----------------------------- MODULE MemoryStore -----------------------------
(***************************************************************************)
(* The memory store of one resource kind (pkg/store/memory): a client-go   *)
(* Indexer and, beside it, radix trees for prefix queries.  Each is safe   *)
(* for concurrent use by its own lock; an operation takes the two locks    *)
(* one after the other.  A writer is one call.                             *)
(***************************************************************************)
EXTENDS FiniteSets

CONSTANTS
  Writers,      \* calls of Add, Update or Delete
  Keys,         \* resource keys
  Resources,    \* what a resource may be: the values, each with its index name, that
                \* the registered indexers compute for it
  None          \* no resource

VARIABLES
  storeProxy,   \* the Indexer: resource key to resource
  prefixTrees,  \* the pairs indexValue/resourceKey inserted in the trees
  write         \* the call of each writer: where it is, its key, the resource
                \* it was given and the one it removes from the trees

vars == <<storeProxy, prefixTrees, write>>

Contents == Resources \cup {None}

Steps == {"add", "get", "update", "find", "delete", "remove", "insert", "new", "over"}

TypeOK ==
  /\ storeProxy \in [Keys -> Contents]
  /\ prefixTrees \subseteq Keys \X UNION Resources
  /\ write \in [Writers -> [at : Steps, key : Keys, to : Contents, old : Contents]]

Entries(k, r) == IF r = None THEN {} ELSE {k} \X r

\* The store as earlier calls have left it.
Init ==
  /\ storeProxy \in [Keys -> Contents]
  /\ prefixTrees = UNION {Entries(k, storeProxy[k]) : k \in Keys}
  /\ write \in [Writers -> [at : {"new"}, key : Keys, to : {None}, old : {None}]]

-----------------------------------------------------------------------------

Goto(w, at) == write' = [write EXCEPT ![w].at = at]

\* A call of Update, of Add by a caller that has found no resource, or of Delete.
Begin(w) ==
  /\ write[w].at = "new"
  /\ \/ \E r \in Resources : write' = [write EXCEPT ![w].at = "get", ![w].to = r]
     \/ /\ storeProxy[write[w].key] = None
        /\ \E r \in Resources : write' = [write EXCEPT ![w].at = "add", ![w].to = r]
     \/ Goto(w, "find")
  /\ UNCHANGED <<storeProxy, prefixTrees>>

\* Add overwrites what is there.
Add(w) ==
  /\ write[w].at = "add"
  /\ storeProxy' = [storeProxy EXCEPT ![write[w].key] = write[w].to]
  /\ Goto(w, "insert")
  /\ UNCHANGED prefixTrees

\* Update fetches the old resource, and a caller of Delete looks up the one it
\* passes.
Get(w) ==
  /\ write[w].at \in {"get", "find"}
  /\ LET old == storeProxy[write[w].key] IN
     write' = [write EXCEPT ![w].old = old,
       ![w].at = IF @ = "get" THEN "update" ELSE IF old = None THEN "over" ELSE "delete"]
  /\ UNCHANGED <<storeProxy, prefixTrees>>

Update(w) ==
  /\ write[w].at = "update"
  /\ storeProxy' = [storeProxy EXCEPT ![write[w].key] = write[w].to]
  /\ Goto(w, IF write[w].old = None THEN "insert" ELSE "remove")
  /\ UNCHANGED prefixTrees

Delete(w) ==
  /\ write[w].at = "delete"
  /\ storeProxy' = [storeProxy EXCEPT ![write[w].key] = None]
  /\ Goto(w, "remove")
  /\ UNCHANGED prefixTrees

RemoveFromTrees(w) ==
  /\ write[w].at = "remove"
  /\ prefixTrees' = prefixTrees \ Entries(write[w].key, write[w].old)
  /\ Goto(w, IF write[w].to = None THEN "over" ELSE "insert")
  /\ UNCHANGED storeProxy

AddToTrees(w) ==
  /\ write[w].at = "insert"
  /\ prefixTrees' = prefixTrees \cup Entries(write[w].key, write[w].to)
  /\ Goto(w, "over")
  /\ UNCHANGED storeProxy

Next ==
  \E w \in Writers : \/ Begin(w) \/ Add(w) \/ Get(w) \/ Update(w) \/ Delete(w)
                     \/ RemoveFromTrees(w) \/ AddToTrees(w)

Spec == Init /\ [][Next]_vars

-----------------------------------------------------------------------------

\* Once no call is under way, the prefix trees hold exactly what the indexers
\* compute from the stored resources.  Two calls for one key break it: each
\* changes the store and the trees in the order it gets the two locks.
TreesInSync ==
  (\A w \in Writers : write[w].at \in {"new", "over"})
    => prefixTrees = UNION {Entries(k, storeProxy[k]) : k \in Keys}
=============================================================================
