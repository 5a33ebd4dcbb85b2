------------------------------ MODULE Topology ------------------------------
(***************************************************************************)
(* The topology graphs of the console: the applications around one           *)
(* application, and those around one service.  A graph takes one query of    *)
(* the metadata after another while the metadata changes.                    *)
(***************************************************************************)
EXTENDS Integers, FiniteSets

CONSTANTS
  Apps, Services,   \* a service is its key: name, version and group
  MaxChanges,       \* bound: metadata added or removed
  None

VARIABLES
  provides, consumes,   \* the metadata of the mesh: pairs of application and service
  changes,
  query,                \* the request in progress, or None
  graph,                \* the nodes and edges found so far
  ever, always          \* history: metadata present at some time, all the time, of the request

vars == <<provides, consumes, changes, query, graph, ever, always>>

Empty == [nodes |-> {}, edges |-> {}, partial |-> FALSE]

ServicesOf(pairs, app) == {s \in Services : <<app, s>> \in pairs}

AppsOf(pairs, service) == {a \in Apps : <<a, service>> \in pairs}

Node(id, rule) == [id |-> id, rule |-> rule]

Init ==
  /\ provides \in SUBSET (Apps \X Services)
  /\ consumes \in SUBSET (Apps \X Services)
  /\ changes = 0 /\ query = None /\ graph = Empty
  /\ ever = [p |-> {}, c |-> {}] /\ always = [p |-> {}, c |-> {}]

(* Toggling one pair; the subscribers of the metadata do the same. *)
Toggled(pairs, pair) == IF pair \in pairs THEN pairs \ {pair} ELSE pairs \cup {pair}

MetadataChanges(pair) ==
  /\ query # None /\ query.at \notin {"done", "failed"} /\ changes < MaxChanges
  /\ changes' = changes + 1
  /\ \/ provides' = Toggled(provides, pair) /\ UNCHANGED consumes
     \/ consumes' = Toggled(consumes, pair) /\ UNCHANGED provides
  /\ ever' = [p |-> ever.p \cup provides', c |-> ever.c \cup consumes']
  /\ always' = [p |-> always.p \cap provides', c |-> always.c \cap consumes']
  /\ UNCHANGED <<query, graph>>

Request(q) ==
  /\ query = None
  /\ query' = q
  /\ ever' = [p |-> provides, c |-> consumes]
  /\ always' = [p |-> provides, c |-> consumes]

metadata == <<provides, consumes, changes>>

history == <<ever, always>>

-----------------------------------------------------------------------------
(* The graph of an application *)

(* What the application provides.  Its own node has no rule. *)
GraphApplications(app) ==
  /\ Request([of |-> app, at |-> "consumed", provided |-> ServicesOf(provides, app),
              consumed |-> {}])
  /\ graph' = [Empty EXCEPT !.nodes = {Node(app, "")}]
  /\ UNCHANGED metadata

ListConsumed ==
  /\ query # None /\ query.at = "consumed"
  /\ query' = [query EXCEPT !.at = "services", !.consumed = ServicesOf(consumes, query.of)]
  /\ UNCHANGED <<metadata, graph, history>>

(* Seeded bug: the consumers are listed by name for one of the services only. *)
ListConsumers_First(s) ==
  /\ query # None /\ query.at = "services" /\ s \in query.provided
  /\ query' = [query EXCEPT !.provided = {}]
  /\ LET found == AppsOf(consumes, s)
     IN graph' = [graph EXCEPT !.nodes = @ \cup {Node(a, "consumer") : a \in found},
                               !.edges = @ \cup {<<a, query.of>> : a \in found}]
  /\ UNCHANGED <<metadata, history>>

(* The consumers of each provided service, each application once. *)
ListConsumers(s) ==
  /\ query # None /\ query.at = "services" /\ s \in query.provided
  /\ query' = [query EXCEPT !.provided = @ \ {s}]
  /\ LET found == AppsOf(consumes, s)
     IN graph' = [graph EXCEPT !.nodes = @ \cup {Node(a, "consumer") : a \in found},
                               !.edges = @ \cup {<<a, query.of>> : a \in found}]
  /\ UNCHANGED <<metadata, history>>

(* The providers of each consumed service, after the consumers. *)
ListProviders(s) ==
  /\ query # None /\ query.at = "services" /\ query.provided = {} /\ s \in query.consumed
  /\ query' = [query EXCEPT !.consumed = @ \ {s}]
  /\ LET found == AppsOf(provides, s)
     IN graph' = [graph EXCEPT !.nodes = @ \cup {Node(a, "provider") : a \in found},
                               !.edges = @ \cup {<<query.of, a>> : a \in found}]
  /\ UNCHANGED <<metadata, history>>

(* A failed query inside the loops is logged, and its service left out. *)
ListFails(s) ==
  /\ query # None /\ query.at = "services" /\ ~graph.partial
  /\ \/ s \in query.provided /\ query' = [query EXCEPT !.provided = @ \ {s}]
     \/ query.provided = {} /\ s \in query.consumed /\ query' = [query EXCEPT !.consumed = @ \ {s}]
  /\ graph' = [graph EXCEPT !.partial = TRUE]
  /\ UNCHANGED <<metadata, history>>

(* Before the loops a failed query fails the request. *)
QueryFails ==
  /\ query # None /\ query.at \in {"consumed", "consumers"}
  /\ query' = [query EXCEPT !.at = "failed"]
  /\ UNCHANGED <<metadata, graph, history>>

GraphDone ==
  /\ query # None /\ query.at = "services" /\ query.provided = {} /\ query.consumed = {}
  /\ query' = [query EXCEPT !.at = "done"]
  /\ UNCHANGED <<metadata, graph, history>>

-----------------------------------------------------------------------------
(* The graph of a service *)

(* No provider is an answer of its own: not found. *)
GraphServices(s) ==
  /\ Request([of |-> s, at |-> IF AppsOf(provides, s) = {} THEN "notfound" ELSE "consumers",
              provided |-> {}, consumed |-> {}])
  /\ LET found == AppsOf(provides, s)
     IN graph' = IF found = {} THEN Empty
                 ELSE [Empty EXCEPT !.nodes = {Node(a, "provider") : a \in found} \cup {Node(s, "")},
                                    !.edges = {<<s, a>> : a \in found}]
  /\ UNCHANGED metadata

ServiceConsumers ==
  /\ query # None /\ query.at = "consumers"
  /\ query' = [query EXCEPT !.at = "done"]
  /\ LET found == AppsOf(consumes, query.of)
     IN graph' = [graph EXCEPT !.nodes = @ \cup {Node(a, "consumer") : a \in found},
                               !.edges = @ \cup {<<a, query.of>> : a \in found}]
  /\ UNCHANGED <<metadata, history>>

Next ==
  \/ \E pair \in Apps \X Services : MetadataChanges(pair)
  \/ \E app \in Apps : GraphApplications(app)
  \/ \E s \in Services :
       GraphServices(s) \/ ListConsumers(s) \/ ListProviders(s) \/ ListFails(s)
  \/ ListConsumed \/ QueryFails \/ GraphDone \/ ServiceConsumers

Spec == Init /\ [][Next]_vars

-----------------------------------------------------------------------------
(* A graph has nodes of applications and services, and edges between them. *)
TypeOK ==
  /\ provides \cup consumes \subseteq Apps \X Services
  /\ graph.nodes \subseteq [id : Apps \cup Services, rule : {"", "consumer", "provider"}]
  /\ graph.edges \subseteq (Apps \cup Services) \X (Apps \cup Services)

(* The edges that the metadata m says are there, for the thing x in the middle. *)
Around(x, m) ==
  IF x \in Services
    THEN {<<x, a>> : a \in AppsOf(m.p, x)} \cup {<<a, x>> : a \in AppsOf(m.c, x)}
    ELSE (UNION {{<<a, x>> : a \in AppsOf(m.c, s)} : s \in ServicesOf(m.p, x)})
         \cup (UNION {{<<x, a>> : a \in AppsOf(m.p, s)} : s \in ServicesOf(m.c, x)})

(* A graph that is answered (application.go:208-337, service.go:799-906) has every edge     *)
(* whose metadata was there throughout the request, unless a query failed on the way, and  *)
(* no edge whose metadata was there at no time of it; the ends of every edge are nodes.      *)
EdgesAreTheRelation ==
  query # None /\ query.at = "done" =>
    /\ graph.edges \subseteq Around(query.of, ever)
    /\ graph.partial \/ Around(query.of, always) \subseteq graph.edges
    /\ \A e \in graph.edges : {e[1], e[2]} \subseteq {n.id : n \in graph.nodes}

(* Nodes and edges are what they should be, and the edges are those of the metadata. *)
GraphIsTheRelation == TypeOK /\ EdgesAreTheRelation
=============================================================================
