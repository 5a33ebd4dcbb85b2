-------------------------- MODULE DependencyGraph ---------------------------
(***************************************************************************)
(* The order in which the components of the program are initialised: Kahn's *)
(* algorithm over the dependencies each component declares, ties broken by   *)
(* name, and the search for a cycle that the error names.  A graph maps      *)
(* every registered component to the sequence of names it requires.          *)
(***************************************************************************)
EXTENDS Integers, FiniteSetsExt, SequencesExt

CONSTANT Alphabet   \* the names, as sort.Strings orders them

Position(name) == CHOOSE i \in DOMAIN Alphabet : Alphabet[i] = name

FirstByName(names) ==
  CHOOSE n \in names : \A m \in names : Position(n) <= Position(m)

(* How often d names n: the edges n -> d of the reverse adjacency list. *)
Edges(graph, n, d) == Cardinality({i \in DOMAIN graph[d] : graph[d][i] = n})

Missing(graph) == {n \in UNION {ToSet(graph[c]) : c \in DOMAIN graph} : n \notin DOMAIN graph}

RECURSIVE Visit_Unsorted(_, _, _, _)
(* Seeded bug: a dependent is queued at its first satisfied dependency. *)
Visit_Unsorted(graph, indegree, queue, result) ==
  IF queue = {} THEN result
  ELSE LET current == FirstByName(queue)
           reached == {d \in DOMAIN graph : Edges(graph, current, d) > 0}
           rest == [d \in DOMAIN graph |-> indegree[d] - Edges(graph, current, d)]
       IN Visit_Unsorted(graph, rest,
                         (queue \ {current}) \cup (reached \ (ToSet(result) \cup {current})),
                         Append(result, current))

RECURSIVE Visit(_, _, _, _)
(* The loop of the sort: the queue is sorted, its first component initialised, and the *)
(* dependents that wait for nothing else join the queue.                               *)
Visit(graph, indegree, queue, result) ==
  IF queue = {} THEN result
  ELSE LET current == FirstByName(queue)
           reached == {d \in DOMAIN graph : Edges(graph, current, d) > 0}
           rest == [d \in DOMAIN graph |-> indegree[d] - Edges(graph, current, d)]
       IN Visit(graph, rest, (queue \ {current}) \cup {d \in reached : rest[d] = 0},
                Append(result, current))

RECURSIVE Dfs(_, _, _)
(* The depth-first search for a cycle: what it has visited, the path it is on (the nodes *)
(* of recStack), and whether the path has been cut down to a cycle.                       *)
Dfs(graph, search, node) ==
  LET entered == [search EXCEPT !.visited = @ \cup {node}, !.path = Append(@, node)]
      look(s, d) ==
        IF s.found THEN s
        ELSE IF d \notin s.visited THEN Dfs(graph, s, d)
        ELSE IF d \in ToSet(s.path)
          THEN [s EXCEPT !.found = TRUE,
                         !.path = SubSeq(@, SelectInSeq(@, LAMBDA n : n = d), Len(@))]
        ELSE s
      left == FoldLeft(look, entered, graph[node])
  IN IF left.found THEN left ELSE [left EXCEPT !.path = Front(@)]

(* The components are tried in the order of a Go map: any order. *)
FindCycle(graph, order) ==
  FoldLeft(LAMBDA s, n : IF s.found \/ n \in s.visited THEN s ELSE Dfs(graph, s, n),
           [visited |-> {}, path |-> <<>>, found |-> FALSE], order).path

Sorted(order) == [ok |-> TRUE, order |-> order, missing |-> {}, cycle |-> <<>>]

TopologicalSort(graph, mapOrder) ==
  LET indegree == [c \in DOMAIN graph |-> Len(graph[c])]
      result == Visit(graph, indegree, {c \in DOMAIN graph : indegree[c] = 0}, <<>>)
      failed == [Sorted(<<>>) EXCEPT !.ok = FALSE]
  IN IF Missing(graph) # {} THEN [failed EXCEPT !.missing = Missing(graph)]
     ELSE IF Len(result) # Cardinality(DOMAIN graph)
       THEN [failed EXCEPT !.cycle = FindCycle(graph, mapOrder)]
     ELSE Sorted(result)

-----------------------------------------------------------------------------
(* What the sort promises, against definitions that do not sort *)

Orders(graph) ==
  {o \in SetToSeqs(DOMAIN graph) :
     \A i, j \in DOMAIN o : Edges(graph, o[j], o[i]) > 0 => j < i}

Before(p, q) ==
  \E i \in DOMAIN p : /\ \A j \in 1..(i - 1) : p[j] = q[j]
                      /\ Position(p[i]) < Position(q[i])

(* TopologicalSort (dependency_graph.go:65-117) succeeds when every dependency is         *)
(* registered and some order initialises every component after all it requires, and then *)
(* returns the first such order by name: the same order in every replica, whatever the    *)
(* iteration order of its maps.                                                            *)
OrderIsFirstByName(graph, answer) ==
  /\ answer.ok <=> Missing(graph) = {} /\ Orders(graph) # {}
  /\ answer.ok => /\ answer.order \in Orders(graph)
                  /\ \A o \in Orders(graph) : ~Before(o, answer.order)

(* The cycle in the error (findCycle, dependency_graph.go:140-182) is a cycle: each        *)
(* component named requires the next and the last one the first, and every component      *)
(* that it is told to break is there once.                                                 *)
CycleIsReal(graph, answer) ==
  LET c == answer.cycle IN
  /\ ~answer.ok /\ answer.missing = {} => c # <<>>
  /\ \A i \in DOMAIN c : c[IF i = Len(c) THEN 1 ELSE i + 1] \in ToSet(graph[c[i]])
  /\ IsInjective(c)
=============================================================================
