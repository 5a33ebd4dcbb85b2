--------------------------- MODULE MethodCatalog ----------------------------
(***************************************************************************)
(* The methods of a service and the types around a method, put together      *)
(* from the metadata of every provider of the service.  Providers disagree:  *)
(* each declares methods and types of its own, some of the same name.        *)
(***************************************************************************)
EXTENDS Integers, FiniteSetsExt, SequencesExt

CONSTANTS
  Alphabet,   \* names of methods and types, as they are sorted; Blank is none of them
  Blank

(* A provider: its methods in the order declared, and its types by name: the names a type   *)
(* refers to in its items and properties.                                                    *)
Method(name, params, returns) == [name |-> name, params |-> params, returns |-> returns]

Position(name) == CHOOSE i \in DOMAIN Alphabet : Alphabet[i] = name

(* Signatures compare as the names of the parameters do, then as the return type. *)
MethodSig(m) == Append([i \in DOMAIN m.params |-> Position(m.params[i])], Position(m.returns))

MethodKey(m) == <<m.name, MethodSig(m)>>

Less(m, n) ==
  \/ Position(m.name) < Position(n.name)
  \/ m.name = n.name /\ LET s == MethodSig(m)
                            t == MethodSig(n)
                        IN \/ IsStrictPrefix(s, t)
                           \/ \E i \in DOMAIN s : /\ i \in DOMAIN t /\ s[i] < t[i]
                                                  /\ \A j \in 1..(i - 1) : s[j] = t[j]

AllMethods(providers) == FlattenSeq([i \in DOMAIN providers |-> providers[i].methods])

(* One method per name and signature, the last one declared, sorted. *)
CollectMethods(providers) ==
  LET all == AllMethods(providers)
      kept == {i \in DOMAIN all : all[i].name # Blank
                 /\ \A j \in DOMAIN all : j > i => MethodKey(all[j]) # MethodKey(all[i])}
  IN SortSeq(SetToSeq({all[i] : i \in kept}), Less)

(* The first method of the name and signature asked for, or none. *)
FindMethod(providers, key) == SelectSeq(AllMethods(providers), LAMBDA m : MethodKey(m) = key)

(* Seeded bug: a later declaration of a type replaces an earlier one. *)
BuildTypeMap_Last(providers) ==
  FoldLeft(LAMBDA acc, p : [n \in DOMAIN acc \cup DOMAIN p.types |->
                              IF n \in DOMAIN p.types THEN p.types[n] ELSE acc[n]],
           [n \in {} |-> {}], providers)

(* The first declaration of each type counts. *)
BuildTypeMap(providers) ==
  FoldLeft(LAMBDA acc, p : [n \in DOMAIN acc \cup DOMAIN p.types |->
                              IF n \in DOMAIN acc THEN acc[n] ELSE p.types[n]],
           [n \in {} |-> {}], providers)

RECURSIVE CollectRelatedTypes(_, _, _)
(* What is visited once a type and all it refers to has been followed. *)
CollectRelatedTypes(types, name, visited) ==
  IF name \notin DOMAIN types \/ name \in visited THEN visited
  ELSE FoldLeft(LAMBDA seen, ref : CollectRelatedTypes(types, ref, seen),
                visited \cup {name}, SetToSeq(types[name]))

BuildRelatedTypes(providers, method) ==
  LET types == BuildTypeMap(providers)
  IN FoldLeft(LAMBDA seen, name : CollectRelatedTypes(types, name, seen), {},
              Append(method.params, method.returns))

(* The list of methods, and of each method listed the detail that is shown. *)
Answer(providers) ==
  LET listed == CollectMethods(providers)
  IN [methods |-> listed,
      found |-> [i \in DOMAIN listed |-> FindMethod(providers, MethodKey(listed[i]))],
      types |-> [i \in DOMAIN listed |-> BuildRelatedTypes(providers, listed[i])]]

-----------------------------------------------------------------------------
(* What is promised of it, against definitions that do not walk *)

(* The list (collectMethods, service.go:240-269) has every overload that some provider        *)
(* declares, once and in order, and the detail of each one listed is found (findMethod        *)
(* :272-287) although the list keeps the last declaration and the detail takes the first.     *)
EveryOverloadIsListed(providers, answer) ==
  LET all == AllMethods(providers)
      listed == answer.methods
  IN /\ {MethodKey(listed[i]) : i \in DOMAIN listed}
          = {MethodKey(all[i]) : i \in {j \in DOMAIN all : all[j].name # Blank}}
     /\ \A i, j \in DOMAIN listed : i < j => Less(listed[i], listed[j])
     /\ \A i \in DOMAIN listed : answer.found[i] # <<>>

(* The smallest set of declared types that has what the method names and, with a type, the    *)
(* declared types that the first provider to declare it refers to.                              *)
Closed(types, set) == \A n \in set : types[n] \cap DOMAIN types \subseteq set

FirstDeclared(providers, n) ==
  providers[Min({i \in DOMAIN providers : n \in DOMAIN providers[i].types})].types[n]

(* The types of a method (collectRelatedTypes, service.go:371-390) are the declared types it  *)
(* reaches, no more and no less, also when types refer to each other in a circle.               *)
TypesAreReachable(providers, answer) ==
  LET declared == UNION {DOMAIN providers[i].types : i \in DOMAIN providers}
      types == [n \in declared |-> FirstDeclared(providers, n)]
      roots(m) == (ToSet(m.params) \cup {m.returns}) \cap declared
  IN \A i \in DOMAIN answer.methods :
       LET sets == {s \in SUBSET declared : roots(answer.methods[i]) \subseteq s /\ Closed(types, s)}
       IN answer.types[i] \in sets /\ \A s \in sets : answer.types[i] \subseteq s
=============================================================================
