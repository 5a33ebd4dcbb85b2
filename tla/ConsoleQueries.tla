--------------------------- MODULE ConsoleQueries ---------------------------
(***************************************************************************)
(* The lists and searches of the console.  A reader asks for one page after   *)
(* another, by the offset where the last one ended, until as many have been    *)
(* shown as there are said to be or a page is empty; meanwhile the store may    *)
(* change.  The instances of a service's providers are collected with one        *)
(* query per provider application.                                                *)
(***************************************************************************)
EXTENDS Integers, FiniteSetsExt, SequencesExt

CONSTANTS
  Keys,        \* a mesh and a name, a sequence so that one may be a prefix of another
  Mesh,        \* the mesh the reader asks about
  Apps,        \* applications, as numbers: they are sorted
  PageSizes,
  MaxChanges,  \* changes of the store
  None

VARIABLES
  store,    \* resources of the kind asked for: [mesh, name, app], one per key
  walk,     \* [query, word, size, offset, shown, over], or None
  providers,\* [wanted, todo, shown] of the collection of a service's instances, or None
  changes, changed,  \* changes of the store; has it changed since the request began?
  ever, always       \* resources seen, and there throughout, since the request began

vars == <<store, walk, providers, changes, changed, ever, always>>

Meshes == {k[1] : k \in Keys}
Names == {k[2] : k \in Keys}
Resource == {[mesh |-> k[1], name |-> k[2], app |-> a] : k \in Keys, a \in Apps}
Key(r) == <<r.mesh, r.name>>

(* The queries: the attribute a word is compared with and how, whether the mesh asked for is   *)
(* the reader's or left blank, whether an empty page says there are none at all, and whether    *)
(* the total is the length of the page alone.                                                     *)
Query(by, how, mesh, zero, page) ==
  [by |-> by, how |-> how, mesh |-> mesh, zero |-> zero, page |-> page]

Listed(zero) == Query("none", "all", TRUE, zero, FALSE)
ByPrefix(zero) == Query("name", "prefix", TRUE, zero, FALSE)
ByKey == Query("name", "equals", TRUE, TRUE, FALSE)

SearchInstanceByIp == ByPrefix(TRUE)
SearchInstanceByName == ByPrefix(TRUE)
SearchInstances(word) == IF word = None THEN Listed(FALSE) ELSE SearchInstanceByIp

SearchServicesByKeywords == ByPrefix(FALSE)
SearchServices(word) == IF word = None THEN Listed(FALSE) ELSE SearchServicesByKeywords

(* One application or none, without pages. *)
SearchApplicationsByKeywords == Query("name", "equals", TRUE, FALSE, TRUE)
SearchApplications(word) == IF word = None THEN Listed(FALSE) ELSE SearchApplicationsByKeywords

PageListConfiguratorRule == Listed(TRUE)
SearchConfiguratorRuleByKeywords == ByKey
ConfiguratorSearch(word) ==
  IF word = None THEN PageListConfiguratorRule ELSE SearchConfiguratorRuleByKeywords

PageListTagRule == Listed(TRUE)
SearchTagRuleByKeywords == ByKey
TagRuleSearch(word) == IF word = None THEN PageListTagRule ELSE SearchTagRuleByKeywords

SearchConditionRuleByKeywords == ByKey
SearchConditionRules(word) == IF word = None THEN Listed(FALSE) ELSE SearchConditionRuleByKeywords

GetAppInstanceInfo == Query("app", "equals", TRUE, FALSE, FALSE)
GetAppProvideServiceInfo == Query("app", "equals", TRUE, TRUE, FALSE)
GetAppConsumeServiceInfo == Query("app", "equals", TRUE, TRUE, FALSE)
GetAppServiceInfo == {GetAppProvideServiceInfo, GetAppConsumeServiceInfo}

(* The banner asks for services without a mesh, and counts the page only. *)
BannerInstances == [SearchInstanceByIp EXCEPT !.page = TRUE]
BannerServices == [SearchServicesByKeywords EXCEPT !.mesh = FALSE, !.page = TRUE]
BannerGlobalSearch == {BannerInstances, BannerServices, SearchApplicationsByKeywords}

(* The queries a word is for: None lists everything. *)
Asked(word) ==
  {SearchInstances(word), SearchServices(word), SearchApplications(word), ConfiguratorSearch(word),
   TagRuleSearch(word), SearchConditionRules(word)}

Queries ==
  Asked(None) \cup UNION {Asked(w) : w \in Names} \cup BannerGlobalSearch \cup GetAppServiceInfo
  \cup {GetAppInstanceInfo}

Matches(q, word, set) ==
  {r \in set : /\ q.mesh /\ r.mesh = Mesh
               /\ CASE q.how = "all" -> TRUE
                    [] q.how = "equals" -> (IF q.by = "app" THEN r.app ELSE r.name) = word
                    [] q.how = "prefix" -> IsPrefix(word, r.name)}

(* Resources are sorted by their keys: the mesh, then the name. *)
NameLess(s, t) == \/ IsStrictPrefix(s, t)
                  \/ \E i \in DOMAIN s : /\ i \in DOMAIN t /\ s[i] < t[i]
                                         /\ \A j \in 1..(i - 1) : s[j] = t[j]
Before(r, s) == \/ r.mesh < s.mesh
                \/ r.mesh = s.mesh /\ NameLess(r.name, s.name)

PageListByIndexes(q, word, offset, size) ==
  LET all == SortSeq(SetToSeq(Matches(q, word, store)), Before)
  IN [total |-> Len(all), data |-> SubSeq(all, offset + 1, IF offset + size < Len(all)
                                                          THEN offset + size ELSE Len(all))]

-----------------------------------------------------------------------------
Init ==
  /\ store \in {set \in SUBSET Resource : \A r, s \in set : Key(r) = Key(s) => r = s}
  /\ walk = None
  /\ providers = None
  /\ changes = 0
  /\ changed = FALSE
  /\ ever = {} /\ always = {}

Begins == changed' = FALSE /\ ever' = store /\ always' = store

(* Resources come, go and are updated. *)
Change ==
  /\ changes < MaxChanges /\ (walk # None \/ providers # None)
  /\ \E r \in Resource : store' \in {{s \in store : Key(s) # Key(r)} \cup {r}, store \ {r}}
  /\ changes' = changes + 1
  /\ changed' = TRUE
  /\ ever' = ever \cup store' /\ always' = always \cap store'
  /\ store' # store
  /\ UNCHANGED <<walk, providers>>

Walk(query, word, size) ==
  [query |-> query, word |-> word, size |-> size, offset |-> 0, shown |-> <<>>, over |-> FALSE]

Ask ==
  /\ walk = None /\ providers = None
  /\ \E size \in PageSizes :
       \/ \E word \in Names \cup {None} : \E q \in Asked(word) : walk' = Walk(q, word, size)
       \/ \E word \in Names, q \in BannerGlobalSearch : walk' = Walk(q, word, size)
       \/ \E app \in Apps, q \in GetAppServiceInfo \cup {GetAppInstanceInfo} : walk' = Walk(q, app, size)
  /\ Begins
  /\ UNCHANGED <<store, providers, changes>>

(* Seeded bug: the offset is taken for the number of the page. *)
Page_ByNumber(size) ==
  PageListByIndexes(walk.query, walk.word, walk.offset * size, size)

(* One page as the handler answers it: the search for an application by its name knows no     *)
(* pages and an empty page of some queries has the total 0.                                     *)
Page(size) ==
  LET q == walk.query
      one == q = SearchApplicationsByKeywords
      p == PageListByIndexes(q, walk.word, IF one THEN 0 ELSE walk.offset, IF one THEN 1 ELSE size)
  IN [data |-> p.data,
      total |-> IF q.page THEN Len(p.data) ELSE IF p.data = <<>> /\ q.zero THEN 0 ELSE p.total]

(* The reader takes the page and stops when all are shown. *)
NextPage ==
  /\ walk # None /\ ~walk.over
  /\ LET p == Page(walk.size)
         shown == walk.shown \o p.data
     IN walk' = [walk EXCEPT !.offset = @ + walk.size, !.shown = shown,
                             !.over = p.data = <<>> \/ Len(shown) >= p.total]
  /\ UNCHANGED <<store, providers, changes, changed, ever, always>>

(* The applications of the service's metadata, each once and in order. *)
GetServiceProviderInstances ==
  /\ walk = None /\ providers = None
  /\ \E set \in SUBSET Apps :
       providers' = [wanted |-> set, todo |-> SetToSortSeq(set, <), shown |-> <<>>]
  /\ Begins
  /\ UNCHANGED <<store, walk, changes>>

ByAppAndName(r, s) == r.app < s.app \/ (r.app = s.app /\ NameLess(r.name, s.name))

(* The instances of one application join those found before, each key once; sorted by          *)
(* application and name.                                                                         *)
ListInstances ==
  /\ providers # None /\ providers.todo # <<>>
  /\ LET seen == {Key(r) : r \in ToSet(providers.shown)}
         found == {r \in store : r.mesh = Mesh /\ r.app = Head(providers.todo) /\ Key(r) \notin seen}
     IN providers' = [providers EXCEPT !.todo = Tail(@),
          !.shown = SortSeq(SetToSeq(ToSet(@) \cup found), ByAppAndName)]
  /\ UNCHANGED <<store, walk, changes, changed, ever, always>>

Next ==
  \/ Change
  \/ Ask
  \/ NextPage
  \/ GetServiceProviderInstances
  \/ ListInstances

Spec == Init /\ [][Next]_vars

-----------------------------------------------------------------------------
(* Properties *)

TypeOK ==
  /\ store \subseteq Resource
  /\ walk # None => /\ walk.query \in Queries /\ walk.offset \in Nat
                    /\ ToSet(walk.shown) \subseteq Resource
  /\ providers # None => ToSet(providers.shown) \subseteq Resource
  /\ changes \in 0..MaxChanges /\ changed \in BOOLEAN
  /\ always \subseteq ever

(* What a reader should be shown for a word: the resources of the mesh that match it. *)
Wanted(q, word) == Matches([q EXCEPT !.mesh = TRUE], word, store)

(* Page after page (PageListByIndexes, manager.go:113-127, under every search of the console)  *)
(* the reader is shown each resource that matches once and in order when nothing changes, and  *)
(* the total tells when to stop.  Not promised: more than the first page in the banner, which   *)
(* counts only what it shows (search.go:62), and any service there (search.go:51-56 asks        *)
(* without a mesh).                                                                              *)
WalkIsExact ==
  walk # None /\ walk.over /\ ~changed =>
    LET q == walk.query
        wanted == SortSeq(SetToSeq(Wanted(q, walk.word)), Before)
    IN CASE q = BannerServices -> walk.shown = <<>>
         [] q = BannerInstances -> IsPrefix(walk.shown, wanted)
         [] OTHER -> walk.shown = wanted

(* The instances of the providers (service_provider_instances.go:31-83) are those that were    *)
(* there at some moment of the collection, all that were there unchanged throughout, and each   *)
(* once also when one moves from an application to another meanwhile.                            *)
ProvidersAreComplete ==
  providers # None /\ providers.todo = <<>> =>
    LET wanted(set) == {r \in set : r.mesh = Mesh /\ r.app \in providers.wanted}
    IN /\ wanted(always) \subseteq ToSet(providers.shown)
       /\ ToSet(providers.shown) \subseteq wanted(ever)
       /\ \A i, j \in DOMAIN providers.shown :
            Key(providers.shown[i]) = Key(providers.shown[j]) => i = j
=============================================================================
