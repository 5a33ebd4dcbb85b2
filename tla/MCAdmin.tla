------------------------------ MODULE MCAdmin -------------------------------
(***************************************************************************)
(* The areas of the admin that are checked next to each other.  A behaviour   *)
(* is about one area; its variables take the slots s1, s2, ... in the order    *)
(* its module declares them, and the slots behind them stay None.  The pure     *)
(* algorithms come first here, with the inputs they are tried on: they take one  *)
(* from the first slot and leave their output in the second.                      *)
(***************************************************************************)
EXTENDS Integers, FiniteSets, SequencesExt, TLC

CONSTANT None

(* No element, one, or two of them. *)
UpToTwo(S) == {<<>>} \cup {<<x>> : x \in S} \cup {<<x, y>> : x, y \in S}

-----------------------------------------------------------------------------
(* Three components and a name that nobody registered.  A component may name a dependency    *)
(* twice, itself, or one that depends on it.                                                   *)

Graph == INSTANCE DependencyGraph WITH Alphabet <- <<"a", "b", "c", "x">>

Components == {"a", "b", "c"}

Required ==
  {<<>>, <<"x">>, <<"a", "a">>, <<"a", "b">>, <<"b", "c">>, <<"c", "a">>} \cup {<<c>> : c \in Components}

GraphInputs == [graph : [Components -> Required], mapOrder : SetToSeqs(Components)]

-----------------------------------------------------------------------------
(* Two providers that overload f and declare types, some of which refer to each other. *)

Catalog == INSTANCE MethodCatalog WITH Alphabet <- <<"f", "g", "x", "y", "z">>, Blank <- ""

Overloads ==
  {Catalog!Method("f", <<"x">>, "y"), Catalog!Method("f", <<>>, "z"), Catalog!Method("", <<"x">>, "y")}

Declared == UNION {[D -> {{}, {"x"}, {"y", "z"}}] : D \in SUBSET {"x", "y", "z"}}

CatalogInputs ==
  {<<[methods |-> one, types |-> s], [methods |-> other, types |-> t]>> :
     one \in UpToTwo(Overloads), s \in Declared,
     other \in {<<>>, <<Catalog!Method("f", <<"x">>, "y")>>, <<Catalog!Method("g", <<"x", "y">>, "y")>>},
     t \in {[n \in {"x"} |-> {"z"}], [n \in {} |-> {}]}}

-----------------------------------------------------------------------------
(* Small machine words.  Numbers come whole and in halves, around zero and around the ends   *)
(* of every word; wild is what a conversion out of range leaves.                               *)

Decoding == INSTANCE ArgumentDecoding
  WITH ByteBits <- 3, ShortBits <- 4, IntBits <- 5, LongBits <- 8, CharBits <- 6, Mantissa <- 6

Halves == UNION {(-m - 2)..(-m) \cup (m - 2)..(m + 2) : m \in {0, 8, 16, 32, 64, 126, 256}}

Scalars ==
  {Decoding!Null, Decoding!Junk} \cup {Decoding!Rune(c) : c \in {0, 63, 64}}
  \cup {Decoding!Number(n, f) : n \in Halves, f \in BOOLEAN}
  \cup {Decoding!Quoted(n, f) : n \in Halves, f \in BOOLEAN}

(* Halves are written as floating-point numbers only. *)
Written == {r \in Scalars : r.kind \in {"number", "quoted"} => r.float \/ r.twice % 2 = 0}

Elements ==
  {Decoding!Null, Decoding!Junk, Decoding!Rune(3), Decoding!Number(7, TRUE),
   Decoding!Number(-8, FALSE), Decoding!Quoted(8, FALSE)}

JavaTypes(types, brackets) == [name : types, brackets : brackets]

Words == {"byte", "short", "int", "long", "char"}

DecodingInputs ==
  LET wild == {Decoding!Lowest(8), Decoding!Highest(8)}
  IN {[types |-> <<t>>, args |-> <<r>>, wild |-> w] : t \in JavaTypes(Words, 0..1), r \in Written, w \in wild}
     \cup {[types |-> <<t, u>>, args |-> <<Decoding!List(l), r>>, wild |-> Decoding!Lowest(8)] :
             t \in JavaTypes(Words, {1}), u \in JavaTypes({"byte"}, {0}), l \in UpToTwo(Elements), r \in Elements}
     \cup {[types |-> <<t>>, args |-> <<>>, wild |-> Decoding!Lowest(8)] : t \in JavaTypes(Words, {0})}

-----------------------------------------------------------------------------
(* Rules on their way to the registry and back.  Values may hold a relation of their own;    *)
(* matchers fill in no alternative, one, or two.                                               *)

Forms == INSTANCE RuleForms WITH MaxScriptRuleSize <- 3

Terms(left) == {Forms!Term(left, "=", <<"x">>), Forms!Term(left, "!=", <<"x", "=", "y">>)}

Destinations == [conditions : UpToTwo(Terms(<<"t">>)), weight : {0}]

Routes == [method : {<<"m">>, <<"n">>}, conditions : UpToTwo(Terms(<<"0">>)),
           destinations : {<<>>} \cup {<<d>> : d \in Destinations}
                          \cup {<<d, e>> : d \in Destinations, e \in {f \in Destinations : Len(f.conditions) < 2}}]

RegionCondition == <<"=>", "region", "=", "$region">>

OldRoute == <<"method", "=", "o", "=>", "t", "=", "x">>

RouteInputs ==
  {[of |-> "routes", conditions |-> c, routes |-> <<a>>] :
     c \in {<<>>, <<RegionCondition>>, <<OldRoute, RegionCondition>>}, a \in Routes}
  \cup {[of |-> "routes", conditions |-> <<RegionCondition, OldRoute>>, routes |-> <<a, b>>] :
          a, b \in {r \in Routes : r.method = <<"m">> /\ Len(r.destinations) = 1 /\ Len(r.conditions) = 1}}

Matchers == {{"exact"}, {"regex"}, {"prefix", "regex"}, {}}

Params(values) == {<<>>} \cup {<<[key |-> "k", value |-> v]>> : v \in values}

Matches ==
  {None} \cup [address : {None, {"cird"}, {"exact", "cird"}}, providerAddress : {None, {"wildcard"}},
               application : {None, <<{"exact"}>>},
               service : {None, <<>>} \cup {<<m>> : m \in Matchers} \cup {<<{"exact"}, m>> : m \in Matchers},
               param : Params(Matchers \cup {None})]

Configs == [enabled : BOOLEAN, side : {"consumer"}, parameters : {{"p"}}, match : Matches, others : {{}, {"addresses"}}]

ConfiguratorInputs ==
  {[of |-> "configurator", rule |-> [enabled |-> TRUE, configs |-> <<c>>]] : c \in Configs}
  \cup {[of |-> "configurator", rule |-> [enabled |-> FALSE, configs |-> <<c, d>>]] :
          c, d \in {x \in Configs : x.match = None}}

Tags == [name : {"a"}, addresses : {<<>>, <<"i">>}, match : Params(Matchers), others : {{}, {"g"}}]

TagInputs == {[of |-> form, rule |-> [tags |-> <<t, u>>]] : form \in {"tag", "gray"}, t, u \in Tags}

AffinityRules ==
  [kind : {"AffinityRoute"}, version : {"v3.0", "v3.1"}, scope : {"application", "service", "x"}, named : BOOLEAN,
   aware : {None} \cup [key : {"", "k"}, ratio : {-1, 0, 100, 101}], runtime : BOOLEAN, enabled : BOOLEAN,
   omitted : SUBSET {"runtime", "enabled"}, type : {""}, size : {0}]

ScriptRules ==
  [kind : {"ScriptRoute"}, version : {"v2", "v3.0", "v3.1"}, scope : {"application", "service"}, named : BOOLEAN,
   aware : {None}, runtime : {FALSE}, enabled : BOOLEAN, omitted : SUBSET {"enabled"},
   type : {"javascript", "lua"}, size : {0, 1, 3, 4}]

FormInputs ==
  RouteInputs \cup ConfiguratorInputs \cup TagInputs \cup {[of |-> "codec", rule |-> r] : r \in AffinityRules \cup ScriptRules}

Converted(input) ==
  CASE input.of = "routes" -> Forms!ShownRoutes(Forms!SavedRoutes(input.conditions, input.routes))
    [] input.of = "configurator" -> Forms!BoundConfigurator(Forms!GenDynamicConfigToResp(input.rule))
    [] input.of = "tag" -> Forms!BoundTagRule(Forms!GenTagRouteResp(input.rule))
    [] input.of = "gray" -> Forms!SavedGray(input.rule, Forms!ShownGray(input.rule))
    [] input.of = "codec" -> LET text == Forms!EncodeRule(input.rule)
                             IN [text |-> text, rule |-> IF text = None THEN None ELSE Forms!DecodeRule(text)]

-----------------------------------------------------------------------------
(* Configuration files: meshes, sections that are missing, empty, right or wrong, ways to    *)
(* log in, and providers.                                                                     *)

Config == INSTANCE Configuration WITH Blank <- "", MinimumSessionSecretLength <- 32

Discoveries(ids, registries) ==
  [id : ids, name : {"", "n"}, type : {"", "mock", "nacos2"}, registry : registries, configCenter : {"", "c"},
   metadataReport : {"", "d"}, serviceWatchPeriod : {-1, 0, 5}, configWatchPeriod : {0, 7}]

Nacos(id) ==
  [id |-> id, name |-> "n", type |-> "nacos2", registry |-> "r", configCenter |-> "", metadataReport |-> "",
   serviceWatchPeriod |-> 0, configWatchPeriod |-> 0]

Site(scheme, path) == Config!Url(scheme, "far", path)

Providers ==
  [type : {"github", "oidc", "x"}, displayName : {"", "D"}, clientId : {"c"}, clientSecret : {"", "s"},
   iconUrl : {None, Config!NoUrl, Config!Url("", "", "i"), Config!Url("", "far", "i"), Site("http", "i"), Site("https", "i")},
   redirectUrl : {None, Site("ftp", "a"), Site("https", "a"), Site("https", "b")},
   postLoginRedirectUrl : {Config!NoUrl, Site("http", "p")},
   issuer : {Config!NoUrl, Site("http", ""), Site("https", ""), Config!Url("http", "loopback", "")},
   scopes : {{}, {"x"}, {"openid"}}]

Auth(providers) ==
  [methods : {None, <<>>, <<"password">>, <<"ldap">>}, user : {"", "u"}, password : {"", "p"},
   expirationTime : {0, 1, 86399, 86400}, sessionSecret : {0, 31, 32}, providers : providers]

GitHub(path) ==
  [type |-> "github", displayName |-> "", clientId |-> "c", clientSecret |-> "s", iconUrl |-> Config!NoUrl,
   redirectUrl |-> Site("https", path), postLoginRedirectUrl |-> Site("http", "p"), issuer |-> Config!NoUrl, scopes |-> {}]

AnyAuth ==
  Auth({<<>>, [id \in {"a"} |-> GitHub("a")]})
  \cup [methods : {<<>>}, user : {""}, password : {""}, expirationTime : {1}, sessionSecret : {0},
        providers : [{"a"} -> Providers] \cup [{"a", "b"} -> {GitHub("a"), GitHub("b")}] \cup [{""} -> {GitHub("")}]]

GoodAuth ==
  [methods |-> None, user |-> "u", password |-> "p", expirationTime |-> 1, sessionSecret |-> 0, providers |-> <<>>]

Consoles(auth) ==
  LET dashboards == {None} \cup [application : {None, Config!NoUrl}, instance : {Site("http", "")}, service : {Config!NoUrl}]
  IN [ginMode : {"release", "x"}, port : {0, 1, 65535, 65536}, metricDashboards : dashboards,
      traceDashboards : dashboards, auth : {None, GoodAuth}]
     \cup [ginMode : {"debug"}, port : {80}, metricDashboards : {None}, traceDashboards : {None}, auth : auth]

Section(name, values) == {[s \in {name} |-> v] : v \in values \cup {None}}

Sections ==
  {<<>>} \cup Section("log", [level : {"info", "x"}]) \cup Section("store", [type : {"mysql", "x"}])
  \cup Section("diagnostics", [serverPort : {0, 1, 65535, 65536}])
  \cup Section("observability", [prometheus : {None, Site("http", "")}, grafana : {None, Config!NoUrl}])
  \cup Section("engine", [id : {"", "e"}, type : {"kubernetes", "x"}, identifiers : {{}, {"ByLabel", "x"}},
                          strategy : {None, "ByName", "x"}])
  \cup Section("ruleVersioning", [maxVersionsPerRule : {-1, 0}]) \cup Section("eventBus", [bufferSize : {0}])

File(console, discovery) == [s \in {"console", "discovery"} |-> IF s = "console" THEN console ELSE discovery]

GoodConsole ==
  [ginMode |-> "debug", port |-> 80, metricDashboards |-> None, traceDashboards |-> None, auth |-> GoodAuth]

Files ==
  {None, <<>>}
  \cup {File(GoodConsole, <<d>>) : d \in Discoveries({"", "m"}, {"", "r"})} \cup {File(GoodConsole, <<>>)}
  \cup {File(GoodConsole, <<Nacos(id), d>>) : id \in {"m", "n"}, d \in Discoveries({"m"}, {"r"})}
  \cup {File(c, <<Nacos("m")>>) : c \in {None} \cup Consoles(AnyAuth)}
  \cup {Config!Over(f, Config!Over(g, File(GoodConsole, <<Nacos("m")>>))) : f, g \in Sections}

ConfigInputs == [file : Files, environment : {0, 31, 32}]

-----------------------------------------------------------------------------
(* All of them *)

Algorithms == {"order", "catalog", "decoding", "forms", "config"}

Inputs(algorithm) ==
  CASE algorithm = "order" -> GraphInputs
    [] algorithm = "catalog" -> CatalogInputs
    [] algorithm = "decoding" -> DecodingInputs
    [] algorithm = "forms" -> FormInputs
    [] algorithm = "config" -> ConfigInputs

Output(algorithm, input) ==
  CASE algorithm = "order" -> Graph!TopologicalSort(input.graph, input.mapOrder)
    [] algorithm = "catalog" -> Catalog!Answer(input)
    [] algorithm = "decoding" -> Decoding!DecodeGenericInvokeArgs(input.types, input.args, input.wild)
    [] algorithm = "forms" -> Converted(input)
    [] algorithm = "config" -> Config!Load(input.file, input.environment)

-----------------------------------------------------------------------------
(* The areas that are state machines *)

CONSTANTS Actors, Texts, Blank

VARIABLES
  area,
  s1, s2, s3, s4, s5, s6, s7, s8, s9, s10, s11, s12, s13, s14, s15, s16, s17, s18, s19

slots == <<s1, s2, s3, s4, s5, s6, s7, s8, s9, s10, s11, s12, s13, s14, s15, s16, s17, s18, s19>>

(* Callers, writers and replicas are interchangeable, and what is written in rules is. *)
Symmetry == Permutations(Actors) \cup Permutations(Texts)

-----------------------------------------------------------------------------
(* The instances *)

VersionedServices ==
  {[name |-> "s", version |-> "", group |-> ""], [name |-> "s", version |-> "v", group |-> ""],
   [name |-> "s", version |-> "v", group |-> "g"]}

ProviderSpecs == {[methods |-> {"m"}, language |-> ""], [methods |-> {"n"}, language |-> "java"]}

SearchedKeys == {<<1, <<1>>>>, <<1, <<1, 2>>>>, <<1, <<2>>>>, <<2, <<1>>>>}

(* Two keys per kind, values blank and one the prefix of another. *)
StoredKinds ==
  {"Instance", "ServiceConsumerMetadata", "ServiceProviderMetadata", "RPCInstance", "RuntimeInstance",
   "Service", "LifecycleEvent", "RuleVersion"}

StoredResources ==
  LET mesh == {<<"m">>}
      names == {<<"x">>, <<"y">>}
      apps == {<<>>, <<"a">>, <<"a", "b">>}
  IN [k \in StoredKinds |->
        CASE k = "Instance" -> [mesh : mesh, name : names, app : apps, ip : {<<"i">>}]
          [] k = "RPCInstance" -> [mesh : mesh, name : names, app : apps]
          [] k = "RuntimeInstance" -> [mesh : mesh, name : names, ip : {<<>>, <<"i">>}]
          [] k = "Service" -> [mesh : mesh \cup {<<"n">>}, name : {<<"x">>}]
          [] k = "LifecycleEvent" ->
               [mesh : mesh, name : names, objKind : {<<"P">>}, type : {<<"t">>}, source : {<<"z">>},
                objName : {<<"a", "b">>, <<"a", "c">>, <<>>}]
          [] k = "RuleVersion" ->
               [mesh : mesh, name : names, parentKind : {<<"T">>}, parentMesh : mesh,
                parentName : {<<"r">>, <<"r", "s">>}]
          [] OTHER ->
               [mesh : mesh, name : names, app : {<<"a">>}, service : {<<"s">>, <<"s", "t">>},
                version : {<<>>, <<"v">>}, group : {<<>>}]]

Condition(index, values, operator) == [index : {index}, value : values, operator : {operator}]

StoredConditions ==
  LET equal(index, values) == Condition(index, values, "Equals")
      prefix(index, values) == Condition(index, values, "HasPrefix")
      a == {<<"a">>}
  IN [k \in StoredKinds |-> equal("mesh", {<<"m">>}) \cup
        CASE k = "Instance" -> equal("app", a) \cup prefix("app", a \cup {<<>>}) \cup equal("name", {<<"x">>})
                            \cup equal("ip", {<<"i">>})
          [] k = "RPCInstance" -> equal("app", a) \cup prefix("app", a)
          [] k = "RuntimeInstance" -> equal("ip", {<<"i">>}) \cup prefix("name", {<<"x">>})
          [] k = "Service" -> equal("name", {<<"x">>}) \cup prefix("name", {<<>>})
          [] k = "LifecycleEvent" ->
               prefix("objName", {<<"a">>, <<"a", "b">>, <<"a", "_">>}) \cup equal("type", {<<"t">>})
               \cup equal("objKind", {<<"P">>}) \cup equal("source", {<<"z">>})
          [] k = "RuleVersion" ->
               equal("parent", {<<"T", "/", "m", "/", "r">>}) \cup prefix("parent", {<<"T">>})
          [] OTHER -> equal("service", {<<"s">>}) \cup prefix("service", {<<"s">>})
                      \cup equal("key", {<<"s", ":", ":">>}) \cup equal("app", a)]

StoredOrder == <<<<"m", "/", "x">>, <<"m", "/", "y">>, <<"n", "/", "x">>>>

Counters == INSTANCE Counters
  WITH Instances <- {1, 2}, Meshes <- {1, 2}, Mesh <- [i \in {1, 2} |-> 1],
       Protocols <- {"p", "q"}, Writers <- Actors, MaxWrites <- 2, MaxTerms <- 2,
       stored <- s1, writer <- s2, term <- s3, listed <- s4, isLeader <- s5, bound <- s6,
       total <- s7, spread <- s8, writes <- s9, terms <- s10, missed <- s11, altered <- s12

Settings == INSTANCE TrafficSettings
  WITH Requests <- {1, 2}, Ips <- {"i1", "i2"}, Sets <- Texts, Timeouts <- {1, 2}, Default <- 2,
       MaxRequests <- 3, MaxFailures <- 1,
       registry <- s1, kind <- s2, rule <- s3, request <- s4, requests <- s5, failures <- s6,
       expected <- s7

Program == INSTANCE Runtime
  WITH Kinds <- {"k1", "k2", "k3"},
       database <- s1, phase <- s2, pending <- s3, activated <- s4, started <- s5, broken <- s6,
       signals <- s7, drained <- s8, store <- s9, refCount <- s10, pool <- s11, mu <- s12,
       poolsMutex <- s13

Relations == INSTANCE Topology
  WITH Apps <- {"a", "b"}, Services <- {"s", "t"}, MaxChanges <- 1,
       provides <- s1, consumes <- s2, changes <- s3, query <- s4, graph <- s5, ever <- s6,
       always <- s7

Pods == INSTANCE KubernetesPods
  WITH Meshes <- {"m", "n"}, MaxPodSteps <- 4, MaxWatch <- 2,
       pod <- s1, watch <- s2, rtStore <- s3, registration <- s4, steps <- s5, relabelled <- s6

Invoke == INSTANCE GenericInvoke
  WITH Ports <- {"tri", "rest"}, Protocol <- [p \in {"tri", "rest"} |-> p],
       Serializations <- {"s1", "s2"}, Blank <- " ", Hessian2 <- "hessian2",
       MaxRegistrations <- 2, MaxListed <- 2,
       rpc <- s1, instance <- s2, registrations <- s3, call <- s4, late <- s5, tried <- s6

Searches == INSTANCE ConsoleQueries
  WITH Keys <- SearchedKeys, Mesh <- 1, Apps <- {1, 2}, PageSizes <- {1, 2}, MaxChanges <- 1,
       store <- s1, walk <- s2, providers <- s3, changes <- s4, changed <- s5, ever <- s6,
       always <- s7

Login == INSTANCE LoginSessions
  WITH Browsers <- {"b"}, Requests <- {1, 2}, Providers <- {"p"}, Capacity <- 2, Ttl <- 2,
       MaxTime <- 3, MaxLogins <- 3, MaxRequests <- 4,
       now <- s1, items <- s2, expiryQueue <- s3, begun <- s4, cookie <- s5, request <- s6,
       sent <- s7, exchanged <- s8, turnedAway <- s9, raced <- s10

Metadata == INSTANCE ServiceMetadata
  WITH Services <- VersionedServices, Apps <- {1, 2}, Specs <- ProviderSpecs, BufferSize <- 1,
       MaxChanges <- 2,
       registry <- s1, database <- s2, provider <- s3, sending <- s4, providerCh <- s5,
       sync <- s6, service <- s7, application <- s8, listing <- s9, noticeCh <- s10,
       consumer <- s11, rpcInstance <- s12, consumerCh <- s13, adding <- s14, records <- s15,
       changes <- s16, underived <- s17, unlisted <- s18, swept <- s19

Timeline == INSTANCE EventTimeline
  WITH Apps <- {<<"a">>, <<"a", "b">>}, Named <- {<<"a", "b">>}, Engine <- "engine",
       Mesh <- "mesh", BufferSize <- 2, MaxTime <- 3, MaxMoves <- 3, MaxRelists <- 1,
       database <- s1, identified <- s2, pods <- s3, cluster <- s4, queue <- s5, store <- s6,
       ch <- s7, sub <- s8, now <- s9, moves <- s10, relists <- s11, seen <- s12, excused <- s13

Versions == INSTANCE RuleVersions
  WITH Contents <- Texts, Callers <- Actors, MaxVersions <- 2, MaxCalls <- 2, MaxFaults <- 1,
       center <- s1, locking <- s2, rule <- s3, store <- s4, recorded <- s5, kept <- s6,
       call <- s7, calls <- s8, faults <- s9, diverged <- s10, saw <- s11, misled <- s12

Backends == INSTANCE StoreBackends
  WITH Kinds <- StoredKinds, Resources <- StoredResources, Conditions <- StoredConditions,
       Order <- StoredOrder, PageSizes <- {1, 2}, MaxWrites <- 3,
       kind <- s1, mem <- s2, db <- s3, writes <- s4, parted <- s5, stale <- s6

Listed == INSTANCE NacosServices
  WITH Services <- {1, 2}, Contents <- {"none", "some"}, NoInstances <- "none", PageSize <- 1,
       MaxChanges <- 2, MaxFailures <- 1, Absent <- None,
       registry <- s1, store <- s2, watching <- s3, subscribed <- s4, pushes <- s5, turn <- s6,
       changes <- s7, failures <- s8, calm <- s9, gone <- s10, moved <- s11, excused <- s12

Replicated == INSTANCE Wiring
  WITH Replicas <- Actors, MaxFaults <- 1, MaxTerms <- 2,
       config <- s1, replica <- s2, built <- s3, gated <- s4, todo <- s5, directory <- s6,
       subscribed <- s7, started <- s8, live <- s9, leader <- s10, ending <- s11, terms <- s12,
       faults <- s13, broken <- s14, ungated <- s15

Nodes == INSTANCE ZookeeperNodes
  WITH Names <- {<<"a">>, <<"a", "1">>}, Ips <- {<<"1", "0">>, <<"1", "1", "0">>},
       Ports <- {<<"8">>}, Datas <- {"u", "v"}, MaxChanges <- 4,
       kind <- s1, tree <- s2, events <- s3, store <- s4, changes <- s5, excused <- s6

-----------------------------------------------------------------------------
(* One area after the other *)

after15 == <<s16, s17, s18, s19>>
after13 == <<s14, s15, after15>>
after12 == <<s13, after13>>
after10 == <<s11, s12, after12>>
after7 == <<s8, s9, s10, after10>>
after6 == <<s7, after7>>
after2 == <<s3, s4, s5, s6, after6>>

Unused15 == s16 = None /\ s17 = None /\ s18 = None /\ s19 = None
Unused13 == s14 = None /\ s15 = None /\ Unused15
Unused12 == s13 = None /\ Unused13
Unused10 == s11 = None /\ s12 = None /\ Unused12
Unused7 == s8 = None /\ s9 = None /\ s10 = None /\ Unused10
Unused6 == s7 = None /\ Unused7
Unused2 == s3 = None /\ s4 = None /\ s5 = None /\ s6 = None /\ Unused6

Init ==
  \/ area = "counters" /\ Counters!Init /\ Unused12
  \/ area = "settings" /\ Settings!Init /\ Unused7
  \/ area = "runtime" /\ Program!Init /\ Unused13
  \/ area = "topology" /\ Relations!Init /\ Unused7
  \/ area = "pods" /\ Pods!Init /\ Unused6
  \/ area = "invoke" /\ Invoke!Init /\ Unused6
  \/ area = "queries" /\ Searches!Init /\ Unused7
  \/ area = "login" /\ Login!Init /\ Unused10
  \/ area = "metadata" /\ Metadata!Init
  \/ area = "timeline" /\ Timeline!Init /\ Unused13
  \/ area = "versions" /\ Versions!Init /\ Unused12
  \/ area = "backends" /\ Backends!Init /\ Unused6
  \/ area = "services" /\ Listed!Init /\ Unused12
  \/ area = "wiring" /\ Replicated!Init /\ Unused15
  \/ area = "nodes" /\ Nodes!Init /\ Unused6
  \/ area \in Algorithms /\ s1 \in Inputs(area) /\ s2 = None /\ Unused2

Compute == area \in Algorithms /\ s2 = None /\ s2' = Output(area, s1) /\ UNCHANGED <<area, s1, after2>>

Next ==
  \/ Compute
  \/ area = "counters" /\ Counters!Next /\ UNCHANGED <<area, after12>>
  \/ area = "settings" /\ Settings!Next /\ UNCHANGED <<area, after7>>
  \/ area = "runtime" /\ Program!Next /\ UNCHANGED <<area, after13>>
  \/ area = "topology" /\ Relations!Next /\ UNCHANGED <<area, after7>>
  \/ area = "pods" /\ Pods!Next /\ UNCHANGED <<area, after6>>
  \/ area = "invoke" /\ Invoke!Next /\ UNCHANGED <<area, after6>>
  \/ area = "queries" /\ Searches!Next /\ UNCHANGED <<area, after7>>
  \/ area = "login" /\ Login!Next /\ UNCHANGED <<area, after10>>
  \/ area = "metadata" /\ Metadata!Next /\ UNCHANGED area
  \/ area = "timeline" /\ Timeline!Next /\ UNCHANGED <<area, after13>>
  \/ area = "versions" /\ Versions!Next /\ UNCHANGED <<area, after12>>
  \/ area = "backends" /\ Backends!Next /\ UNCHANGED <<area, after6>>
  \/ area = "services" /\ Listed!Next /\ UNCHANGED <<area, after12>>
  \/ area = "wiring" /\ Replicated!Next /\ UNCHANGED <<area, after15>>
  \/ area = "nodes" /\ Nodes!Next /\ UNCHANGED <<area, after6>>

Spec == Init /\ [][Next]_<<area, slots>>

-----------------------------------------------------------------------------
(* Properties.  Each is about one area; its parts are stated in the module of the area. *)

Of(algorithm) == area = algorithm /\ s2 # None

(* A leading replica that has handled its events shows as many instances of each mesh as the    *)
(* store has, unless a write met the start of its term, came from another replica or was        *)
(* counted out of order; so does its protocol counter, for protocols that no changed or removed *)
(* instance had; one that has lost the lead shows nothing, unless an event was being counted    *)
(* when its term ended (counter/component.go:153-249, counter/manager.go:257-304).              *)
CountersFollowStore ==
  area = "counters" =>
    /\ Counters!TypeOK
    /\ Counters!CountsMatchStore
    /\ Counters!ProtocolsMatchStore
    /\ Counters!FollowerShowsNothing

(* A traffic setting shows what it was last set to, in one entry of its rule, whatever other *)
(* settings of the same rule are changed meanwhile, unless a change wrote a rule it had read *)
(* too early; and a deleted rule is not brought back by a request that had read it before    *)
(* (application.go:426-682, service.go:583-600).                                             *)
SettingsAreKept ==
  /\ [](area = "settings" => Settings!TypeOK /\ Settings!SettingsHold /\ Settings!OneEntryEach)
  /\ [][area = "settings" => Settings!NoResurrection]_<<area, slots>>

(* The order of initialisation (dependency_graph.go:65-182) respects every dependency, is the   *)
(* first such order by name whatever the order of the maps, and exists exactly if there is one; *)
(* the cycle that the error names is a cycle of the graph.                                      *)
OrderIsFirstByName ==
  /\ Of("order") => Graph!OrderIsFirstByName(s1.graph, s2)
  /\ Of("order") => Graph!CycleIsReal(s1.graph, s2)

(* A component finds all that its Init looks up already activated; the shared connection is   *)
(* closed by the last store that uses it and never under another; and the two orders in which *)
(* the mutexes of a pool and of the map of pools are taken are never under way together       *)
(* (bootstrap.go:174-184, connection_pool.go:178-244).                                        *)
ProcessIsOrdered ==
  area = "runtime" =>
    /\ Program!TypeOK
    /\ Program!LookupsSucceed
    /\ Program!PoolOutlivesStores
    /\ Program!LockOrdersNeverMeet

(* A graph that is answered has every edge whose metadata was there throughout, unless a query *)
(* failed, and none whose metadata never was (application.go:208-337, service.go:799-906).     *)
GraphIsTheRelation ==
  area = "topology" => Relations!GraphIsTheRelation

(* Once the watch is worked off the store has the pod as it is, under its mesh alone, except  *)
(* for what a pod that changed its mesh left behind; and what the console says of an instance *)
(* is true of its pod: serving is registered and ready, draining is running and no longer     *)
(* registered (runtime_instance.go:87-201, console/model/instance.go:243-306).                *)
PodsAreShown ==
  area = "pods" => Pods!PodsAreShown

(* Every overload that a provider declares is listed once and in order and its detail is found, *)
(* and the types shown with a method are exactly the declared ones it reaches, circles included *)
(* (service.go:240-390).                                                                        *)
CatalogIsComplete ==
  /\ Of("catalog") => Catalog!EveryOverloadIsListed(s1, s2)
  /\ Of("catalog") => Catalog!TypesAreReachable(s1, s2)

(* An argument of a generic call arrives as the value that was written, or is refused: no *)
(* integer is cut or rounded on its way (service_generic_invoke_decode.go:44-279).        *)
ArgumentsArriveExact ==
  Of("decoding") => Decoding!ArgumentsArriveExact(s1.types, s1.args, s2)

(* A generic call runs the method again only after a reply was lost, never after an answer or *)
(* the deadline, and gives up on lost replies only after each endpoint was tried with each    *)
(* serialization, none of them twice (service_generic_invoke.go:282-405).                     *)
CallsRepeatOnlyAfterLoss ==
  area = "invoke" => Invoke!CallsRepeatOnlyAfterLoss

(* A reader who pages through a search is shown each match once and in order while nothing    *)
(* changes, and the instances of a service are all that were there throughout the collection, *)
(* none that never was, and each once (manager.go:113-127,                                    *)
(* service_provider_instances.go:31-83).                                                      *)
SearchesAreExact ==
  area = "queries" =>
    /\ Searches!TypeOK
    /\ Searches!WalkIsExact
    /\ Searches!ProvidersAreComplete

(* No login is turned away while the store of pending logins has room, and its map and its      *)
(* queue agree; a login is completed once, in the browser and at the provider that it was begun *)
(* with; and who is logged in changes only by a request that asks for it, or by one that was    *)
(* under way when that last happened (auth/service.go:137-250, handler/auth.go:58-149).         *)
LoginsAreSound ==
  /\ [](area = "login" => Login!TypeOK /\ Login!RoomIsUsed /\ Login!LoginCompletesOnce)
  /\ [][area = "login" => Login!SessionChangesWhenAsked]_<<area, slots>>

(* A service exists, with the methods of all its providers, exactly if there is one, unless its *)
(* event was dropped or given up; its consumers are those that Nacos lists, or none once the    *)
(* notice of another version of the name has come; and the records of the timeline add up to    *)
(* what Nacos lists (service_provider_metadata.go:164-257, nacos_service.go:98-480).            *)
MetadataFollowsRegistry ==
  area = "metadata" =>
    /\ Metadata!TypeOK
    /\ Metadata!ServiceFollowsProviders
    /\ Metadata!ConsumersFollowRegistry
    /\ Metadata!RecordsReplay

(* Every event is in the timeline once and under its application when all is handled, except  *)
(* what the bus dropped, the store refused or a new list removed; the timeline of an          *)
(* application is in order and has all that is filed for it, and besides only what belongs to *)
(* names that continue its own (lifecycle_event.go:72-196, event.go:38-160).                  *)
TimelineIsFiled ==
  area = "timeline" =>
    /\ Timeline!TypeOK
    /\ Timeline!EventsAreFiled
    /\ Timeline!TimelineShowsApplication

(* What the forms of the console read of a rule and write back keeps the rule: argument routes  *)
(* with single destinations and the conditions beside them (service.go:707-760), configurations *)
(* that select by matches with one alternative and not by application                           *)
(* (configurator_rule.go:98-256), tag rules (tag_rule.go:48-77), the gray tags that list        *)
(* addresses (application.go:690-810), and affinity and script rules, which are published       *)
(* exactly if they are valid (router_rule_codec.go:71-270).                                     *)
FormsKeepRules ==
  /\ Of("forms") /\ s1.of = "routes" => Forms!ArgumentRoutesReturn(s1.conditions, s1.routes, s2)
  /\ Of("forms") /\ s1.of = "configurator" => Forms!EditorKeepsConfigurator(s1.rule, s2)
  /\ Of("forms") /\ s1.of = "tag" => Forms!EditorKeepsTagRule(s1.rule, s2)
  /\ Of("forms") /\ s1.of = "gray" => Forms!GrayFormKeepsTags(s1.rule, s2)
  /\ Of("forms") /\ s1.of = "codec" => Forms!RuleSurvivesCodec(s1.rule, s2.text, s2.rule)

(* A configuration that the loader accepts serves every component that reads it: meshes with   *)
(* names of their own, registries with all addresses and periods unless the file gives the     *)
(* service period alone, a way to log in unless the file rules it out, and a callback for each *)
(* provider; it is accepted again as it is; and only a section that is named and left empty    *)
(* makes the program panic (loader.go:34-56, admin.go:93-205).                                 *)
ConfigIsUsable ==
  /\ Of("config") => Config!AcceptedIsUsable(s1.file, s2)
  /\ Of("config") => Config!LoadingSettles(s1.file, s2)

(* Between changes the newest version is the rule in force, unless the configuration center    *)
(* failed after it was recorded or others changed the rule; a change that is reported done was *)
(* in force while it was asked for, and a deletion may be reported when the store did not show *)
(* the rule; a version is compared with the one recorded just before it although retention     *)
(* deletes versions between the two reads (rule_version.go:134-308, manager.go:73-87,          *)
(* service.go:107-136).                                                                        *)
VersionsTellTheRule ==
  area = "versions" =>
    /\ Versions!TypeOK
    /\ Versions!NewestIsInForce
    /\ Versions!DoneIsDone
    /\ Versions!PreviousIsPrevious

(* The database store answers with exactly the resources that meet the conditions, in the order *)
(* of their keys and cut into pages of which none is missing or twice; the memory store answers *)
(* alike as long as both took every write, and no tree holds an old value                       *)
(* (gorm_store.go:119-676, memory/store.go:76-108).                                             *)
BackendsAgree ==
  area = "backends" =>
    /\ Backends!TypeOK
    /\ Backends!DatabaseAnswersExactly
    /\ Backends!StoresAgree

(* Three turns after the last change of names or failure every copy of a Nacos service is what *)
(* the registry has, except where a push met a deletion or a call failed; and the poll deletes *)
(* a service only if it was absent during the turn, or if names came or went while the pages   *)
(* were walked (nacos_service.go:128-173).                                                     *)
ServicesFollowRegistry ==
  /\ [](area = "services" => Listed!TypeOK /\ Listed!CopiesFollowRegistry)
  /\ [][area = "services" => Listed!DeletedIfGone]_<<area, slots>>

(* All that follows from what an informer reports is derived on its replica from the first    *)
(* event on; for the engine, up to the instance.  The informers of a component run on one     *)
(* replica, but for one that is about to stop them or could not ensure the lease table at its *)
(* start (discovery/component.go:122-208, engine/component.go:226-242).                       *)
EventsMeetSubscribers ==
  area = "wiring" => Replicated!EventsMeetSubscribers

(* The events of ZooKeeper nodes leave in the store what listing the nodes would give, except *)
(* for names in dispute (zk/factory.go:99-232).                                               *)
NodesAreMirrored ==
  area = "nodes" => Nodes!NodesAreMirrored
=============================================================================
