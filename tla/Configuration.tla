--------------------------- MODULE Configuration ---------------------------
(***************************************************************************)
(* How the configuration file becomes the configuration in force             *)
(* (pkg/config): the file is laid over the defaults, sections are completed   *)
(* (PreProcess), and checked and completed once more (Validate).  A section   *)
(* is a record; a nil pointer, and a URL that cannot be parsed, are None.     *)
(* A session secret is its length, 0 for a blank one; the path of a redirect  *)
(* URL is the provider whose callback route it names.                         *)
(***************************************************************************)
EXTENDS Integers, SequencesExt

CONSTANTS None, Blank, MinimumSessionSecretLength

Password == "password"

DefaultPeriod == 30

Port == 1..65535

Url(scheme, host, path) == [scheme |-> scheme, host |-> host, path |-> path]

NoUrl == Url(Blank, Blank, Blank)

Default ==
  [log |-> [level |-> "debug"], store |-> [type |-> "memory"],
   engine |-> [id |-> "uuid", type |-> "mock", identifiers |-> {}, strategy |-> "ByIndex"],
   observability |-> [prometheus |-> NoUrl, grafana |-> NoUrl], diagnostics |-> [serverPort |-> 5680],
   eventBus |-> [bufferSize |-> 1024], ruleVersioning |-> [maxVersionsPerRule |-> 20],
   console |-> None, discovery |-> <<>>]

-----------------------------------------------------------------------------
(* Completing what the file left out *)

(* Seeded bug: the configuration center does not default to the registry. *)
PreProcessDiscovery_NoCenter(d) ==
  LET unset == d.serviceWatchPeriod <= 0
  IN [d EXCEPT !.metadataReport = IF @ = Blank THEN d.registry ELSE @,
               !.serviceWatchPeriod = IF unset THEN DefaultPeriod ELSE @,
               !.configWatchPeriod = IF unset THEN DefaultPeriod ELSE @]

(* Only a missing service period lets in the default periods, and then for both. *)
PreProcessDiscovery(d) ==
  LET or(address) == IF address = Blank THEN d.registry ELSE address
      unset == d.serviceWatchPeriod <= 0
  IN [d EXCEPT !.configCenter = or(@), !.metadataReport = or(@),
               !.serviceWatchPeriod = IF unset THEN DefaultPeriod ELSE @,
               !.configWatchPeriod = IF unset THEN DefaultPeriod ELSE @]

PreProcess(c) ==
  [c EXCEPT !.ruleVersioning = IF @ = None THEN Default.ruleVersioning ELSE @,
            !.discovery = [i \in DOMAIN @ |-> PreProcessDiscovery(@[i])]]

PostProcess(c) == [c EXCEPT !.ruleVersioning = IF @ = None THEN Default.ruleVersioning ELSE @]

(* The methods that a section takes from its base have no nil receiver. *)
Dereferenced == {"engine", "store", "observability", "diagnostics", "log"}

-----------------------------------------------------------------------------
(* Checking *)

ValidateDiscovery(d) ==
  /\ Blank \notin {d.id, d.name, d.type}
  /\ d.registry # Blank \/ d.type = "mock"

ValidateEngine(e) ==
  /\ e.id # Blank
  /\ e.type \in {"kubernetes", "mock"}
  /\ e.identifiers \subseteq {"ByLabel", "ByAnnotation"}
  /\ e.strategy \in {None, "ByLast", "ByIndex", "ByName", "ByAnnotation"}

ValidateObservability(o) == None \notin {o.prometheus, o.grafana}

ValidateDashboards(g) == g = None \/ None \notin {g.application, g.instance, g.service}

ValidateHTTPURL(u) == u # None /\ u.scheme \in {"http", "https"} /\ u.host # Blank

ValidateOIDCURL(u) == ValidateHTTPURL(u) /\ (u.scheme = "http" => u.host = "loopback")

ValidateIconURL(u) ==
  \/ u = NoUrl
  \/ u # None /\ (IF u.scheme = Blank THEN u.host = Blank /\ u.path # Blank ELSE ValidateOIDCURL(u))

CompleteProvider(id, p) ==
  LET scopes == IF p.type = "oidc" THEN {"openid", "profile", "email"} ELSE {"read:user", "user:email"}
  IN [p EXCEPT !.displayName = IF @ = Blank THEN id ELSE @, !.scopes = IF @ = {} THEN scopes ELSE @]

(* p is complete; an identifier that does not match the pattern is blank here. *)
ValidateProvider(id, p) ==
  /\ id # Blank
  /\ p.type \in {"github", "oidc"}
  /\ ValidateIconURL(p.iconUrl)
  /\ Blank \notin {p.clientId, p.clientSecret}
  /\ ValidateHTTPURL(p.redirectUrl) /\ p.redirectUrl.path = id
  /\ ValidateHTTPURL(p.postLoginRedirectUrl)
  /\ p.type = "oidc" => ValidateOIDCURL(p.issuer) /\ "openid" \in p.scopes

CompleteAuth(a, environment) ==
  [a EXCEPT !.methods = IF @ = None THEN <<Password>> ELSE @,
            !.sessionSecret = IF @ = 0 THEN environment ELSE @,
            !.providers = [id \in DOMAIN @ |-> CompleteProvider(id, @[id])]]

ValidateAuth(a) ==
  /\ Range(a.methods) \subseteq {Password}
  /\ a.methods # <<>> => Blank \notin {a.user, a.password}
  /\ 0 < a.expirationTime /\ a.expirationTime < 24 * 60 * 60
  /\ a.sessionSecret >= MinimumSessionSecretLength
  /\ \A id \in DOMAIN a.providers : ValidateProvider(id, a.providers[id])

ValidateConsole(c) ==
  /\ c.ginMode \in {"debug", "release", "test"}
  /\ c.port \in Port
  /\ c.auth # None
  /\ ValidateDashboards(c.metricDashboards) /\ ValidateDashboards(c.traceDashboards)
  /\ ValidateAuth(c.auth)

(* What Validate fills in on its way. *)
Complete(c, environment) ==
  [c EXCEPT !.eventBus = IF @ = None THEN Default.eventBus ELSE @,
            !.console.auth = IF @ = None THEN None ELSE CompleteAuth(@, environment)]

Validate(c) ==
  /\ c.log.level \in {"debug", "info", "warn", "error"}
  /\ c.store.type \in {"memory", "mysql", "postgres"}
  /\ c.diagnostics.serverPort \in Port
  /\ ValidateConsole(c.console)
  /\ ValidateObservability(c.observability)
  /\ c.discovery # <<>>
  /\ \A i \in DOMAIN c.discovery : ValidateDiscovery(c.discovery[i])
  /\ \A i, j \in DOMAIN c.discovery : c.discovery[i].id = c.discovery[j].id => i = j
  /\ ValidateEngine(c.engine)
  /\ c.ruleVersioning.maxVersionsPerRule >= 0

Refused == [outcome |-> "refused", config |-> None]

Panicked == [outcome |-> "panicked", config |-> None]

Accepted(c) == [outcome |-> "accepted", config |-> c]

Over(given, base) ==
  [s \in DOMAIN given \cup DOMAIN base |-> IF s \in DOMAIN given THEN given[s] ELSE base[s]]

(* The file is None if it cannot be read, and gives some of the sections otherwise. *)
Load(file, environment) ==
  LET read == Over(file, Default)
      complete == Complete(PostProcess(PreProcess(read)), environment)
  IN IF file = None \/ read.console = None THEN Refused
     ELSE IF \E s \in Dereferenced : read[s] = None THEN Panicked
     ELSE IF Validate(complete) THEN Accepted(complete)
     ELSE Refused

-----------------------------------------------------------------------------
(* Properties *)

(* An accepted configuration serves every component that reads it (admin.go:93-205).  The     *)
(* meshes have names of their own; a registry has its three addresses, and both polls a       *)
(* period, but for a file that gives only the service period (discovery/config.go:63-76);     *)
(* there is a way to log in unless the file rules the password out and names no provider; and *)
(* no two providers come back to the same callback (auth/config.go:78-154).                   *)
AcceptedIsUsable(file, result) ==
  result.outcome = "accepted" =>
    LET c == result.config
        auth == c.console.auth
    IN /\ Len(c.discovery) = Cardinality({d.id : d \in Range(c.discovery)})
       /\ \A i \in DOMAIN c.discovery :
            LET d == c.discovery[i]
            IN /\ d.type = "mock" \/ Blank \notin {d.registry, d.configCenter, d.metadataReport}
               /\ d.serviceWatchPeriod > 0
               /\ d.configWatchPeriod > 0 \/ file.discovery[i].configWatchPeriod <= 0
       /\ auth.methods = <<>> /\ DOMAIN auth.providers = {} => file.console.auth.methods = <<>>
       /\ \A id, other \in DOMAIN auth.providers :
            auth.providers[id].redirectUrl.path = auth.providers[other].redirectUrl.path => id = other

(* Loading is settled: a configuration that was accepted is accepted again as it is, whatever *)
(* the environment has become; and the program panics only over a section that the file       *)
(* names and leaves empty (loader.go:34-56, admin.go:93-118).                                 *)
LoadingSettles(file, result) ==
  /\ result.outcome = "accepted" => Load(result.config, 0) = result
  /\ result.outcome = "panicked" => \E s \in DOMAIN file : file[s] = None
=============================================================================
