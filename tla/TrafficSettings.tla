--------------------------- MODULE TrafficSettings --------------------------
(***************************************************************************)
(* The traffic settings of the console.  Each setting (access log, weights, *)
(* gray environments, timeout, ...) is a few entries of a rule of an        *)
(* application or a service, between entries of other settings and entries  *)
(* written by hand.  A setting is changed by reading the rule, working out  *)
(* the new entries, and writing the whole rule: the read comes before the   *)
(* lock the write takes, so that what was read may have changed.  One rule, *)
(* its settings, and the requests that change it; the store is a database.  *)
(***************************************************************************)
EXTENDS Integers, FiniteSetsExt, SequencesExt

CONSTANTS
  Requests,      \* requests in progress at the same time
  Ips,           \* instances of the application
  Sets,          \* flow weights, gray environments, argument routes
  Timeouts,      \* timeouts and retries, Default among them
  Default,
  MaxRequests,   \* bound: requests
  MaxFailures,   \* bound: writes that fail
  None

VARIABLES
  registry,  \* the kind of registry behind the rule: create fails in ZooKeeper
             \* when the rule exists, Nacos publishes in any case
  kind,      \* which rule this is
  rule,      \* the rule, or None
  request,   \* what each request is doing
  requests, failures,
  expected   \* history: what each setting was last set to

vars == <<registry, kind, rule, request, requests, failures, expected>>

Kinds == {"app.configurators", "app.tag-router", "app.condition-router",
          "service.configurators", "service.condition-router"}

(* The settings kept in a rule: those of the whole rule and those of an instance. *)
Settings(k) ==
  CASE k = "app.configurators" -> ({"accesslog", "weight"} \X {None}) \cup ({"instancelog"} \X Ips)
    [] k = "app.tag-router" -> {"gray"} \X {None}
    [] k = "app.condition-router" -> {"disabled"} \X Ips
    [] k = "service.configurators" -> {"timeout", "retries"} \X {None}
    [] OTHER -> {"region", "argument"} \X {None}

AccessLog == <<"accesslog", None>>
Weight == <<"weight", None>>
InstanceLog(ip) == <<"instancelog", ip>>
Gray == <<"gray", None>>
Disabled(ip) == <<"disabled", ip>>
Timeout == <<"timeout", None>>
Retries == <<"retries", None>>
Region == <<"region", None>>
Argument == <<"argument", None>>

Entry(s, v) == [of |-> s, value |-> v]

(* An entry that belongs to no setting. *)
Foreign == Entry(<<"foreign", None>>, None)

(* A rule has entries and switches of its own: enabled, and the others (force, *)
(* priority, runtime), which are the console's or the operator's.              *)
NewRule(entries) == [enabled |-> TRUE, custom |-> FALSE, entries |-> entries]

With(r, entries) == [r EXCEPT !.entries = entries]

Idle == [at |-> "idle"]

Has(r, s) == r # None /\ \E i \in DOMAIN r.entries : r.entries[i].of = s

First(r, s) == Min({i \in DOMAIN r.entries : r.entries[i].of = s})

Values(r, s) ==
  LET of == SelectSeq(r.entries, LAMBDA e : e.of = s)
  IN [i \in DOMAIN of |-> of[i].value]

-----------------------------------------------------------------------------
(* What a setting shows *)

GetAppAccessLog(r) == Has(r, AccessLog) /\ r.entries[First(r, AccessLog)].value

GetAppFlowWeight(r) == IF r = None THEN <<>> ELSE Values(r, Weight)

GetGrayConfig(r) == IF r = None THEN <<>> ELSE Values(r, Gray)

GetInstanceTrafficStatus(r, ip) == Has(r, Disabled(ip))

GetInstanceAccessLogOpenStatus(r, ip) == Has(r, InstanceLog(ip)) /\ r.enabled

GetServiceTimeoutConfig(r) ==
  IF Has(r, Timeout) THEN r.entries[First(r, Timeout)].value ELSE Default

GetServiceRetryConfig(r) ==
  IF Has(r, Retries) THEN r.entries[First(r, Retries)].value ELSE Default

GetServiceRegionPriorityConfig(r) == Has(r, Region)

(* Every condition of the rule is shown as a route, those of others too. *)
GetServiceArgumentRouteConfig(r) ==
  IF r = None THEN <<>>
  ELSE [i \in DOMAIN r.entries |->
         IF r.entries[i].of = Argument THEN r.entries[i].value ELSE "other"]

Shown(r, s) ==
  CASE s = AccessLog -> GetAppAccessLog(r)
    [] s = Weight -> GetAppFlowWeight(r)
    [] s = Gray -> GetGrayConfig(r)
    [] s = Timeout -> GetServiceTimeoutConfig(r)
    [] s = Retries -> GetServiceRetryConfig(r)
    [] s = Region -> GetServiceRegionPriorityConfig(r)
    [] s = Argument -> SelectSeq(GetServiceArgumentRouteConfig(r), LAMBDA v : v # "other")
    [] s[1] = "disabled" -> GetInstanceTrafficStatus(r, s[2])
    [] OTHER -> GetInstanceAccessLogOpenStatus(r, s[2])

-----------------------------------------------------------------------------
(* How a setting is changed: whether the rule is created or updated, and the *)
(* contents written one after the other.                                     *)

Nothing == [how |-> "none", saves |-> <<>>]

Create(entries) == [how |-> "create", saves |-> <<NewRule(entries)>>]

Update(r) == [how |-> "update", saves |-> <<r>>]

UpInsertAppAccessLog(r, open) ==
  CASE r = None -> IF open THEN Create(<<Entry(AccessLog, TRUE)>>) ELSE Nothing
    [] r # None /\ ~Has(r, AccessLog) ->
         IF open THEN Update(With(r, Append(r.entries, Entry(AccessLog, TRUE)))) ELSE Nothing
    [] OTHER ->
         IF r.entries[First(r, AccessLog)].value = open THEN Nothing
         ELSE Update(With(r, ReplaceAt(r.entries, First(r, AccessLog), Entry(AccessLog, open))))

(* The entries of a list replace all that were there, at the end of the rule. *)
Entries(s, list) == [i \in DOMAIN list |-> Entry(s, list[i])]

Others(r, s) == SelectSeq(r.entries, LAMBDA e : e.of # s)

UpInsertAppFlowWeightConfig(r, list) ==
  IF r = None THEN Create(Entries(Weight, list))
  ELSE Update(With(r, Others(r, Weight) \o Entries(Weight, list)))

UpInsertAppGrayConfig(r, list) ==
  IF r = None THEN Create(Entries(Gray, list))
  ELSE Update(With(r, Others(r, Gray) \o Entries(Gray, list)))

(* An entry that is there or not: disabled instances, instance access logs and *)
(* region priority.  To take it away removes the first one.                    *)
Toggle(r, s, on) ==
  CASE r = None -> IF on THEN Create(<<Entry(s, TRUE)>>) ELSE Nothing
    [] Has(r, s) -> IF on THEN Nothing ELSE Update(With(r, RemoveAt(r.entries, First(r, s))))
    [] OTHER -> IF on THEN Update(With(r, Append(r.entries, Entry(s, TRUE)))) ELSE Nothing

UpdateInstanceTrafficStatus(r, ip, disabled) == Toggle(r, Disabled(ip), disabled)

UpdateInstanceAccessLogOpenStatus(r, ip, open) == Toggle(r, InstanceLog(ip), open)

UpInsertServiceRegionPriorityConfig(r, on) == Toggle(r, Region, on)

UpInsertServiceConfigTimeoutConfig(r, t) ==
  CASE r = None -> IF t = Default THEN Nothing ELSE Create(<<Entry(Timeout, t)>>)
    [] Has(r, Timeout) ->
         IF r.entries[First(r, Timeout)].value = t THEN Nothing
         ELSE Update(With(r, ReplaceAt(r.entries, First(r, Timeout), Entry(Timeout, t))))
    [] OTHER -> Update(With(r, Append(r.entries, Entry(Timeout, t))))

(* The loop over the entries goes on after an update: each entry up to the     *)
(* first that has the value is set and written in turn, and when none has it   *)
(* an entry is added, unless the value is the default.                         *)
UpInsertServiceRetryConfig(r, n) ==
  IF r = None THEN IF n = Default THEN Nothing ELSE Create(<<Entry(Retries, n)>>)
  ELSE
    LET found == {i \in DOMAIN r.entries : r.entries[i].of = Retries}
        same == {i \in found : r.entries[i].value = n}
        differ == {i \in found : \A j \in same : i < j}
        order == SetToSortSeq(differ, <)
        Upto(k) == With(r, [i \in DOMAIN r.entries |->
                       IF \E j \in 1 .. k : order[j] = i THEN Entry(Retries, n) ELSE r.entries[i]])
        all == Upto(Len(order))
        added == IF same # {} \/ n = Default THEN <<>>
                 ELSE <<With(all, Append(all.entries, Entry(Retries, n)))>>
    IN [how |-> "update", saves |-> [k \in DOMAIN order |-> Upto(k)] \o added]

(* The routes replace the conditions that name a method, and the switches of   *)
(* the rule become the console's.  A missing rule is not created but updated.  *)
UpInsertServiceArgumentRouteConfig(r, routes) ==
  LET kept == IF r = None THEN <<>> ELSE Others(r, Argument)
  IN Update(NewRule(kept \o Entries(Argument, routes)))

-----------------------------------------------------------------------------
(* Requests *)

Begin(c, s, x, plan) ==
  /\ request[c] = Idle /\ requests < MaxRequests
  /\ requests' = requests + 1
  /\ IF plan.saves = <<>>
     THEN /\ expected' = [expected EXCEPT ![s] = <<x>>]
          /\ UNCHANGED request
     ELSE /\ request' = [request EXCEPT ![c] = [at |-> "write", of |-> s, value |-> x,
                                                how |-> plan.how, saves |-> plan.saves, read |-> rule]]
          /\ UNCHANGED expected
  /\ UNCHANGED <<registry, kind, rule, failures>>

ApplicationConfigAccessLogPut(c) ==
  /\ kind = "app.configurators"
  /\ \E open \in BOOLEAN : Begin(c, AccessLog, open, UpInsertAppAccessLog(rule, open))

ApplicationConfigFlowWeightPUT(c) ==
  /\ kind = "app.configurators"
  /\ \E list \in SeqOf(Sets, 1) : Begin(c, Weight, list, UpInsertAppFlowWeightConfig(rule, list))

ApplicationConfigGrayPUT(c) ==
  /\ kind = "app.tag-router"
  /\ \E list \in SeqOf(Sets, 2) : Begin(c, Gray, list, UpInsertAppGrayConfig(rule, list))

InstanceConfigTrafficDisablePUT(c) ==
  /\ kind = "app.condition-router"
  /\ \E ip \in Ips, off \in BOOLEAN :
       Begin(c, Disabled(ip), off, UpdateInstanceTrafficStatus(rule, ip, off))

InstanceConfigOperatorLogPUT(c) ==
  /\ kind = "app.configurators"
  /\ \E ip \in Ips, open \in BOOLEAN :
       Begin(c, InstanceLog(ip), open, UpdateInstanceAccessLogOpenStatus(rule, ip, open))

ServiceConfigTimeoutPUT(c) ==
  /\ kind = "service.configurators"
  /\ \E t \in Timeouts : Begin(c, Timeout, t, UpInsertServiceConfigTimeoutConfig(rule, t))

ServiceConfigRetryPUT(c) ==
  /\ kind = "service.configurators"
  /\ \E n \in Timeouts : Begin(c, Retries, n, UpInsertServiceRetryConfig(rule, n))

ServiceConfigRegionPriorityPUT(c) ==
  /\ kind = "service.condition-router"
  /\ \E on \in BOOLEAN : Begin(c, Region, on, UpInsertServiceRegionPriorityConfig(rule, on))

ServiceConfigArgumentRoutePUT(c) ==
  /\ kind = "service.condition-router"
  /\ \E list \in SeqOf(Sets, 1) : Begin(c, Argument, list, UpInsertServiceArgumentRouteConfig(rule, list))

(* The rule editor writes a rule whole. *)
Whole == <<"rule", None>>

Edited == [enabled |-> FALSE, custom |-> TRUE, entries |-> <<Foreign>>]

Post(c) == Begin(c, Whole, None, [how |-> "create", saves |-> <<Edited>>])

Put(c) == Begin(c, Whole, None, Update(Edited))

Delete(c) == Begin(c, Whole, None, [how |-> "delete", saves |-> <<None>>])

IsConfigurator == kind \in {"app.configurators", "service.configurators"}

IsTagRule == kind = "app.tag-router"

IsConditionRule == kind \in {"app.condition-router", "service.condition-router"}

PostConfiguratorWithRuleName(c) == IsConfigurator /\ Post(c)

(* A rule that is missing is reported, and the handler goes on to an update, which fails. *)
PutConfiguratorWithRuleName(c) == IsConfigurator /\ Put(c)

DeleteConfiguratorWithRuleName(c) == IsConfigurator /\ Delete(c)

PostTagRuleWithRuleName(c) == IsTagRule /\ Post(c)

(* A rule that is missing is reported, and nothing is written. *)
PutTagRuleWithRuleName(c) == IsTagRule /\ rule # None /\ Put(c)

DeleteTagRuleWithRuleName(c) == IsTagRule /\ Delete(c)

PostConditionRuleWithRuleName(c) == IsConditionRule /\ Post(c)

PutConditionRuleWithRuleName(c) == IsConditionRule /\ rule # None /\ Put(c)

DeleteConditionRuleWithRuleName(c) == IsConditionRule /\ Delete(c)

NoPromise == [s \in Settings(kind) |-> <<>>]

Failed(c) ==
  /\ request' = [request EXCEPT ![c] = Idle]
  /\ expected' = IF request[c].of = Whole THEN expected
                 ELSE [expected EXCEPT ![request[c].of] = <<>>]
  /\ UNCHANGED rule

(* Seeded bug: a rule is updated without a look whether it still exists. *)
UpdateRule_Unchecked(c) == request[c].how = "update"

UpdateRule(c) == request[c].how = "update" /\ rule # None

CreateRule(c) == request[c].how = "create" /\ (rule = None \/ registry = "nacos")

(* A request takes the lock of the rule and writes what it has worked out: the *)
(* rule as it is now is only looked at for its existence.                      *)
Write(c) ==
  /\ request[c].at = "write"
  /\ LET q == request[c]
     IN \/ /\ UpdateRule(c) \/ CreateRule(c) \/ q.how = "delete"
           /\ rule' = Head(q.saves)
           /\ request' = [request EXCEPT ![c] =
                            IF Len(q.saves) = 1 THEN Idle
                            ELSE [q EXCEPT !.saves = Tail(@), !.read = Head(q.saves)]]
           /\ expected' =
                LET kept == IF rule = q.read /\ q.of # Whole THEN expected ELSE NoPromise
                IN IF q.of = Whole THEN kept
                   ELSE [kept EXCEPT ![q.of] = IF Len(q.saves) = 1 THEN <<q.value>> ELSE <<>>]
           /\ UNCHANGED failures
        \/ /\ ~UpdateRule(c) /\ ~CreateRule(c) /\ q.how # "delete"
           /\ Failed(c)
           /\ UNCHANGED failures
        \/ /\ failures < MaxFailures
           /\ failures' = failures + 1
           /\ Failed(c)
  /\ UNCHANGED <<registry, kind, requests>>

Init ==
  /\ registry \in {"zookeeper", "nacos"}
  /\ kind \in Kinds
  /\ rule \in {None, Edited, NewRule(<<Foreign>>)}
  /\ request = [c \in Requests |-> Idle]
  /\ requests = 0 /\ failures = 0
  /\ expected = NoPromise

Next ==
  \E c \in Requests :
    \/ ApplicationConfigAccessLogPut(c) \/ ApplicationConfigFlowWeightPUT(c)
    \/ ApplicationConfigGrayPUT(c) \/ InstanceConfigTrafficDisablePUT(c)
    \/ InstanceConfigOperatorLogPUT(c) \/ ServiceConfigTimeoutPUT(c)
    \/ ServiceConfigRetryPUT(c) \/ ServiceConfigRegionPriorityPUT(c)
    \/ ServiceConfigArgumentRoutePUT(c)
    \/ PostConfiguratorWithRuleName(c) \/ PutConfiguratorWithRuleName(c)
    \/ DeleteConfiguratorWithRuleName(c)
    \/ PostTagRuleWithRuleName(c) \/ PutTagRuleWithRuleName(c) \/ DeleteTagRuleWithRuleName(c)
    \/ PostConditionRuleWithRuleName(c) \/ PutConditionRuleWithRuleName(c)
    \/ DeleteConditionRuleWithRuleName(c)
    \/ Write(c)

Spec == Init /\ [][Next]_vars

-----------------------------------------------------------------------------
TypeOK ==
  /\ rule # None => /\ {rule.enabled, rule.custom} \subseteq BOOLEAN
                    /\ \A i \in DOMAIN rule.entries :
                         rule.entries[i].of \in Settings(kind) \cup {Foreign.of}
  /\ \A c \in Requests : request[c] # Idle =>
       /\ request[c].of \in Settings(kind) \cup {Whole}
       /\ request[c].how \in {"create", "update", "delete"}
       /\ request[c].saves # <<>>
  /\ requests \in 0 .. MaxRequests /\ failures \in 0 .. MaxFailures
  /\ DOMAIN expected = Settings(kind)

(* A setting shows what it was last set to, and no change of another setting   *)
(* of the rule alters it, as long as every change has written the rule it read *)
(* and the rule is not edited whole; opening the access log of an instance     *)
(* does not show while the rule is switched off.                               *)
SettingsHold ==
  \A s \in DOMAIN expected : expected[s] # <<>> =>
    \/ Shown(rule, s) = expected[s][1]
    \/ s[1] = "instancelog" /\ rule # None /\ ~rule.enabled

(* However requests overlap and fail, a setting with one value has one entry   *)
(* in the rule, so that there is no second one behind the one that is shown or *)
(* taken away.  Retries are the exception: a change adds an entry.             *)
OneEntryEach ==
  rule # None =>
    \A s \in Settings(kind) \ {Weight, Gray, Argument, Retries} :
      Cardinality({i \in DOMAIN rule.entries : rule.entries[i].of = s}) <= 1

(* A rule that was deleted is not brought back by a request that read it       *)
(* before: only a request that found no rule, or that is told to create one.   *)
NoResurrection ==
  rule = None /\ rule' # None =>
    \E c \in Requests : request[c] # Idle /\ request'[c] # request[c]
                        /\ (request[c].read = None \/ request[c].of = Whole)
=============================================================================
