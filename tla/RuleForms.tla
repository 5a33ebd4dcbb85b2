----------------------------- MODULE RuleForms -----------------------------
(***************************************************************************)
(* The forms a rule takes on its way: the expression an argument route is    *)
(* saved as, what the editor of a dynamic configuration or a tag rule is      *)
(* shown and sends back, and the text in which affinity and script rules are  *)
(* published.  Each conversion is a function, and a rule should come back     *)
(* from it as it went.                                                         *)
(***************************************************************************)
EXTENDS Integers, FiniteSetsExt, SequencesExt

CONSTANTS
  MaxScriptRuleSize,
  None

-----------------------------------------------------------------------------
(* Argument routes.  An expression is a sequence of tokens: words, relations and separators;  *)
(* blanks are left out, all parts are trimmed.                                                 *)

Term(left, relation, right) == [left |-> left, relation |-> relation, right |-> right]

(* RouteCondition.string and DestinationCondition.string: any relation but = is written !=. *)
RouteString(c) ==
  <<"arguments[">> \o c.left \o <<"]", IF c.relation = "=" THEN "=" ELSE "!=">> \o c.right

DestinationString(c) == c.left \o <<IF c.relation = "=" THEN "=" ELSE "!=">> \o c.right

(* The destinations follow one another with commas; every condition but the very first is     *)
(* preceded by an ampersand.                                                                   *)
ToExpression(sa) ==
  LET last == Len(sa.destinations)
      to(d, c) == (IF d > 1 \/ c > 1 THEN <<"&">> ELSE <<>>)
                    \o DestinationString(sa.destinations[d].conditions[c])
      destination(d) == FlattenSeq([c \in DOMAIN sa.destinations[d].conditions |-> to(d, c)])
                          \o (IF d < last THEN <<",">> ELSE <<>>)
  IN <<"method", "=">> \o sa.method
       \o FlattenSeq([i \in DOMAIN sa.conditions |-> <<"&">> \o RouteString(sa.conditions[i])])
       \o (IF last = 0 THEN <<>> ELSE <<"=>">> \o FlattenSeq([d \in 1..last |-> destination(d)]))

Split(s, separator) ==
  LET cuts == <<0>> \o SetToSortSeq({i \in DOMAIN s : s[i] = separator}, LAMBDA i, j : i < j)
                    \o <<Len(s) + 1>>
  IN [k \in 1..(Len(cuts) - 1) |-> SubSeq(s, cuts[k] + 1, cuts[k + 1] - 1)]

(* The first !=, or else the first =, divides a condition; without one it has no left side. *)
ParseDestinationCondition(s) ==
  LET unequal == {i \in DOMAIN s : s[i] = "!="}
      equal == {i \in DOMAIN s : s[i] = "="}
      at == IF unequal # {} THEN unequal ELSE equal
  IN IF at = {} THEN Term(<<>>, "", <<>>)
     ELSE Term(SubSeq(s, 1, Min(at) - 1), s[Min(at)], SubSeq(s, Min(at) + 1, Len(s)))

ParseRouteCondition(s) ==
  LET c == ParseDestinationCondition(s)
  IN IF c.left # <<>> /\ Head(c.left) = "arguments[" /\ Last(c.left) = "]"
       THEN [c EXCEPT !.left = SubSeq(@, 2, Len(@) - 1)] ELSE c

IsMethod(s) == Len(s) >= 2 /\ s[1] = "method" /\ s[2] = "="

(* The last method named counts. *)
ParseFromPart(s) ==
  LET parts == Split(s, "&")
      methods == SelectSeq(parts, IsMethod)
      conditions == SelectSeq(parts, LAMBDA p : ~IsMethod(p))
      parsed == [i \in DOMAIN conditions |-> ParseRouteCondition(conditions[i])]
  IN [method |-> IF methods = <<>> THEN <<>> ELSE SubSeq(Last(methods), 3, Len(Last(methods))),
      conditions |-> SelectSeq(parsed, LAMBDA c : c.left # <<>>)]

(* One destination, of weight 0, whatever the number there was. *)
ParseToPart(s) ==
  LET parts == Split(s, "&")
      parsed == [i \in DOMAIN parts |-> ParseDestinationCondition(parts[i])]
  IN IF s = <<>> THEN <<>>
     ELSE <<[conditions |-> SelectSeq(parsed, LAMBDA c : c.left # <<>>), weight |-> 0]>>

ParseConditionExpression(s) ==
  LET parts == Split(s, "=>")
      from == ParseFromPart(parts[1])
  IN [method |-> from.method, conditions |-> from.conditions,
      destinations |-> ParseToPart(IF Len(parts) > 1 THEN parts[2] ELSE <<>>)]

(* isArgumentRoute; UpInsertServiceArgumentRouteConfig keeps the other conditions of the rule  *)
(* and GetServiceArgumentRouteConfig shows all there are.                                       *)
IsArgumentRoute(s) == \E i \in DOMAIN s : s[i] = "method"

SavedRoutes(conditions, routes) ==
  SelectSeq(conditions, LAMBDA s : ~IsArgumentRoute(s))
    \o [i \in DOMAIN routes |-> ToExpression(routes[i])]

ShownRoutes(conditions) == [i \in DOMAIN conditions |-> ParseConditionExpression(conditions[i])]

(* What is shown of a route that was saved. *)
IsReturned(sa, answer) ==
  LET conditions(ds) == FlattenSeq([d \in DOMAIN ds |-> ds[d].conditions])
      wanted == conditions(sa.destinations)
      got == conditions(answer.destinations)
  IN /\ answer.method = sa.method /\ answer.conditions = sa.conditions
     /\ [i \in DOMAIN got |-> <<got[i].left, got[i].relation>>]
          = [i \in DOMAIN wanted |-> <<wanted[i].left, wanted[i].relation>>]
     /\ Len(sa.destinations) <= 1 => got = wanted
     /\ Len(answer.destinations) = IF Len(sa.destinations) > 1 \/ wanted # <<>> THEN 1 ELSE 0

(* Argument routes that are saved over those of a rule and read again (service.go:707-760,     *)
(* condition_rule.go:73-102, :290-430) have their methods and conditions, and with one          *)
(* destination that one, though its weight is not part of the expression.  Several destinations *)
(* come back as one that has all their tags.  Of the old routes none is left; the conditions of *)
(* other kinds stay and are shown before the routes, as routes without a method.                  *)
ArgumentRoutesReturn(conditions, routes, shown) ==
  LET others == SelectSeq(conditions, LAMBDA s : ~IsArgumentRoute(s))
      n == Len(others)
  IN /\ Len(shown) = n + Len(routes)
     /\ \A i \in DOMAIN routes : IsReturned(routes[i], shown[n + i])
     /\ \A i \in 1..n : shown[i].method = <<>>

-----------------------------------------------------------------------------
(* The editor.  A matcher is the set of the alternatives it fills in; what they say is left     *)
(* out.  Of a configuration's fields all the editor does not know are `others'.                  *)

First(order, matcher) ==
  LET set == {i \in DOMAIN order : order[i] \in matcher}
  IN IF set = {} THEN {} ELSE {order[Min(set)]}

AddressMatchToRespAddress(m) == IF m = None THEN None ELSE First(<<"exact", "wildcard", "cird">>, m)

AddressMatchToRespAddressMatch(m) == IF m = None THEN None ELSE First(<<"exact", "wildcard", "cird">>, m)

(* Seeded bug: a regular expression is forgotten. *)
StringMatchToModelStringMatch_NoRegex(m) ==
  IF m = None THEN None ELSE First(<<"exact", "prefix", "noempty", "empty", "wildcard">>, m)

StringMatchToModelStringMatch(m) ==
  IF m = None THEN None ELSE First(<<"exact", "prefix", "regex", "noempty", "empty", "wildcard">>, m)

ListStringMatchToRespListStringMatch(list) ==
  IF list = None THEN None ELSE [i \in DOMAIN list |-> StringMatchToModelStringMatch(list[i])]

ParamMatchToRespParamMatch(param) ==
  [i \in DOMAIN param |-> [param[i] EXCEPT !.value = StringMatchToModelStringMatch(@)]]

ConditionMatchToRespMatch(m) ==
  IF m = None THEN None
  ELSE [address |-> AddressMatchToRespAddress(m.address), app |-> ListStringMatchToRespListStringMatch(m.application),
        providerAddress |-> AddressMatchToRespAddressMatch(m.providerAddress),
        service |-> ListStringMatchToRespListStringMatch(m.service), param |-> ParamMatchToRespParamMatch(m.param)]

OverrideConfigToRespConfigItem(c) ==
  [enabled |-> c.enabled, side |-> c.side, parameters |-> c.parameters, match |-> ConditionMatchToRespMatch(c.match)]

GenDynamicConfigToResp(rule) ==
  [rule EXCEPT !.configs = [i \in DOMAIN @ |-> OverrideConfigToRespConfigItem(@[i])]]

TagToRespTagElement(t) == [name |-> t.name, addresses |-> t.addresses, match |-> ParamMatchToRespParamMatch(t.match)]

GenTagRouteResp(rule) == [rule EXCEPT !.tags = [i \in DOMAIN @ |-> TagToRespTagElement(@[i])]]

(* PutConfiguratorWithRuleName and PutTagRuleWithRuleName bind what the editor sends by the     *)
(* names of the stored resource: `app' is not one of them.                                        *)
BoundMatch(m) ==
  IF m = None THEN None
  ELSE [address |-> m.address, providerAddress |-> m.providerAddress, application |-> None, service |-> m.service, param |-> m.param]

BoundConfigurator(resp) ==
  [resp EXCEPT !.configs = [i \in DOMAIN @ |->
     [enabled |-> @[i].enabled, side |-> @[i].side, parameters |-> @[i].parameters,
      match |-> BoundMatch(@[i].match), others |-> {}]]]

BoundTagRule(resp) == [resp EXCEPT !.tags = [i \in DOMAIN @ |->
  [name |-> @[i].name, addresses |-> @[i].addresses, match |-> @[i].match, others |-> {}]]]

(* The gray form of an application: its environments are the tags of the rule that list no       *)
(* addresses; saving it puts those that are sent behind the other tags.                            *)
ModelStringMatchToStringMatch(m) ==
  IF m = None THEN None ELSE First(<<"exact", "prefix", "regex", "noempty", "empty", "wildcard">>, m)

IsGrayTag(t) == t.name # "" /\ t.addresses = <<>>

ShownGray(rule) ==
  LET gray == SelectSeq(rule.tags, IsGrayTag)
  IN [i \in DOMAIN gray |-> [name |-> gray[i].name, scope |-> ParamMatchToRespParamMatch(gray[i].match)]]

FromGraySet(set) ==
  [name |-> set.name, addresses |-> <<>>, others |-> {"__generate_by_cp"},
   match |-> [i \in DOMAIN set.scope |-> [set.scope[i] EXCEPT !.value = ModelStringMatchToStringMatch(@)]]]

SavedGray(rule, sets) ==
  [tags |-> SelectSeq(rule.tags, LAMBDA t : ~IsGrayTag(t)) \o [i \in DOMAIN sets |-> FromGraySet(sets[i])]]

(* A matcher fills in at most one alternative. *)
Single(m) == m = None \/ Cardinality(m) <= 1
SingleParams(param) == \A i \in DOMAIN param : Single(param[i].value)
Simple(m) ==
  \/ m = None
  \/ /\ Single(m.address) /\ Single(m.providerAddress) /\ m.application = None /\ SingleParams(m.param)
     /\ m.service = None \/ \A i \in DOMAIN m.service : Single(m.service[i])

(* A configuration that is opened in the editor and saved as it is (configurator_rule.go:98-256, *)
(* handler/configurator_rule.go:84-115) is the same configuration if each entry selects what it  *)
(* overrides by a match, each of its matchers in one way, and not by application.  The match by   *)
(* application, further alternatives and the selectors of older versions are lost; the switches,  *)
(* sides, parameters and their order never.                                                         *)
EditorKeepsConfigurator(rule, saved) ==
  /\ Len(saved.configs) = Len(rule.configs) /\ saved.enabled = rule.enabled
  /\ \A i \in DOMAIN rule.configs :
       LET before == rule.configs[i]
           after == saved.configs[i]
       IN /\ after.enabled = before.enabled /\ after.side = before.side /\ after.parameters = before.parameters
          /\ (after.match = None) <=> (before.match = None)
          /\ before.others = {} /\ Simple(before.match) => after = before

(* So does a tag rule (tag_rule.go:48-77), which has no match by application to lose. *)
EditorKeepsTagRule(rule, saved) ==
  /\ Len(saved.tags) = Len(rule.tags)
  /\ \A i \in DOMAIN rule.tags :
       LET before == rule.tags[i]
       IN /\ saved.tags[i].name = before.name /\ saved.tags[i].addresses = before.addresses
          /\ before.others = {} /\ SingleParams(before.match) => saved.tags[i] = before

(* The gray form, opened and saved as it is (application.go:690-810), moves the environments     *)
(* behind the tags that list addresses, changes the order of neither, and keeps every environment's *)
(* name and conditions where each is stated in one way.                                               *)
GrayFormKeepsTags(rule, saved) ==
  LET listed == SelectSeq(rule.tags, LAMBDA t : ~IsGrayTag(t))
      gray == SelectSeq(rule.tags, IsGrayTag)
      n == Len(listed)
  IN /\ Len(saved.tags) = n + Len(gray) /\ SubSeq(saved.tags, 1, n) = listed
     /\ \A i \in DOMAIN gray :
          /\ saved.tags[n + i].name = gray[i].name
          /\ SingleParams(gray[i].match) => saved.tags[n + i].match = gray[i].match

-----------------------------------------------------------------------------
(* Affinity and script rules.  `omitted' are the switches an annotation says the text left out; *)
(* `named' says that the resource is named after the key, which is not blank.                     *)

(* Seeded bug: the upper bound of the ratio is not looked at. *)
ValidateRule_NoUpper(r) ==
  CASE r.kind = "AffinityRoute" ->
         /\ r.version = "v3.1" /\ r.scope \in {"application", "service"} /\ r.named
         /\ r.aware # None /\ r.aware.key # "" /\ r.aware.ratio >= 0
    [] r.kind = "ScriptRoute" ->
         /\ r.version \in {"v3.0", "v3.1"} /\ r.scope = "application" /\ r.named
         /\ r.type = "javascript" /\ r.size >= 0

ValidateRule(r) ==
  CASE r.kind = "AffinityRoute" ->
         /\ r.version = "v3.1" /\ r.scope \in {"application", "service"} /\ r.named
         /\ r.aware # None /\ r.aware.key # "" /\ r.aware.ratio \in 0..100
    [] r.kind = "ScriptRoute" ->
         /\ r.version \in {"v3.0", "v3.1"} /\ r.scope = "application" /\ r.named
         /\ r.type = "javascript" /\ r.size \in 1..MaxScriptRuleSize

(* A switch that is off and was left out is left out again. *)
OptionalRuleBool(r, switch) == IF ~r[switch] /\ switch \in r.omitted THEN <<>> ELSE <<r[switch]>>

Switches(kind) == IF kind = "AffinityRoute" THEN {"runtime", "enabled"} ELSE {"enabled"}

(* The text, or None for a rule that is refused. *)
EncodeRule(r) ==
  IF ~ValidateRule(r) THEN None
  ELSE [r EXCEPT !.omitted = {}, !.runtime = IF r.kind = "AffinityRoute" THEN OptionalRuleBool(r, "runtime") ELSE <<>>,
                 !.enabled = OptionalRuleBool(r, "enabled")]

(* The rule a text that is not blank stands for, or None; markRuleBooleanOmitted and            *)
(* clearRuleBooleanOmitted keep track of what it leaves out.                                      *)
DecodeRule(text) ==
  LET value(switch) == text[switch] # <<>> /\ text[switch][1]
      r == [text EXCEPT !.runtime = value("runtime"), !.enabled = value("enabled"),
                        !.omitted = {s \in Switches(text.kind) : text[s] = <<>>}]
  IN IF ValidateRule(r) THEN r ELSE None

(* A rule that is published and read back (router_rule_codec.go:71-270) is the same rule, and    *)
(* its text the same text, switches that were left out included, unless one has been switched on *)
(* since; and it is published exactly if its ratio is a percentage or its script has a size       *)
(* within bounds, and its version, scope and name are those of its kind.                            *)
RuleSurvivesCodec(r, text, decoded) ==
  /\ text # None <=>
       /\ r.named /\ r.version \in (IF r.kind = "ScriptRoute" THEN {"v3.0", "v3.1"} ELSE {"v3.1"})
       /\ r.scope = "application" \/ (r.kind = "AffinityRoute" /\ r.scope = "service")
       /\ r.kind = "AffinityRoute" => r.aware # None /\ r.aware.key # "" /\ ~(r.aware.ratio < 0 \/ r.aware.ratio > 100)
       /\ r.kind = "ScriptRoute" => r.type = "javascript" /\ r.size > 0 /\ ~(r.size > MaxScriptRuleSize)
  /\ text # None =>
       /\ decoded = [r EXCEPT !.omitted = {s \in r.omitted : ~r[s]}]
       /\ EncodeRule(decoded) = text
=============================================================================
