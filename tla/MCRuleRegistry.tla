--------------------------- MODULE MCRuleRegistry ---------------------------
(* A mesh has a registry of one kind or the other; the other stays off.         *)
EXTENDS Integers, Sequences, FiniteSets

CONSTANTS Contents, Wellformed, Blank, None, Watchers, BufferSize, Jobs, QueueBound, MaxMoves

VARIABLES
  zkNode, zkRaw, zkRule, zkPhase, kids, data, zkWire, inbox, sub, sweep, zkGov, zkMoves, zkGap,
  nacosNode, nacosRule, nacosPhase, job, watching, heard, nacosWire, nacosGov, nacosMoves, nacosGap

Zookeeper == INSTANCE ZookeeperRules
  WITH node <- zkNode, raw <- zkRaw, rule <- zkRule, phase <- zkPhase, wire <- zkWire,
       gov <- zkGov, moves <- zkMoves, gap <- zkGap

Nacos == INSTANCE NacosRules
  WITH node <- nacosNode, rule <- nacosRule, phase <- nacosPhase, wire <- nacosWire,
       gov <- nacosGov, moves <- nacosMoves, gap <- nacosGap

zkVars == <<zkNode, zkRaw, zkRule, zkPhase, kids, data, zkWire, inbox, sub, sweep, zkGov,
            zkMoves, zkGap>>

nacosVars == <<nacosNode, nacosRule, nacosPhase, job, watching, heard, nacosWire, nacosGov,
               nacosMoves, nacosGap>>

Init ==
  \/ Zookeeper!Init /\ Nacos!Off
  \/ Nacos!Init /\ Zookeeper!Unused

Next ==
  \/ Zookeeper!Next /\ UNCHANGED nacosVars
  \/ Nacos!Next /\ UNCHANGED zkVars

Spec ==
  /\ Init /\ [][Next]_<<zkVars, nacosVars>>
  /\ Zookeeper!Fairness /\ Nacos!Fairness

(* The stored rules follow the registries.  Once the watcher and the subscribers have    *)
(* nothing left to do, the rule is what the ZooKeeper node holds, unless a gap the code   *)
(* leaves open was hit (watcher.go:184-236, zk_config.go:151-241), and the watcher's       *)
(* channel (watcher.go:50) never holds more than its buffer.  A registry that is left      *)
(* alone is eventually followed for good, by the goroutines of the watcher and by the      *)
(* polling of every page of Nacos (nacos_config.go:98-121).                                *)
RulesFollowRegistry ==
  /\ [](Zookeeper!TypeOK /\ Nacos!TypeOK /\ Zookeeper!StoreFollowsRegistry)
  /\ Zookeeper!EventuallyFollows
  /\ Nacos!EventuallyFollows
=============================================================================
