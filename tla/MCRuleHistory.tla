---------------------------- MODULE MCRuleHistory ----------------------------
(* RuleHistory with replicas r1 and r2: m1 and b1 run in r1, m2 and b2 in r2. *)
EXTENDS RuleHistory

CONSTANTS m1, m2, b1, b2, r1, r2

ReplicaOf == [c \in Calls |-> IF c \in {m2, b2} THEN r2 ELSE r1]
=============================================================================
