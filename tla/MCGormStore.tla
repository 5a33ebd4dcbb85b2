----------------------------- MODULE MCGormStore -----------------------------
(* GormStore with two resources that share the index value n (a mesh) and       *)
(* differ in x and y (an address).                                              *)
EXTENDS GormStore

CONSTANTS a, b, x, y, n

Indexers == [r \in Resources |-> IF r = a THEN {x, n} ELSE {y, n}]

EqualsX == [operator |-> "Equals", values |-> {x}]
EqualsN == [operator |-> "Equals", values |-> {n}]
PrefixXY == [operator |-> "HasPrefix", values |-> {x, y}]

SomeRequests == {<<PrefixXY>>, <<EqualsN, EqualsX>>}

FirstAndSecond == {[offset |-> o, size |-> 1] : o \in 0 .. 1}
=============================================================================
