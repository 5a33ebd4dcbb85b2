-------------------------- MODULE MCDistributedLock --------------------------
(* Small instances of DistributedLock for TLC: two calls of one process and  *)
(* one call of another.                                                      *)
EXTENDS DistributedLock

CONSTANTS c1, c2, c3, p1, p2

OwnerOf == [c \in Calls |-> IF c = c3 THEN p2 ELSE p1]
=============================================================================
