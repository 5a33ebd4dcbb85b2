--------------------------- MODULE MCInstanceSync ---------------------------
(* Two instances at addresses of their own: the pod of the first has complete  *)
(* labels, the pod of the second none.                                         *)
EXTENDS InstanceSync

CONSTANTS k1, k2, p1, p2

Addresses == [k \in Keys |-> IF k = k1 THEN 1 ELSE 2]
PodAddresses == [p \in Pods |-> IF p = p1 THEN 1 ELSE 2]
Labels == [p \in Pods |-> IF p = p1 THEN k1 ELSE None]
=============================================================================
