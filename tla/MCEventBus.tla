------------------------------ MODULE MCEventBus ------------------------------
(* EventBus with an asynchronous subscriber s1 of kind k1 that emits events of *)
(* kind k2, an asynchronous s2 and a synchronous s3 (the counters) of kind k2, *)
(* and a sender p1 of kind k1.                                                  *)
EXTENDS EventBus

CONSTANTS s1, s2, s3, p1, k1, k2

KindOfThread == [t \in Threads |-> IF t \in {s1, p1} THEN k1 ELSE k2]

EmittedBy == [s \in Subscribers |-> IF s = s1 THEN k2 ELSE NoKind]
=============================================================================
