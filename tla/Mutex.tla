-------------------------------- MODULE Mutex --------------------------------
(* What a caller of WithLock expects of the lock on one key: a function runs *)
(* only while its call holds the lock, and one call holds it at a time.      *)
CONSTANTS Calls, Free

VARIABLE holder

Init == holder = Free

Acquire(c) == holder = Free /\ holder' = c

Release(c) == holder = c /\ holder' = Free

Next == \E c \in Calls : Acquire(c) \/ Release(c)

Spec == Init /\ [][Next]_holder
=============================================================================
