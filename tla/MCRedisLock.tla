----------------------------- MODULE MCRedisLock -----------------------------
(* Instances of RedisLock for TLC. *)
EXTENDS RedisLock

CONSTANTS t1, t2, t3

EachOnce == [k \in FaultKinds |-> 1]
=============================================================================
