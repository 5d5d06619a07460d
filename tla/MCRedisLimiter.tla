----------------------------- MODULE MCRedisLimiter -----------------------------
(* RedisLimiter on small instances. *)
EXTENDS RedisLimiter, TLC

Symmetry == Permutations(Replicas) \cup Permutations(Reqs)
================================================================================
