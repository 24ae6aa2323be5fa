----------------------- MODULE MCRedisIngestionQueue -----------------------
(* The instances of RedisIngestionQueue that TLC checks. *)
EXTENDS RedisIngestionQueue, TLC

Symmetry == Permutations(Jobs) \cup Permutations(Workers)
=============================================================================
