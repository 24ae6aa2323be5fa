-------------------------- MODULE MCIngestionQueue --------------------------
(* The instances of IngestionQueue that TLC checks. *)
EXTENDS IngestionQueue, TLC

Symmetry == Permutations(Jobs) \cup Permutations(Workers)
=============================================================================
