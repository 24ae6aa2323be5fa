-------------------------- MODULE MCKnowledgeBases --------------------------
(* An instance of KnowledgeBases. *)
EXTENDS KnowledgeBases, TLC

Symmetry == Permutations(Bots) \cup Permutations(Bases) \cup Permutations(Clients) \cup Permutations(Workers)
              \cup Permutations(Names) \cup Permutations(Notes)
=============================================================================
