------------------------ MODULE MCKnowledgeIngestion ------------------------
(* Instances of KnowledgeIngestion for TLC. *)
EXTENDS KnowledgeIngestion, TLC

Symmetry == Permutations(Clients) \cup Permutations(Workers)
=============================================================================
