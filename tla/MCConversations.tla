-------------------------- MODULE MCConversations --------------------------
(* Instances of Conversations: the sessions of one tenant. *)
EXTENDS Conversations, TLC

CONSTANT t1

MCTenantOf == [s \in Sessions |-> t1]
Symmetry   == Permutations(Clients)
=============================================================================
