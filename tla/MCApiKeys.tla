----------------------------- MODULE MCApiKeys -----------------------------
(* Instances of ApiKeys. *)
EXTENDS ApiKeys, TLC

(* A key with a limit per second, open to the public chat.                  *)
MCNewKeys == {[status |-> "active", qps |-> 1, quota |-> 0, chat |-> TRUE, scopes |-> Scopes]}

(* What the console sends: a revocation, and a change of the limits that    *)
(* closes the public chat and says nothing of the status.                   *)
MCPatches == {[status |-> "revoked"],
              [qps |-> 2, quota |-> 1, chat |-> FALSE]}

Symmetry == Permutations(Admins) \cup Permutations(Callers)
=============================================================================
