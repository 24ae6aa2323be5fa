----------------------------- MODULE MCAccounts -----------------------------
(***************************************************************************)
(* Instances of Accounts: a small catalogue in which one permission of the *)
(* tenants, and all that the operators of the platform hold, are written   *)
(* with a wildcard.  A string that is somebody's e-mail address can be     *)
(* another's phone number.                                                 *)
(***************************************************************************)
EXTENDS Accounts, TLC

MCPeople == {p \in [email : Emails \cup {None}, phone : Phones \cup {None}, named : BOOLEAN] :
               /\ p.email # None \/ p.phone # None
               /\ p.named \/ p.phone \in Emails}
MCRegistrants == {p \in MCPeople : p.named /\ p.email # None}
MCScope  == [d \in {"tenant.user.write", "platform.*"} |->
               IF d = "tenant.user.write" THEN "tenant" ELSE "platform"]
MCCovers == {<<"tenant.user.write", "tenant.user.write">>}
              \cup {"tenant.*"} \X {Need(op) : op \in ConsoleOps}
              \cup {"platform.*"} \X {Need(op) : op \in PlatformOps}
MCAdminRoles     == Admins \X {"operators"}
MCPlatformGrants == {<<"operators", "platform.*">>}
Symmetry         == Permutations(Clients) \cup Permutations(Tenants) \cup Permutations(Users)
=============================================================================
