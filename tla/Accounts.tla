------------------------------ MODULE Accounts ------------------------------
(***************************************************************************)
(* Who may do what: registration and login (internal/auth), users, roles   *)
(* and permissions of tenants and of the platform (internal/iam), and the  *)
(* JWT of middleware.AuthMiddleware.  A request checks first and writes    *)
(* afterwards; two of them come between each other's statements.  A token  *)
(* carries the roles its user had when it was issued.                      *)
(***************************************************************************)
EXTENDS FiniteSets, Naturals

CONSTANTS
  Users, Tenants,   \* ids, a new one never used again
  Nowhere,          \* an id in a path that no tenant has
  Emails, Phones,   \* the code checks the form of neither: they may overlap
  People,           \* what is typed in: an e-mail address, a phone number or both, and a name
  UniqueIndexes,    \* global unique indexes that data.go could create
  Admins, PlatformRoles,
  Codes,            \* permission codes
  Covers,           \* pairs: the first is "*", the second, or a prefix of it
  Scope,            \* of the codes in the seeded catalogue
  AdminRoles, PlatformGrants, \* what the first administrator was set up with
  RoleNames, Clients, Ops,
  None, MaxRequests \* bound on the requests

TenantAdmin == "tenant_admin"
ConsoleOps  == {"createUser", "createRole", "assignRole", "grant"}
PlatformOps == {"createTenant", "createPermission", "assignAdmin", "removeAdmin", "platformGrant"}
PlatformNames == {"platform_admin", "super_admin"}   \* isPlatformRole

ASSUME AccountsAssumption ==
  /\ Ops \subseteq ConsoleOps \cup PlatformOps \cup {"register", "login", "platformLogin"}
  /\ DOMAIN Scope \subseteq Codes /\ TenantAdmin \in RoleNames
  /\ AdminRoles \subseteq Admins \X PlatformRoles
  /\ PlatformGrants \subseteq PlatformRoles \X {c \in DOMAIN Scope : Scope[c] = "platform"}
  /\ UniqueIndexes \subseteq {"email", "phone"}
  /\ People \subseteq {p \in [email : Emails \cup {None}, phone : Phones \cup {None}, named : BOOLEAN] :
                         p.email # None \/ p.phone # None}
ASSUME IdsAssumption ==
  /\ Users \cap Admins = {}
  /\ None \notin Users \cup Admins \cup Tenants \cup Emails \cup Phones
  /\ Nowhere \notin Tenants \cup {None}

(* The permission each operation requires. *)
Need(op) ==
  CASE op = "createUser"       -> "tenant.user.write"
    [] op = "createRole"       -> "tenant.role.write"
    [] op = "assignRole"       -> "tenant.role.assign"
    [] op = "grant"            -> "tenant.role.permission.assign"
    [] op = "createTenant"     -> "platform.tenant.create"
    [] op = "createPermission" -> "platform.permission.write"
    [] op = "platformGrant"    -> "platform.role.permission.assign"
    [] OTHER                   -> "platform.role.assign"

VARIABLES
  tenants,     \* rows of tenant
  user,        \* rows of user
  roles,       \* rows of role: <<tenant, name>>, which is unique
  userRole, grants,           \* user_role, role_permission
  adminRole, platformGrants,  \* platform_admin_role, platform_role_permission
  catalogue,   \* permission: the scope of a code that is there
  tokens,      \* JWTs that were issued; one that has expired is one that no request comes with
  req,         \* the requests at work
  told,        \* history: users whose account was answered with 200
  promised,    \* history: of a tenant to be registered, the tenant permissions when it was asked for
  overtaken,   \* history: requests under way when an administrator lost a role
  requests

tables == <<tenants, user, roles, userRole, grants, adminRole, platformGrants, catalogue>>
vars   == <<tables, tokens, req, told, promised, overtaken, requests>>

Roles    == Tenants \X RoleNames
NoUser   == [tenant |-> None, email |-> None, phone |-> None, named |-> FALSE, status |-> None]
NoToken  == [sub |-> None, tenant |-> None, roles |-> {}]
NoInput  == [u |-> None, email |-> None, phone |-> None, named |-> FALSE, tenant |-> None,
             role |-> None, codes |-> {}, status |-> "active"]
Idle     == [pc |-> "idle", op |-> "login", by |-> NoToken, in |-> NoInput]
Known    == DOMAIN catalogue
TenantCodes == {d \in Known : catalogue[d] = "tenant"}
Exists(u)   == user[u] # NoUser

Init ==
  /\ tenants = {} /\ user = [u \in Users |-> NoUser] /\ roles = {}
  /\ userRole = {} /\ grants = {}
  /\ adminRole = AdminRoles /\ platformGrants = PlatformGrants /\ catalogue = Scope
  /\ tokens = {} /\ req = [c \in Clients |-> Idle] /\ told = {} /\ overtaken = {}
  /\ promised = [t \in {} |-> {}] /\ requests = 0

-----------------------------------------------------------------------------
(* What the queries find.                                                   *)

(* findExistingTenantByAccount, of auth/data and iam/data. *)
Bound(email, phone) ==
  {u \in Users : Exists(u) /\ ((email # None /\ user[u].email = email) \/
                               (phone # None /\ user[u].phone = phone))}

(* A plausible slip: the index is per tenant, like uniq_user_tenant_email.  *)
ClashesInTenant(t, email, phone) == \E u \in Bound(email, phone) : user[u].tenant = t

(* Error 1062: uniq_user_tenant_email, and the global indexes there are.    *)
Clashes(t, email, phone) ==
  \/ \E u \in Bound(email, None) : user[u].tenant = t \/ "email" \in UniqueIndexes
  \/ "phone" \in UniqueIndexes /\ Bound(None, phone) # {}

(* FindTenantAccount: one query over both columns.  Of several rows the     *)
(* first is taken when the tenant is named, and none when it is not; and a  *)
(* row is of no use with a NULL e-mail, phone or name, which cannot be      *)
(* scanned into a string.                                                   *)
Rows(account, t) ==
  {u \in Users : Exists(u) /\ (user[u].email = account \/ user[u].phone = account)
                           /\ (t # None => user[u].tenant = t)}
Scans(u) == user[u].email # None /\ user[u].phone # None /\ user[u].named
Finds(account, t) ==
  {u \in Rows(account, t) : (t # None \/ Rows(account, t) = {u}) /\ Scans(u)}

RoleNamesOf(u) == {n \in RoleNames : <<u, <<user[u].tenant, n>>>> \in userRole}

Match(held, code) == \E c \in held : <<c, code>> \in Covers

(* ListUserPermissions and ListPlatformAdminPermissions, as of now. *)
UserCodes(u)  == {c \in Known : catalogue[c] = "tenant" /\ \E r \in roles : <<u, r>> \in userRole
                                                                  /\ <<r, c>> \in grants}
AdminCodes(a) == {c \in Known : catalogue[c] = "platform" /\ \E p \in PlatformRoles :
                                     <<a, p>> \in adminRole /\ <<p, c>> \in platformGrants}

(* A plausible slip: the platform's operations trust the role in the token. *)
PermittedByToken(t, op, at) ==
  IF op \in PlatformOps THEN "platform_admin" \in t.roles
  ELSE \/ TenantAdmin \in t.roles
       \/ t.sub \in Users /\ user[t.sub].tenant = at /\ Match(UserCodes(t.sub), Need(op))

(* RequirePermission: the platform's operations go by the tables alone, the *)
(* console's by the role tenant_admin of the token first, and then by what  *)
(* its subject may do in the tenant at.                                     *)
Permitted(t, op, at) ==
  IF op \in PlatformOps THEN t.sub \in Admins /\ Match(AdminCodes(t.sub), Need(op))
  ELSE \/ TenantAdmin \in t.roles
       \/ t.sub \in Users /\ user[t.sub].tenant = at /\ Match(UserCodes(t.sub), Need(op))

(* A plausible slip: whoever is permitted at home is let through.           *)
AnyScope(t, at) == TRUE
(* ensureTenantScope: the tenant of a path is the token's own, unless the   *)
(* token has a role of one of two names.                                    *)
InScope(t, at) == t.tenant = at \/ t.roles \cap PlatformNames # {}

-----------------------------------------------------------------------------
At(c, l)   == req[c].pc = l
In(c)      == req[c].in
Goto(c, l) == req' = [req EXCEPT ![c].pc = l]
End(c)     == req' = [req EXCEPT ![c] = Idle]

AccountInput(u, p, t, s) ==
  [NoInput EXCEPT !.u = u, !.email = p.email, !.phone = p.phone, !.named = p.named,
                  !.tenant = t, !.status = s]
LoginInput(a, t)   == [NoInput EXCEPT !.email = a, !.tenant = t]
RoleInput(u, r)    == [NoInput EXCEPT !.u = u, !.role = r]
CodeInput(r, d, s) == [NoInput EXCEPT !.role = r, !.codes = {d}, !.status = s]

Inputs(op) ==
  CASE op = "register" ->
         {AccountInput(u, p, t, "active") : u \in Users, p \in People, t \in Tenants}
    [] op = "createUser" ->
         {AccountInput(u, p, t, s) :
            u \in Users, p \in People, t \in tenants \cup {Nowhere}, s \in {"active", "invited"}}
    [] op = "login" ->
         {LoginInput(a, t) : a \in Emails \cup Phones, t \in tenants \cup {None}}
    [] op \in {"platformLogin", "assignAdmin", "removeAdmin"} ->
         {RoleInput(a, p) : a \in Admins, p \in PlatformRoles}
    [] op = "createTenant"     -> {NoInput}
    [] op = "createRole"       -> {RoleInput(None, n) : n \in RoleNames}
    [] op = "assignRole"       -> {RoleInput(u, r) : u \in Users, r \in Roles}
    [] op = "grant"            -> {CodeInput(r, d, "active") : r \in Roles, d \in Codes}
    [] op = "platformGrant"    -> {CodeInput(p, d, "active") : p \in PlatformRoles, d \in Codes}
    [] op = "createPermission" -> {CodeInput(None, d, s) : d \in Codes, s \in {"tenant", "platform"}}

(* Ids are drawn anew.  AuthMiddleware and requireTenantContext let the     *)
(* token through.                                                           *)
UserTaken(u)   == Exists(u) \/ \E d \in Clients : req[d].in.u = u
TenantTaken(t) == t \in tenants \cup DOMAIN promised
Bearers(op) ==
  {t \in tokens \cup {NoToken} :
     t.sub \in CASE op \in ConsoleOps -> Users [] op \in PlatformOps -> Admins [] OTHER -> {None}}
Arrive(c) ==
  /\ At(c, "idle") /\ requests < MaxRequests
  /\ \E op \in Ops : \E t \in Bearers(op), in \in Inputs(op) :
       /\ op \in {"register", "createUser"} => ~UserTaken(in.u)
       /\ op = "register" => ~TenantTaken(in.tenant)
       /\ req' = [req EXCEPT ![c] =
                    [pc |-> CASE op = "register" -> "check"
                              [] op \in {"login", "platformLogin"} -> "find"
                              [] OTHER -> "authorize",
                     op |-> op, by |-> t, in |-> in]]
       /\ promised' = [x \in DOMAIN promised \cup (IF op = "register" THEN {in.tenant} ELSE {}) |->
                         IF x \in DOMAIN promised THEN promised[x] ELSE TenantCodes]
  /\ overtaken' = overtaken \ {c}
  /\ requests' = requests + 1
  /\ UNCHANGED <<tables, tokens, told>>

(* The tenant of the context: CreateUser takes it from the path, the others *)
(* from the token.                                                          *)
Target(c) == IF req[c].op = "createUser" THEN In(c).tenant ELSE req[c].by.tenant

Authorize(c) ==
  /\ At(c, "authorize")
  /\ IF ~InScope(req[c].by, Target(c)) \/ ~Permitted(req[c].by, req[c].op, Target(c)) THEN End(c)
     ELSE Goto(c, IF req[c].op = "createUser" THEN "check" ELSE "write")
  /\ UNCHANGED <<tables, tokens, told, promised, overtaken, requests>>

(* ACCOUNT_ALREADY_BOUND and ACCOUNT_EXISTS, outside any transaction. *)
Check(c) ==
  /\ At(c, "check")
  /\ IF Bound(In(c).email, In(c).phone) # {} THEN End(c) ELSE Goto(c, "insert")
  /\ UNCHANGED <<tables, tokens, told, promised, overtaken, requests>>

NewUser(in) == [tenant |-> in.tenant, email |-> in.email, phone |-> in.phone, named |-> in.named,
                status |-> in.status]

(* A plausible slip: no transaction, so a duplicate leaves what came before.*)
RegisterPiecemeal(c) ==
  /\ At(c, "insert") /\ req[c].op = "register"
  /\ tenants' = tenants \cup {In(c).tenant}
  /\ IF Clashes(In(c).tenant, In(c).email, In(c).phone)
     THEN End(c) /\ UNCHANGED <<user, roles, userRole, grants>>
     ELSE LET t == In(c).tenant  r == <<t, TenantAdmin>> IN
       /\ user' = [user EXCEPT ![In(c).u] = NewUser(In(c))]
       /\ roles' = roles \cup {r} /\ userRole' = userRole \cup {<<In(c).u, r>>}
       /\ grants' = grants \cup ({r} \X TenantCodes)
       /\ Goto(c, "answer")
  /\ UNCHANGED <<adminRole, platformGrants, catalogue, tokens, told, promised, overtaken, requests>>

(* CreateTenantWithAdmin: tenant, user, role and their links in one         *)
(* transaction, rolled back on a duplicate.                                 *)
Register(c) ==
  /\ At(c, "insert") /\ req[c].op = "register"
  /\ IF Clashes(In(c).tenant, In(c).email, In(c).phone)
     THEN End(c) /\ UNCHANGED <<tenants, user, roles, userRole, grants>>
     ELSE LET t == In(c).tenant  r == <<t, TenantAdmin>> IN
       /\ tenants' = tenants \cup {t}
       /\ user' = [user EXCEPT ![In(c).u] = NewUser(In(c))]
       /\ roles' = roles \cup {r} /\ userRole' = userRole \cup {<<In(c).u, r>>}
       /\ grants' = grants \cup ({r} \X TenantCodes)
       /\ Goto(c, "answer")
  /\ UNCHANGED <<adminRole, platformGrants, catalogue, tokens, told, promised, overtaken, requests>>

CreateUser(c) ==
  /\ At(c, "insert") /\ req[c].op = "createUser"
  /\ IF Clashes(In(c).tenant, In(c).email, In(c).phone)
     THEN UNCHANGED <<user, told>>
     ELSE /\ user' = [user EXCEPT ![In(c).u] = NewUser(In(c))]
          /\ told' = told \cup {In(c).u}
  /\ End(c)
  /\ UNCHANGED <<tenants, roles, userRole, grants, adminRole, platformGrants, catalogue, tokens,
                 promised, overtaken, requests>>

(* ListUserRoles and buildSession, after the registration is committed or   *)
(* the password was right.                                                  *)
Session(c) ==
  /\ At(c, "answer")
  /\ LET u == In(c).u IN
     /\ tokens' = tokens \cup {[sub |-> u, tenant |-> user[u].tenant, roles |-> RoleNamesOf(u)]}
     /\ told' = told \cup {u}
  /\ End(c)
  /\ UNCHANGED <<tables, promised, overtaken, requests>>

(* The account is not found, not active, or the password is wrong; or the   *)
(* bearer is who the row says.                                              *)
Login(c) ==
  /\ At(c, "find") /\ req[c].op = "login"
  /\ \/ End(c)
     \/ \E u \in Finds(In(c).email, In(c).tenant) :
          /\ user[u].status = "active"
          /\ req' = [req EXCEPT ![c] = [pc |-> "answer", op |-> "login", by |-> req[c].by,
                                        in |-> [In(c) EXCEPT !.u = u]]]
  /\ UNCHANGED <<tables, tokens, told, promised, overtaken, requests>>

PlatformLogin(c) ==
  /\ At(c, "find") /\ req[c].op = "platformLogin"
  /\ tokens' = tokens \cup {[sub |-> In(c).u, tenant |-> None, roles |-> {"platform_admin"}]}
  /\ End(c)
  /\ UNCHANGED <<tables, told, promised, overtaken, requests>>

-----------------------------------------------------------------------------
(* The writes of one statement or one transaction.                          *)

(* The row alone: no user, no role.  Its id is drawn here. *)
CreateTenant(c) ==
  /\ At(c, "write") /\ req[c].op = "createTenant"
  /\ \E t \in Tenants : ~TenantTaken(t) /\ tenants' = tenants \cup {t}
  /\ End(c)
  /\ UNCHANGED <<user, roles, userRole, grants, adminRole, platformGrants, catalogue, tokens, told,
                 promised, overtaken, requests>>

CreateRole(c) ==
  /\ At(c, "write") /\ req[c].op = "createRole"
  /\ roles' = roles \cup {<<req[c].by.tenant, In(c).role>>}
  /\ End(c)
  /\ UNCHANGED <<tenants, user, userRole, grants, adminRole, platformGrants, catalogue, tokens, told,
                 promised, overtaken, requests>>

AssignRole(c) ==
  /\ At(c, "write") /\ req[c].op = "assignRole"
  /\ LET r == In(c).role  t == req[c].by.tenant IN
     userRole' = IF r \in roles /\ r[1] = t /\ user[In(c).u].tenant = t
                 THEN userRole \cup {<<In(c).u, r>>} ELSE userRole
  /\ End(c)
  /\ UNCHANGED <<tenants, user, roles, grants, adminRole, platformGrants, catalogue, tokens, told,
                 promised, overtaken, requests>>

(* All the codes, or PERMISSION_NOT_FOUND and none. *)
AllOf(codes, scope) == \A d \in codes : d \in Known /\ catalogue[d] = scope

Grant(c) ==
  /\ At(c, "write") /\ req[c].op = "grant"
  /\ LET r == In(c).role IN
     grants' = IF r \in roles /\ r[1] = req[c].by.tenant /\ AllOf(In(c).codes, "tenant")
               THEN grants \cup ({r} \X In(c).codes) ELSE grants
  /\ End(c)
  /\ UNCHANGED <<tenants, user, roles, userRole, adminRole, platformGrants, catalogue, tokens, told,
                 promised, overtaken, requests>>

PlatformGrant(c) ==
  /\ At(c, "write") /\ req[c].op = "platformGrant"
  /\ platformGrants' = IF AllOf(In(c).codes, "platform")
                       THEN platformGrants \cup ({In(c).role} \X In(c).codes) ELSE platformGrants
  /\ End(c)
  /\ UNCHANGED <<tenants, user, roles, userRole, grants, adminRole, catalogue, tokens, told,
                 promised, overtaken, requests>>

(* A plausible slip: ON DUPLICATE KEY UPDATE scope. *)
CreatePermissionUpserts(c) ==
  /\ At(c, "write") /\ req[c].op = "createPermission"
  /\ catalogue' = [d \in Known \cup In(c).codes |-> IF d \in In(c).codes THEN In(c).status ELSE catalogue[d]]
  /\ End(c)
  /\ UNCHANGED <<tenants, user, roles, userRole, grants, adminRole, platformGrants, tokens, told,
                 promised, overtaken, requests>>

(* A code that is there already is answered with the row that is there. *)
CreatePermission(c) ==
  /\ At(c, "write") /\ req[c].op = "createPermission"
  /\ catalogue' = [d \in Known \cup In(c).codes |-> IF d \in Known THEN catalogue[d] ELSE In(c).status]
  /\ End(c)
  /\ UNCHANGED <<tenants, user, roles, userRole, grants, adminRole, platformGrants, tokens, told,
                 promised, overtaken, requests>>

AssignPlatformAdminRole(c) ==
  /\ At(c, "write") /\ req[c].op = "assignAdmin"
  /\ adminRole' = adminRole \cup {<<In(c).u, In(c).role>>}
  /\ End(c)
  /\ UNCHANGED <<tenants, user, roles, userRole, grants, platformGrants, catalogue, tokens, told,
                 promised, overtaken, requests>>

RemovePlatformAdminRole(c) ==
  /\ At(c, "write") /\ req[c].op = "removeAdmin"
  /\ adminRole' = adminRole \ {<<In(c).u, In(c).role>>}
  /\ overtaken' = {d \in Clients : req[d].by.sub = In(c).u /\ ~At(d, "idle")}
                    \cup overtaken
  /\ End(c)
  /\ UNCHANGED <<tenants, user, roles, userRole, grants, platformGrants, catalogue, tokens, told,
                 promised, requests>>

(* A statement fails, or the answer is lost: the request ends. *)
Fails(c) ==
  /\ ~At(c, "idle")
  /\ End(c)
  /\ UNCHANGED <<tables, tokens, told, promised, overtaken, requests>>

Write(c) ==
  \/ CreateTenant(c) \/ CreateRole(c) \/ AssignRole(c) \/ Grant(c)
  \/ PlatformGrant(c) \/ CreatePermission(c)
  \/ AssignPlatformAdminRole(c) \/ RemovePlatformAdminRole(c)
Next ==
  \E c \in Clients :
    \/ Arrive(c) \/ Authorize(c) \/ Check(c) \/ Register(c) \/ CreateUser(c) \/ Session(c)
    \/ Login(c) \/ PlatformLogin(c) \/ Write(c) \/ Fails(c)

Spec == Init /\ [][Next]_vars

-----------------------------------------------------------------------------
(* Every variable has the shape the code gives it. *)
TypeOK ==
  /\ tenants \subseteq Tenants
  /\ \A u \in Users : Exists(u) => /\ user[u].tenant \in tenants \cup {Nowhere}
                                    /\ user[u].status \in {"active", "invited"}
  /\ roles \subseteq (tenants \cup {Nowhere}) \X RoleNames /\ userRole \subseteq Users \X roles
  /\ grants \subseteq roles \X Known
  /\ adminRole \subseteq Admins \X PlatformRoles /\ platformGrants \subseteq PlatformRoles \X Known
  /\ Known \subseteq Codes
  /\ \A t \in tokens : t.sub \in Users \cup Admins
  /\ \A c \in Clients : req[c].pc \in {"idle", "authorize", "check", "insert", "answer", "find", "write"}
  /\ told \subseteq Users /\ DOMAIN promised \subseteq Tenants /\ overtaken \subseteq Clients

(* docs/API.md, one account is bound to one tenant: though the check and    *)
(* the insert are two statements, whatever registrations and invitations    *)
(* come between them, a user who has a name, an e-mail address and a phone  *)
(* number is found by a login with either of the two, alone, and whether    *)
(* the tenant is named or not, except where the string is in the other      *)
(* column of another user among those the login looks at: nothing keeps     *)
(* somebody's phone number from being another's e-mail address.             *)
Crossed(a, u, t) ==
  \E v \in Users \ {u} : /\ t = None \/ user[v].tenant = t
                         /\ \/ user[u].email = a /\ user[v].phone = a
                            \/ user[u].phone = a /\ user[v].email = a
LogInFinds ==
  \A u \in Users : Exists(u) /\ Scans(u) =>
    \A a \in {user[u].email, user[u].phone}, t \in {None, user[u].tenant} :
      ~Crossed(a, u, t) => Finds(a, t) = {u}

(* A registration is there as a whole or not at all: of its tenant nothing  *)
(* is there, or an administrator is, with the role and with every permission*)
(* that tenants had when the registration was asked for, whatever was added *)
(* to the catalogue meanwhile.  (A tenant that the platform creates has     *)
(* none of this, nor does its administrator need to be able to log in: see  *)
(* RegisteredCanLogIn.)                                                     *)
RegistrationIsWhole ==
  \A t \in DOMAIN promised :
    \/ /\ t \notin tenants /\ \A r \in roles : r[1] # t
       /\ \A u \in Users : user[u].tenant # t
    \/ /\ t \in tenants /\ <<t, TenantAdmin>> \in roles
       /\ \E u \in Users : user[u].tenant = t /\ <<u, <<t, TenantAdmin>>>> \in userRole
       /\ \A d \in promised[t] : <<<<t, TenantAdmin>>, d>> \in grants

(* Nobody holds a role of another tenant, no role of a tenant a permission  *)
(* of the platform, nor the other way round, whatever is added to the       *)
(* catalogue later.                                                         *)
RolesStayApart ==
  /\ \A ur \in userRole : user[ur[1]].tenant = ur[2][1]
  /\ \A g \in grants : catalogue[g[2]] = "tenant"
  /\ \A g \in platformGrants : catalogue[g[2]] = "platform"

(* What a request does, its subject may do by the tables at that moment,    *)
(* not only by a token of yesterday; only a request that was under way when *)
(* an administrator lost a role can still go through.  And it writes to the *)
(* subject's own tenant, unless its user holds two roles there: tenant_admin*)
(* and one that is called like the platform's, a name that CreateRole gives *)
(* away.  No operation of the platform touches users, roles and grants.     *)
MayNow(t, op) ==
  IF op \in PlatformOps THEN Match(AdminCodes(t.sub), Need(op))
  ELSE TenantAdmin \in RoleNamesOf(t.sub) \/ Match(UserCodes(t.sub), Need(op))
Touched ==
  {user'[u].tenant : u \in {v \in Users : user'[v] # user[v]}}
    \cup {r[1] : r \in roles' \ roles} \cup {ur[2][1] : ur \in userRole' \ userRole}
    \cup {g[1][1] : g \in grants' \ grants}
Roams(u) == TenantAdmin \in RoleNamesOf(u) /\ RoleNamesOf(u) \cap PlatformNames # {}
DoneIsPermitted ==
  [][\A c \in Clients :
       req[c].op \in ConsoleOps \cup PlatformOps /\ c \notin overtaken
         /\ req[c].pc \in {"write", "insert"} /\ req'[c].pc = "idle"
       => /\ MayNow(req[c].by, req[c].op)
          /\ \A t \in Touched : /\ req[c].op \in ConsoleOps
                                /\ t = req[c].by.tenant \/ Roams(req[c].by.sub)]_vars

(* docs/API.md: registration takes a name and an e-mail address, and the    *)
(* login example that follows it uses that address.  Whoever gave a name    *)
(* and was answered with an active account can log in with it.              *)
Account(u) == IF user[u].email # None THEN user[u].email ELSE user[u].phone
RegisteredCanLogIn ==
  \A u \in told : user[u].status = "active" /\ user[u].named => Finds(Account(u), None) = {u}
=============================================================================
