-------------------------- MODULE Accounts_proofs --------------------------
(***************************************************************************)
(* Proofs about Accounts for any users, tenants, codes and requests: types,*)
(* registrations that are whole, roles that stay apart, one user to an     *)
(* account, and no write that the tables do not permit.                    *)
(***************************************************************************)
EXTENDS Accounts, TLAPS

AllOps    == ConsoleOps \cup PlatformOps \cup {"register", "login", "platformLogin"}
UserRows  == [tenant : Tenants \cup {Nowhere}, email : Emails \cup {None}, phone : Phones \cup {None},
              named : BOOLEAN, status : {"active", "invited"}]
Tokens    == [sub : Users \cup Admins, tenant : Tenants \cup {Nowhere, None},
              roles : SUBSET (RoleNames \cup {"platform_admin"})]
InputRows == [u : Users \cup Admins \cup {None}, email : Emails \cup Phones \cup {None},
              phone : Phones \cup {None}, named : BOOLEAN, tenant : Tenants \cup {Nowhere, None},
              role : RoleNames \cup Roles \cup PlatformRoles \cup {None}, codes : SUBSET Codes,
              status : {"active", "invited", "tenant", "platform"}]

(* What the input of an operation looks like. *)
Formed(op, in) ==
  /\ in \in InputRows
  /\ op \in {"register", "createUser"} =>
       /\ in.u \in Users /\ in.email \in Emails \cup {None}
       /\ in.status \in {"active", "invited"}
  /\ op = "register"   => in.tenant \in Tenants
  /\ op = "createUser" => in.tenant \in Tenants \cup {Nowhere}
  /\ op = "createRole" => in.role \in RoleNames
  /\ op = "assignRole" => in.u \in Users /\ in.role \in Roles
  /\ op = "grant"      => in.role \in Roles
  /\ op = "platformGrant" => in.role \in PlatformRoles
  /\ op \in {"platformLogin", "assignAdmin", "removeAdmin"} =>
       in.u \in Admins /\ in.role \in PlatformRoles

(* The places an operation passes. *)
PlacesOf(op) ==
  CASE op = "register"      -> {"check", "insert", "answer"}
    [] op = "createUser"    -> {"authorize", "check", "insert"}
    [] op = "login"         -> {"find", "answer"}
    [] op = "platformLogin" -> {"find"}
    [] OTHER                -> {"authorize", "write"}

WellFormed(r) ==
  /\ r.pc \in PlacesOf(r.op)
  /\ Formed(r.op, r.in)
  /\ r.op \in ConsoleOps => r.by.sub \in Users
  /\ r.pc = "answer" => r.in.u \in Users

Requests ==
  {Idle} \cup {r \in [pc : {"authorize", "check", "insert", "answer", "find", "write"}, op : AllOps,
                      by : Tokens \cup {NoToken}, in : InputRows] : WellFormed(r)}

TablesOK ==
  /\ tenants \subseteq Tenants
  /\ user \in [Users -> UserRows \cup {NoUser}]
  /\ \A u \in Users : Exists(u) => user[u].tenant \in tenants \cup {Nowhere}
  /\ roles \subseteq (tenants \cup {Nowhere}) \X RoleNames
  /\ userRole \subseteq Users \X roles
  /\ \A ur \in userRole : user[ur[1]].tenant = ur[2][1]
  /\ grants \subseteq roles \X Known
  /\ adminRole \subseteq Admins \X PlatformRoles
  /\ platformGrants \subseteq PlatformRoles \X Known
  /\ Known \subseteq Codes

RequestsOK ==
  /\ tokens \subseteq Tokens
  /\ req \in [Clients -> Requests]
  /\ told \subseteq Users /\ DOMAIN promised \subseteq Tenants /\ overtaken \subseteq Clients

(* A token says nothing that the tables do not say now: roles and accounts  *)
(* only grow.                                                               *)
Honest(t, rows, links) ==
  t.sub \in Users =>
    /\ rows[t.sub] # NoUser /\ t.tenant = rows[t.sub].tenant
    /\ \A n \in t.roles : n \in RoleNames /\ <<t.sub, <<t.tenant, n>>>> \in links
TokensHonest ==
  /\ \A t \in tokens : Honest(t, user, userRole)
  /\ \A c \in Clients : Honest(req[c].by, user, userRole)

(* The tenant in the path of CreateUser is there, or is none's.             *)
PathsOK ==
  \A c \in Clients : req[c].op = "createUser" => req[c].in.tenant \in tenants \cup {Nowhere}

(* The ids a request will insert are its own. *)
Inserts(c) == req[c].op \in {"register", "createUser"} /\ req[c].pc \in {"authorize", "check", "insert"}
IdsFresh ==
  \A c \in Clients :
    /\ req[c].pc = "answer" => Exists(In(c).u)
    /\ Inserts(c) =>
         /\ ~Exists(In(c).u)
         /\ req[c].op = "register" => In(c).tenant \in DOMAIN promised \ tenants
         /\ \A d \in Clients \ {c} : Inserts(d) =>
              /\ In(d).u # In(c).u
              /\ req[c].op = "register" /\ req[d].op = "register" => In(d).tenant # In(c).tenant

TypeInv == TablesOK /\ RequestsOK /\ TokensHonest /\ PathsOK /\ IdsFresh

-----------------------------------------------------------------------------
LEMMA NoneApart ==
  /\ None \notin Users /\ None \notin Admins /\ None \notin Tenants
  /\ NoUser \notin UserRows /\ NoToken \notin Tokens
  /\ NoInput \in InputRows /\ Idle.pc = "idle" /\ Idle.by = NoToken /\ Idle.op = "login"
  /\ \A r \in Requests : r.pc = "idle" => r = Idle
  BY IdsAssumption DEF NoUser, UserRows, NoToken, Tokens, NoInput, InputRows, Idle, Requests

(* Whatever a request asks for has the form its operation needs. *)
LEMMA InputsFormed ==
  ASSUME NEW op \in AllOps, NEW in \in Inputs(op), tenants \subseteq Tenants
  PROVE  Formed(op, in)
<1> USE IdsAssumption
<1>1. CASE op = "register"
  <2>1. PICK u \in Users, p \in People, t \in Tenants : in = AccountInput(u, p, t, "active")
    BY <1>1 DEF Inputs
  <2>2. QED
    BY <1>1, <2>1, AccountsAssumption DEF Formed, AccountInput, NoInput, InputRows
<1>2. CASE op = "createUser"
  <2>1. PICK u \in Users, p \in People, t \in tenants \cup {Nowhere}, s \in {"active", "invited"} :
          in = AccountInput(u, p, t, s)
    BY <1>2 DEF Inputs
  <2>2. QED
    BY <1>2, <2>1, AccountsAssumption DEF Formed, AccountInput, NoInput, InputRows
<1>3. CASE op = "login"
  <2>1. PICK a \in Emails \cup Phones, t \in tenants \cup {None} : in = LoginInput(a, t)
    BY <1>3 DEF Inputs
  <2>2. QED
    BY <1>3, <2>1 DEF Formed, LoginInput, NoInput, InputRows
<1>4. CASE op \in {"platformLogin", "assignAdmin", "removeAdmin"}
  <2>1. PICK a \in Admins, p \in PlatformRoles : in = RoleInput(a, p)
    BY <1>4 DEF Inputs
  <2>2. QED
    BY <1>4, <2>1 DEF Formed, RoleInput, NoInput, InputRows
<1>5. CASE op = "createRole"
  <2>1. PICK n \in RoleNames : in = RoleInput(None, n)
    BY <1>5 DEF Inputs
  <2>2. QED
    BY <1>5, <2>1 DEF Formed, RoleInput, NoInput, InputRows
<1>6. CASE op = "assignRole"
  <2>1. PICK u \in Users, r \in Roles : in = RoleInput(u, r)
    BY <1>6 DEF Inputs
  <2>2. QED
    BY <1>6, <2>1 DEF Formed, RoleInput, NoInput, InputRows
<1>7. CASE op = "grant"
  <2>1. PICK r \in Roles, d \in Codes : in = CodeInput(r, d, "active")
    BY <1>7 DEF Inputs
  <2>2. QED
    BY <1>7, <2>1 DEF Formed, CodeInput, NoInput, InputRows
<1>8. CASE op = "platformGrant"
  <2>1. PICK p \in PlatformRoles, d \in Codes : in = CodeInput(p, d, "active")
    BY <1>8 DEF Inputs
  <2>2. QED
    BY <1>8, <2>1 DEF Formed, CodeInput, NoInput, InputRows
<1>9. CASE op = "createPermission"
  <2>1. PICK d \in Codes, s \in {"tenant", "platform"} : in = CodeInput(None, d, s)
    BY <1>9 DEF Inputs
  <2>2. QED
    BY <1>9, <2>1 DEF Formed, CodeInput, NoInput, InputRows
<1>10. CASE op = "createTenant"
  <2>1. in = NoInput
    BY <1>10 DEF Inputs
  <2>2. QED
    BY <1>10, <2>1 DEF Formed, NoInput, InputRows
<1>11. QED
  BY <1>1, <1>2, <1>3, <1>4, <1>5, <1>6, <1>7, <1>8, <1>9, <1>10 DEF AllOps, ConsoleOps, PlatformOps

(* A client that is not idle has a request of the form its operation gives. *)
LEMMA Working ==
  ASSUME RequestsOK, NEW c \in Clients, ~At(c, "idle")
  PROVE  /\ req[c].op \in AllOps /\ req[c].by \in Tokens \cup {NoToken}
         /\ req[c].in \in InputRows /\ WellFormed(req[c])
         /\ req[c] = [pc |-> req[c].pc, op |-> req[c].op, by |-> req[c].by, in |-> req[c].in]
BY NoneApart DEF RequestsOK, Requests, At, Idle

(* The subject of a console request is a user of the tenant in its token.   *)
LEMMA Subject ==
  ASSUME TablesOK, RequestsOK, TokensHonest, NEW c \in Clients,
         ~At(c, "idle"), req[c].op \in ConsoleOps
  PROVE  LET t == req[c].by IN
         /\ t.sub \in Users /\ Exists(t.sub)
         /\ t.tenant = user[t.sub].tenant /\ t.tenant \in tenants \cup {Nowhere}
         /\ t.roles \subseteq RoleNamesOf(t.sub)
BY Working DEF WellFormed, TablesOK, TokensHonest, Honest, Exists, RoleNamesOf

LEMMA TablesKept ==
  ASSUME TablesOK, UNCHANGED tables
  PROVE  TablesOK'
BY DEF TablesOK, tables, Exists, Known

LEMMA TablesStep == TypeInv /\ [Next]_vars => TablesOK'
<1> SUFFICES ASSUME TypeInv, [Next]_vars PROVE TablesOK'
  OBVIOUS
<1> USE IdsAssumption
<1>1. ASSUME NEW c \in Clients,
             Arrive(c) \/ Authorize(c) \/ Check(c) \/ Session(c) \/ Login(c) \/ PlatformLogin(c) \/ Fails(c)
      PROVE  TablesOK'
  BY <1>1, TablesKept DEF TypeInv, Arrive, Authorize, Check, Session, Login, PlatformLogin, Fails
<1>2. ASSUME NEW c \in Clients, Register(c) PROVE TablesOK'
  <2> DEFINE u == In(c).u
             t == In(c).tenant
             r == <<t, TenantAdmin>>
             all == {r} \X TenantCodes
  <2>1. CASE UNCHANGED <<tenants, user, roles, userRole, grants>>
    BY <1>2, <2>1, TablesKept DEF TypeInv, Register, tables
  <2>2. CASE /\ tenants' = tenants \cup {t} /\ user' = [user EXCEPT ![u] = NewUser(In(c))]
             /\ roles' = roles \cup {r} /\ userRole' = userRole \cup {<<u, r>>}
             /\ grants' = grants \cup all
    <3>1. /\ In(c) \in InputRows /\ u \in Users /\ t \in Tenants /\ ~Exists(u)
          /\ In(c).email \in Emails \cup {None} /\ In(c).status \in {"active", "invited"}
      BY <1>2, Working DEF TypeInv, Register, At, In, WellFormed, Formed, IdsFresh, Inserts
    <3>2. NewUser(In(c)) \in UserRows /\ NewUser(In(c)).tenant = t /\ NewUser(In(c)) # NoUser
      BY <3>1, NoneApart DEF NewUser, UserRows, InputRows
    <3>3. /\ user' \in [Users -> UserRows \cup {NoUser}]
          /\ \A v \in Users : v # u => user'[v] = user[v]
          /\ user'[u] = NewUser(In(c))
      BY <2>2, <3>1, <3>2 DEF TypeInv, TablesOK
    <3>4. \A v \in Users : Exists(v)' => user'[v].tenant \in tenants' \cup {Nowhere}
      BY <2>2, <3>2, <3>3 DEF TypeInv, TablesOK, Exists
    <3>5. r \in (tenants' \cup {Nowhere}) \X RoleNames
      BY <2>2, AccountsAssumption
    <3>6. roles' \subseteq (tenants' \cup {Nowhere}) \X RoleNames /\ userRole' \subseteq Users \X roles'
      BY <2>2, <3>1, <3>5 DEF TypeInv, TablesOK
    <3>7. \A ur \in userRole' : user'[ur[1]].tenant = ur[2][1]
      <4>1. TAKE ur \in userRole'
      <4>2. CASE ur = <<u, r>> BY <3>2, <3>3, <4>2
      <4>3. CASE ur \in userRole
        <5>1. ur[1] \in Users /\ ur[2][1] \in tenants \cup {Nowhere} /\ user[ur[1]].tenant = ur[2][1]
          BY <4>3 DEF TypeInv, TablesOK
        <5>2. ur[1] # u
          BY <3>1, <5>1, NoneApart DEF TypeInv, TablesOK, Exists, NoUser
        <5> QED BY <3>3, <5>1, <5>2
      <4> QED BY <2>2, <4>2, <4>3
    <3>8. grants' \subseteq roles' \X Known
      BY <2>2 DEF TypeInv, TablesOK, TenantCodes
    <3>9. tenants' \subseteq Tenants
      BY <2>2, <3>1 DEF TypeInv, TablesOK
    <3>10. UNCHANGED <<adminRole, platformGrants, catalogue>>
      BY <1>2 DEF Register
    <3> QED BY <3>3, <3>4, <3>6, <3>7, <3>8, <3>9, <3>10 DEF TypeInv, TablesOK, Known
  <2> QED BY <1>2, <2>1, <2>2 DEF Register
<1>3. ASSUME NEW c \in Clients, CreateUser(c) PROVE TablesOK'
  <2>1. CASE UNCHANGED user
    BY <1>3, <2>1, TablesKept DEF TypeInv, CreateUser, tables
  <2>2. CASE user' = [user EXCEPT ![In(c).u] = NewUser(In(c))]
    <3>1. /\ In(c) \in InputRows /\ In(c).u \in Users /\ In(c).tenant \in tenants \cup {Nowhere}
          /\ ~Exists(In(c).u)
          /\ In(c).email \in Emails \cup {None} /\ In(c).status \in {"active", "invited"}
      BY <1>3, Working DEF TypeInv, PathsOK, CreateUser, At, In, WellFormed, Formed, IdsFresh, Inserts
    <3>2. NewUser(In(c)) \in UserRows /\ NewUser(In(c)).tenant \in tenants \cup {Nowhere}
      BY <3>1 DEF NewUser, UserRows, InputRows, TypeInv, TablesOK
    <3>3. /\ user' \in [Users -> UserRows \cup {NoUser}]
          /\ \A v \in Users : v # In(c).u => user'[v] = user[v]
          /\ user'[In(c).u] = NewUser(In(c))
      BY <2>2, <3>1, <3>2 DEF TypeInv, TablesOK
    <3>4. UNCHANGED <<tenants, roles, userRole, grants, adminRole, platformGrants, catalogue>>
      BY <1>3 DEF CreateUser
    <3>5. \A v \in Users : Exists(v)' => user'[v].tenant \in tenants' \cup {Nowhere}
      BY <3>2, <3>3, <3>4 DEF TypeInv, TablesOK, Exists
    <3>6. \A ur \in userRole' : user'[ur[1]].tenant = ur[2][1]
      <4>1. TAKE ur \in userRole'
      <4>2. ur[1] \in Users /\ ur[2][1] \in tenants \cup {Nowhere} /\ user[ur[1]].tenant = ur[2][1]
        BY <3>4 DEF TypeInv, TablesOK
      <4>3. ur[1] # In(c).u
        BY <3>1, <4>2 DEF TypeInv, TablesOK, Exists, NoUser
      <4> QED BY <3>3, <4>2, <4>3
    <3> QED BY <3>3, <3>4, <3>5, <3>6 DEF TypeInv, TablesOK, Known
  <2> QED BY <1>3, <2>1, <2>2 DEF CreateUser
<1>4. ASSUME NEW c \in Clients, CreateRole(c) PROVE TablesOK'
  <2>1. req[c].by.tenant \in tenants \cup {Nowhere}
    BY <1>4, Subject DEF TypeInv, CreateRole, At, ConsoleOps
  <2>2. In(c).role \in RoleNames
    BY <1>4, Working DEF TypeInv, CreateRole, At, In, WellFormed, Formed
  <2> QED BY <1>4, <2>1, <2>2 DEF TypeInv, TablesOK, CreateRole, Exists, Known
<1>5. ASSUME NEW c \in Clients, AssignRole(c) PROVE TablesOK'
  <2>1. In(c).u \in Users
    BY <1>5, Working DEF TypeInv, AssignRole, At, In, WellFormed, Formed
  <2> QED BY <1>5, <2>1 DEF TypeInv, TablesOK, AssignRole, Exists, Known
<1>6. ASSUME NEW c \in Clients, Grant(c) PROVE TablesOK'
  BY <1>6 DEF TypeInv, TablesOK, Grant, AllOf, Exists, Known
<1>7. ASSUME NEW c \in Clients, PlatformGrant(c) PROVE TablesOK'
  <2>1. In(c).role \in PlatformRoles
    BY <1>7, Working DEF TypeInv, PlatformGrant, At, In, WellFormed, Formed
  <2> QED BY <1>7, <2>1 DEF TypeInv, TablesOK, PlatformGrant, AllOf, Exists, Known
<1>8. ASSUME NEW c \in Clients, CreatePermission(c) PROVE TablesOK'
  <2>1. In(c).codes \subseteq Codes
    BY <1>8, Working DEF TypeInv, CreatePermission, At, In, InputRows
  <2> QED BY <1>8, <2>1 DEF TypeInv, TablesOK, CreatePermission, Exists, Known
<1>9. ASSUME NEW c \in Clients, AssignPlatformAdminRole(c) PROVE TablesOK'
  <2>1. In(c).u \in Admins /\ In(c).role \in PlatformRoles
    BY <1>9, Working DEF TypeInv, AssignPlatformAdminRole, At, In, WellFormed, Formed
  <2> QED BY <1>9, <2>1 DEF TypeInv, TablesOK, AssignPlatformAdminRole, Exists, Known
<1>10. ASSUME NEW c \in Clients, RemovePlatformAdminRole(c) PROVE TablesOK'
  BY <1>10 DEF TypeInv, TablesOK, RemovePlatformAdminRole, Exists, Known
<1>11. ASSUME NEW c \in Clients, CreateTenant(c) PROVE TablesOK'
  BY <1>11 DEF TypeInv, TablesOK, CreateTenant, Exists, Known
<1>12. CASE UNCHANGED vars
  BY <1>12, TablesKept DEF TypeInv, vars
<1>13. QED
  BY <1>1, <1>2, <1>3, <1>4, <1>5, <1>6, <1>7, <1>8, <1>9, <1>10, <1>11, <1>12 DEF Next, Write

(* A request's record with its place changed. *)
LEMMA PlaceChanged ==
  ASSUME NEW p, NEW o, NEW b, NEW i, NEW l
  PROVE  [[pc |-> p, op |-> o, by |-> b, in |-> i] EXCEPT !.pc = l]
           = [pc |-> l, op |-> o, by |-> b, in |-> i]
OBVIOUS

(* A client sends a request. *)
Sends(c, op, t, in) ==
  /\ op \in {"register", "createUser"} => ~UserTaken(in.u)
  /\ op = "register" => ~TenantTaken(in.tenant)
  /\ req' = [req EXCEPT ![c] =
               [pc |-> CASE op = "register" -> "check"
                         [] op \in {"login", "platformLogin"} -> "find"
                         [] OTHER -> "authorize",
                op |-> op, by |-> t, in |-> in]]
  /\ promised' = [x \in DOMAIN promised \cup (IF op = "register" THEN {in.tenant} ELSE {}) |->
                    IF x \in DOMAIN promised THEN promised[x] ELSE TenantCodes]

(* Moving a request to another of its operation's places. *)
LEMMA Moved ==
  ASSUME RequestsOK, NEW c \in Clients, ~At(c, "idle"), NEW l \in PlacesOf(req[c].op),
         l = "answer" => In(c).u \in Users
  PROVE  [req[c] EXCEPT !.pc = l] \in Requests
<1>1. l \in {"authorize", "check", "insert", "answer", "find", "write"}
  BY DEF PlacesOf
<1> DEFINE r == [req[c] EXCEPT !.pc = l]
<1>2. r = [pc |-> l, op |-> req[c].op, by |-> req[c].by, in |-> req[c].in]
  <2>1. req[c] = [pc |-> req[c].pc, op |-> req[c].op, by |-> req[c].by, in |-> req[c].in]
    BY Working
  <2> QED BY <2>1, PlaceChanged
<1>3. WellFormed(r)
  BY <1>2, Working DEF WellFormed, In
<1>4. QED
  BY <1>1, <1>2, <1>3, Working DEF Requests

LEMMA RequestsStep == TypeInv /\ [Next]_vars => RequestsOK'
<1> SUFFICES ASSUME TypeInv, [Next]_vars PROVE RequestsOK'
  OBVIOUS
<1>0. /\ tokens \subseteq Tokens /\ req \in [Clients -> Requests]
      /\ told \subseteq Users /\ DOMAIN promised \subseteq Tenants /\ overtaken \subseteq Clients
      /\ Idle \in Requests
  BY DEF TypeInv, RequestsOK, Requests
<1>1. ASSUME NEW c \in Clients, Arrive(c) PROVE RequestsOK'
  <2>1. PICK op \in Ops : \E t \in Bearers(op), in \in Inputs(op) : Sends(c, op, t, in)
    BY <1>1 DEF Arrive, Sends
  <2>2. PICK t \in Bearers(op), in \in Inputs(op) : Sends(c, op, t, in)
    BY <2>1
  <2> DEFINE pc0 == CASE op = "register" -> "check"
                      [] op \in {"login", "platformLogin"} -> "find"
                      [] OTHER -> "authorize"
             r   == [pc |-> pc0, op |-> op, by |-> t, in |-> in]
  <2>3. op \in AllOps
    BY AccountsAssumption DEF AllOps
  <2>4. t \in Tokens \cup {NoToken} /\ (op \in ConsoleOps => t.sub \in Users)
    <3>1. t \in tokens \cup {NoToken}
      BY DEF Bearers
    <3>2. ASSUME op \in ConsoleOps PROVE t.sub \in Users
      BY <3>2 DEF Bearers, ConsoleOps, PlatformOps
    <3> QED BY <1>0, <3>1, <3>2
  <2>5. Formed(op, in) /\ in \in InputRows
    BY <2>3, InputsFormed DEF TypeInv, TablesOK, Formed
  <2>6. pc0 \in PlacesOf(op) /\ pc0 \in {"check", "find", "authorize"}
    BY <2>3 DEF PlacesOf
  <2>7. WellFormed(r)
    <3> HIDE DEF pc0
    <3> QED BY <2>4, <2>5, <2>6 DEF WellFormed
  <2>8. r \in Requests
    <3> HIDE DEF pc0
    <3> QED BY <2>3, <2>4, <2>5, <2>6, <2>7 DEF Requests
  <2>9. req' = [req EXCEPT ![c] = r]
    BY <2>2 DEF Sends
  <2>10. tokens' = tokens /\ told' = told /\ overtaken' = overtaken \ {c}
    BY <1>1 DEF Arrive
  <2>11. DOMAIN promised' \subseteq Tenants
    BY <1>0, <2>2, <2>5 DEF Sends, Formed
  <2> HIDE DEF r
  <2> QED BY <1>0, <2>8, <2>9, <2>10, <2>11 DEF RequestsOK
<1>2. ASSUME NEW c \in Clients, Authorize(c) PROVE RequestsOK'
  <2>1. "authorize" \in PlacesOf(req[c].op) /\ ~At(c, "idle")
    BY <1>2, Working DEF TypeInv, Authorize, At, WellFormed
  <2>2. CASE End(c) BY <1>0, <1>2, <2>2 DEF Authorize, End, RequestsOK
  <2>3. CASE Goto(c, IF req[c].op = "createUser" THEN "check" ELSE "write")
    <3>1. (IF req[c].op = "createUser" THEN "check" ELSE "write") \in PlacesOf(req[c].op)
      BY <2>1 DEF PlacesOf
    <3>2. [req[c] EXCEPT !.pc = IF req[c].op = "createUser" THEN "check" ELSE "write"] \in Requests
      BY <2>1, <3>1, Moved DEF TypeInv
    <3> QED BY <1>0, <1>2, <2>3, <3>2 DEF Authorize, Goto, RequestsOK
  <2> QED BY <1>2, <2>2, <2>3 DEF Authorize
<1>3. ASSUME NEW c \in Clients, Check(c) PROVE RequestsOK'
  <2>1. "check" \in PlacesOf(req[c].op) /\ ~At(c, "idle")
    BY <1>3, Working DEF TypeInv, Check, At, WellFormed
  <2>2. CASE End(c) BY <1>0, <1>3, <2>2 DEF Check, End, RequestsOK
  <2>3. CASE Goto(c, "insert")
    <3>1. "insert" \in PlacesOf(req[c].op)
      BY <2>1 DEF PlacesOf
    <3>2. [req[c] EXCEPT !.pc = "insert"] \in Requests
      BY <2>1, <3>1, Moved DEF TypeInv
    <3> QED BY <1>0, <1>3, <2>3, <3>2 DEF Check, Goto, RequestsOK
  <2> QED BY <1>3, <2>2, <2>3 DEF Check
<1>4. ASSUME NEW c \in Clients, Register(c) PROVE RequestsOK'
  <2>1. "answer" \in PlacesOf(req[c].op) /\ ~At(c, "idle") /\ In(c).u \in Users
    BY <1>4, Working DEF TypeInv, Register, At, In, WellFormed, Formed, PlacesOf
  <2>2. [req[c] EXCEPT !.pc = "answer"] \in Requests
    BY <2>1, Moved DEF TypeInv
  <2>3. End(c) \/ Goto(c, "answer")
    BY <1>4 DEF Register
  <2> QED BY <1>0, <1>4, <2>2, <2>3 DEF Register, Goto, End, RequestsOK
<1>5. ASSUME NEW c \in Clients, CreateUser(c) PROVE RequestsOK'
  <2>1. In(c).u \in Users
    BY <1>5, Working DEF TypeInv, CreateUser, At, In, WellFormed, Formed
  <2> QED BY <1>0, <1>5, <2>1 DEF CreateUser, End, RequestsOK
<1>6. ASSUME NEW c \in Clients, Session(c) PROVE RequestsOK'
  <2>1. In(c).u \in Users /\ Exists(In(c).u)
    BY <1>6, Working DEF TypeInv, Session, At, In, WellFormed, IdsFresh
  <2>2. user[In(c).u].tenant \in Tenants \cup {Nowhere}
    BY <2>1 DEF TypeInv, TablesOK
  <2>3. RoleNamesOf(In(c).u) \subseteq RoleNames
    BY DEF RoleNamesOf
  <2>4. [sub |-> In(c).u, tenant |-> user[In(c).u].tenant, roles |-> RoleNamesOf(In(c).u)] \in Tokens
    BY <2>1, <2>2, <2>3 DEF Tokens
  <2> QED BY <1>0, <1>6, <2>1, <2>4 DEF Session, End, RequestsOK
<1>7. ASSUME NEW c \in Clients, Login(c) PROVE RequestsOK'
  <2>1. CASE End(c)
    BY <1>0, <1>7, <2>1 DEF Login, End, RequestsOK
  <2>2. ASSUME NEW u \in Users,
               req' = [req EXCEPT ![c] = [pc |-> "answer", op |-> "login", by |-> req[c].by,
                                          in |-> [In(c) EXCEPT !.u = u]]]
        PROVE  RequestsOK'
    <3> DEFINE r == [pc |-> "answer", op |-> "login", by |-> req[c].by, in |-> [In(c) EXCEPT !.u = u]]
    <3>1. req[c].by \in Tokens \cup {NoToken} /\ In(c) \in InputRows
      BY <1>7, Working DEF TypeInv, Login, At, In
    <3>2. [In(c) EXCEPT !.u = u] \in InputRows /\ [In(c) EXCEPT !.u = u].u = u
      BY <3>1 DEF InputRows
    <3>3. "answer" \in PlacesOf("login") /\ "login" \notin ConsoleOps
      BY DEF PlacesOf, ConsoleOps
    <3>4. WellFormed(r)
      BY <3>2, <3>3 DEF WellFormed, Formed
    <3>5. r \in Requests
      BY <3>1, <3>2, <3>4 DEF Requests, AllOps
    <3> QED BY <1>0, <1>7, <2>2, <3>5 DEF Login, RequestsOK
  <2> QED BY <1>7, <2>1, <2>2 DEF Login, Finds, Rows
<1>8. ASSUME NEW c \in Clients, PlatformLogin(c) PROVE RequestsOK'
  <2>1. In(c).u \in Admins
    BY <1>8, Working DEF TypeInv, PlatformLogin, At, In, WellFormed, Formed
  <2>2. [sub |-> In(c).u, tenant |-> None, roles |-> {"platform_admin"}] \in Tokens
    BY <2>1 DEF Tokens
  <2> QED BY <1>0, <1>8, <2>2 DEF PlatformLogin, End, RequestsOK
<1>9. ASSUME NEW c \in Clients, Write(c) \/ Fails(c) PROVE RequestsOK'
  <2>1. End(c) /\ UNCHANGED <<tokens, told, promised>>
    BY <1>9 DEF Write, CreateTenant, CreateRole, AssignRole, Grant, PlatformGrant, CreatePermission,
                AssignPlatformAdminRole, RemovePlatformAdminRole, Fails
  <2>2. overtaken' \subseteq Clients
    BY <1>0, <1>9 DEF Write, CreateTenant, CreateRole, AssignRole, Grant, PlatformGrant, CreatePermission,
                AssignPlatformAdminRole, RemovePlatformAdminRole, Fails
  <2> QED BY <1>0, <2>1, <2>2 DEF End, RequestsOK
<1>10. CASE UNCHANGED vars
  BY <1>0, <1>10 DEF vars, RequestsOK
<1>11. QED
  BY <1>1, <1>2, <1>3, <1>4, <1>5, <1>6, <1>7, <1>8, <1>9, <1>10 DEF Next

(* Rows of the tables are only added, those of platform_admin_role apart.   *)
Grows ==
  /\ tenants \subseteq tenants' /\ roles \subseteq roles' /\ userRole \subseteq userRole'
  /\ grants \subseteq grants' /\ platformGrants \subseteq platformGrants'
  /\ \A u \in Users : Exists(u) => user'[u] = user[u]
  /\ Known \subseteq Known' /\ \A d \in Known : catalogue'[d] = catalogue[d]

LEMMA TablesGrow == TypeInv /\ [Next]_vars => Grows
<1> SUFFICES ASSUME TypeInv, [Next]_vars PROVE Grows
  OBVIOUS
<1>1. ASSUME NEW c \in Clients,
             Arrive(c) \/ Authorize(c) \/ Check(c) \/ Session(c) \/ Login(c) \/ PlatformLogin(c) \/ Fails(c)
      PROVE  Grows
  BY <1>1 DEF Arrive, Authorize, Check, Session, Login, PlatformLogin, Fails, tables, Grows, Known
<1>2. ASSUME NEW c \in Clients, Register(c) \/ CreateUser(c) PROVE Grows
  <2>1. ~Exists(In(c).u)
    BY <1>2 DEF TypeInv, IdsFresh, Inserts, Register, CreateUser, At
  <2>2. user' = user \/ user' = [user EXCEPT ![In(c).u] = NewUser(In(c))]
    BY <1>2 DEF Register, CreateUser
  <2>3. \A u \in Users : Exists(u) => user'[u] = user[u]
    BY <2>1, <2>2 DEF TypeInv, TablesOK
  <2> QED BY <1>2, <2>3 DEF Register, CreateUser, Grows, Known
<1>3. ASSUME NEW c \in Clients, CreatePermission(c) PROVE Grows
  BY <1>3 DEF CreatePermission, Grows, Known
<1>4. ASSUME NEW c \in Clients, Write(c), ~CreatePermission(c) PROVE Grows
  BY <1>4 DEF Write, CreateTenant, CreateRole, AssignRole, Grant, PlatformGrant, AssignPlatformAdminRole,
              RemovePlatformAdminRole, Grows, Known
<1>5. CASE UNCHANGED vars
  BY <1>5 DEF vars, tables, Grows, Known
<1>6. QED
  BY <1>1, <1>2, <1>3, <1>4, <1>5 DEF Next

LEMMA StaysHonest ==
  ASSUME Grows, NEW t, Honest(t, user, userRole)
  PROVE  Honest(t, user', userRole')
BY DEF Grows, Honest, Exists

(* What is new about a client that has just sent a request.                 *)
LEMMA Arrived ==
  ASSUME TypeInv, NEW c \in Clients, Arrive(c)
  PROVE  /\ req'[c].by \in tokens \cup {NoToken}
         /\ \A d \in Clients \ {c} : req'[d] = req[d]
         /\ req'[c].op \in {"register", "createUser"} => req'[c].in.u \in Users /\ ~Exists(req'[c].in.u)
              /\ \A d \in Clients : req[d].in.u # req'[c].in.u
         /\ req'[c].op = "register" => req'[c].in.tenant \in Tenants \ (tenants \cup DOMAIN promised)
         /\ req'[c].op = "createUser" => req'[c].in.tenant \in tenants \cup {Nowhere}
         /\ \A x : x \in DOMAIN promised' <=>
              x \in DOMAIN promised \/ (req'[c].op = "register" /\ x = req'[c].in.tenant)
         /\ \A x \in DOMAIN promised : promised'[x] = promised[x]
         /\ \A x \in DOMAIN promised' \ DOMAIN promised : promised'[x] = TenantCodes
         /\ req'[c].pc \in {"check", "find", "authorize"} /\ (req'[c].pc = "check" => req'[c].op = "register")
         /\ UNCHANGED <<tables, tokens, told>> /\ overtaken' = overtaken \ {c}
<1>0. PICK op \in Ops : \E t \in Bearers(op), in \in Inputs(op) : Sends(c, op, t, in)
  BY DEF Arrive, Sends
<1>1. PICK t \in Bearers(op), in \in Inputs(op) : Sends(c, op, t, in)
  BY <1>0
<1>2. op \in AllOps /\ t \in tokens \cup {NoToken} /\ req \in [Clients -> Requests]
  BY AccountsAssumption DEF AllOps, Bearers, TypeInv, RequestsOK
<1>3. Formed(op, in)
  BY <1>2, InputsFormed DEF TypeInv, TablesOK
<1>4. LET l == CASE op = "register" -> "check" [] op \in {"login", "platformLogin"} -> "find" [] OTHER -> "authorize"
      IN l \in {"check", "find", "authorize"} /\ (l = "check" => op = "register")
  BY <1>2
<1>5. req'[c].op = op /\ req'[c].by = t /\ req'[c].in = in /\ \A d \in Clients \ {c} : req'[d] = req[d]
  BY <1>1, <1>2 DEF Sends
<1>6. op \in {"register", "createUser"} =>
        in.u \in Users /\ ~Exists(in.u) /\ \A d \in Clients : req[d].in.u # in.u
  BY <1>1, <1>3 DEF Sends, Formed, UserTaken
<1>7. op = "register" => in.tenant \in Tenants \ (tenants \cup DOMAIN promised)
  BY <1>1, <1>3 DEF Sends, Formed, TenantTaken
<1>8. ASSUME op = "createUser" PROVE in.tenant \in tenants \cup {Nowhere}
  <2>1. PICK u \in Users, p \in People, x \in tenants \cup {Nowhere}, s \in {"active", "invited"} :
          in = AccountInput(u, p, x, s)
    BY <1>8 DEF Inputs
  <2> QED BY <2>1 DEF AccountInput, NoInput
<1>9. req'[c].pc \in {"check", "find", "authorize"} /\ (req'[c].pc = "check" => req'[c].op = "register")
  BY <1>1, <1>2, <1>4 DEF Sends
<1>10. /\ \A x : x \in DOMAIN promised' <=> x \in DOMAIN promised \/ (op = "register" /\ x = in.tenant)
       /\ \A x \in DOMAIN promised : promised'[x] = promised[x]
       /\ \A x \in DOMAIN promised' \ DOMAIN promised : promised'[x] = TenantCodes
  <2> DEFINE new == IF op = "register" THEN {in.tenant} ELSE {}
  <2>1. promised' = [x \in DOMAIN promised \cup new |->
                       IF x \in DOMAIN promised THEN promised[x] ELSE TenantCodes]
    BY <1>1 DEF Sends
  <2>2. \A x : x \in new <=> op = "register" /\ x = in.tenant
    OBVIOUS
  <2> HIDE DEF new
  <2>3. DOMAIN promised' = DOMAIN promised \cup new
    BY <2>1
  <2>4. \A x \in DOMAIN promised : promised'[x] = promised[x]
    BY <2>1
  <2>5. \A x \in DOMAIN promised' \ DOMAIN promised : promised'[x] = TenantCodes
    BY <2>1, <2>3
  <2> QED BY <2>2, <2>3, <2>4, <2>5
<1>11. UNCHANGED <<tables, tokens, told>> /\ overtaken' = overtaken \ {c}
  BY DEF Arrive
<1>12. QED
  BY <1>2, <1>5, <1>6, <1>7, <1>8, <1>9, <1>10, <1>11

(* What a step does to one client's request.                                *)
LEMMA RequestStep ==
  ASSUME TypeInv, [Next]_vars, NEW c \in Clients
  PROVE  \/ req'[c] = req[c]
         \/ req'[c] = Idle
         \/ Arrive(c)
         \/ Login(c) /\ \E u \in Users :
              /\ Exists(u) /\ UNCHANGED user
              /\ req'[c] = [pc |-> "answer", op |-> "login", by |-> req[c].by, in |-> [In(c) EXCEPT !.u = u]]
         \/ Register(c) /\ user' = [user EXCEPT ![In(c).u] = NewUser(In(c))]
              /\ req'[c] = [req[c] EXCEPT !.pc = "answer"]
         \/ Authorize(c) /\ InScope(req[c].by, Target(c)) /\ Permitted(req[c].by, req[c].op, Target(c))
              /\ req'[c] = [req[c] EXCEPT !.pc = IF req[c].op = "createUser" THEN "check" ELSE "write"]
         \/ Check(c) /\ req'[c] = [req[c] EXCEPT !.pc = "insert"]
<1>0. req \in [Clients -> Requests]
  BY DEF TypeInv, RequestsOK
<1>1. ASSUME NEW d \in Clients, Arrive(d) PROVE d = c \/ req'[c] = req[c]
  BY <1>0, <1>1 DEF Arrive
<1>2. ASSUME NEW d \in Clients, Authorize(d) \/ Check(d) \/ Register(d) \/ CreateUser(d)
               \/ Session(d) \/ PlatformLogin(d) \/ Write(d) \/ Fails(d)
      PROVE  d = c \/ req'[c] = req[c]
  BY <1>0, <1>2 DEF Authorize, Check, Register, CreateUser, Session, PlatformLogin, Write, Fails,
                    CreateTenant, CreateRole, AssignRole, Grant, PlatformGrant, CreatePermission,
                    AssignPlatformAdminRole, RemovePlatformAdminRole, Goto, End
<1>3. ASSUME NEW d \in Clients, Login(d) PROVE d = c \/ req'[c] = req[c]
  BY <1>0, <1>3 DEF Login, End
<1>4. CASE CreateUser(c) \/ Session(c) \/ PlatformLogin(c) \/ Write(c) \/ Fails(c)
  BY <1>0, <1>4 DEF CreateUser, Session, PlatformLogin, Write, Fails,
                    CreateTenant, CreateRole, AssignRole, Grant, PlatformGrant, CreatePermission,
                    AssignPlatformAdminRole, RemovePlatformAdminRole, End
<1>5. CASE Authorize(c)
  BY <1>0, <1>5 DEF Authorize, End, Goto
<1>6. CASE Check(c)
  BY <1>0, <1>6 DEF Check, End, Goto
<1>7. CASE Register(c)
  BY <1>0, <1>7 DEF Register, End, Goto
<1>8. CASE Login(c)
  <2>1. CASE End(c) BY <1>0, <2>1 DEF End
  <2>2. ASSUME NEW u \in Finds(In(c).email, In(c).tenant),
               req' = [req EXCEPT ![c] = [pc |-> "answer", op |-> "login", by |-> req[c].by,
                                          in |-> [In(c) EXCEPT !.u = u]]]
        PROVE  /\ u \in Users /\ Exists(u) /\ UNCHANGED user
               /\ req'[c] = [pc |-> "answer", op |-> "login", by |-> req[c].by, in |-> [In(c) EXCEPT !.u = u]]
    <3>1. u \in Users /\ Exists(u) BY DEF Finds, Rows
    <3>2. UNCHANGED user BY <1>8 DEF Login, tables
    <3> QED BY <1>0, <2>2, <3>1, <3>2
  <2> QED BY <1>8, <2>1, <2>2 DEF Login
<1>9. CASE UNCHANGED vars
  BY <1>9 DEF vars
<1>10. QED
  BY <1>1, <1>2, <1>3, <1>4, <1>5, <1>6, <1>7, <1>8, <1>9 DEF Next

(* The path of a request does not change, and tenants do not go away.       *)
LEMMA PathsStep == TypeInv /\ [Next]_vars => PathsOK'
<1> SUFFICES ASSUME TypeInv, [Next]_vars, NEW c \in Clients, req'[c].op = "createUser"
             PROVE  req'[c].in.tenant \in tenants' \cup {Nowhere}
  BY DEF PathsOK
<1>0. tenants \subseteq tenants'
  BY TablesGrow DEF Grows
<1>1. CASE Arrive(c)
  BY <1>0, <1>1, Arrived
<1>2. CASE req'[c] = req[c]
  BY <1>0, <1>2 DEF TypeInv, PathsOK
<1>3. req'[c] # Idle
  BY DEF Idle
<1>4. ASSUME NEW u, req'[c] = [pc |-> "answer", op |-> "login", by |-> req[c].by, in |-> [In(c) EXCEPT !.u = u]]
      PROVE  FALSE
  BY <1>4
<1>5. ASSUME ~At(c, "idle"), NEW l, req'[c] = [req[c] EXCEPT !.pc = l]
      PROVE  req'[c].in.tenant \in tenants' \cup {Nowhere}
  <2>1. req'[c].op = req[c].op /\ req'[c].in = req[c].in
    BY <1>5, Working DEF TypeInv
  <2> QED BY <1>0, <2>1 DEF TypeInv, PathsOK
<1>6. Register(c) \/ Authorize(c) \/ Check(c) => ~At(c, "idle")
  BY DEF Register, Authorize, Check, At
<1>7. QED
  BY <1>1, <1>2, <1>3, <1>4, <1>5, <1>6, RequestStep

LEMMA HonestStep == TypeInv /\ [Next]_vars => TokensHonest'
<1> SUFFICES ASSUME TypeInv, [Next]_vars PROVE TokensHonest'
  OBVIOUS
<1>0. Grows
  BY TablesGrow
<1>1. Honest(NoToken, user', userRole')
  BY IdsAssumption DEF Honest, NoToken
<1>2. \A t \in tokens : Honest(t, user', userRole')
  BY <1>0, StaysHonest DEF TypeInv, TokensHonest
<1>3. ASSUME NEW c \in Clients PROVE Honest(req[c].by, user', userRole')
  BY <1>0, StaysHonest DEF TypeInv, TokensHonest
<1>4. ASSUME NEW t \in tokens' PROVE Honest(t, user', userRole')
  <2>1. ASSUME NEW c \in Clients, Session(c) PROVE Honest(t, user', userRole')
    <3> DEFINE u == In(c).u
               new == [sub |-> u, tenant |-> user[u].tenant, roles |-> RoleNamesOf(u)]
    <3>1. Exists(u)
      BY <2>1 DEF TypeInv, IdsFresh, Session, At
    <3>2. UNCHANGED <<user, userRole>> /\ tokens' = tokens \cup {new}
      BY <2>1 DEF Session, tables
    <3>3. Honest(new, user', userRole')
      BY <3>1, <3>2 DEF Honest, Exists, RoleNamesOf
    <3> QED BY <1>2, <3>2, <3>3
  <2>2. ASSUME NEW c \in Clients, PlatformLogin(c) PROVE Honest(t, user', userRole')
    <3> DEFINE new == [sub |-> In(c).u, tenant |-> None, roles |-> {"platform_admin"}]
    <3>1. new.sub \notin Users
      BY <2>2, Working, IdsAssumption DEF TypeInv, PlatformLogin, At, In, WellFormed, Formed
    <3>2. Honest(new, user', userRole')
      BY <3>1 DEF Honest
    <3> QED BY <1>2, <2>2, <3>2 DEF PlatformLogin
  <2>3. ASSUME tokens' \subseteq tokens PROVE Honest(t, user', userRole')
    BY <1>2, <2>3
  <2>4. ASSUME NEW c \in Clients, Arrive(c) \/ Authorize(c) \/ Check(c) \/ Register(c) \/ CreateUser(c)
                                    \/ Login(c) \/ Write(c) \/ Fails(c)
        PROVE  UNCHANGED tokens
    BY <2>4 DEF Arrive, Authorize, Check, Register, CreateUser, Login, Write, Fails, CreateTenant, CreateRole,
                AssignRole, Grant, PlatformGrant, CreatePermission, AssignPlatformAdminRole,
                RemovePlatformAdminRole
  <2>5. CASE UNCHANGED vars BY <2>3, <2>5 DEF vars
  <2> QED BY <2>1, <2>2, <2>3, <2>4, <2>5 DEF Next
<1>5. ASSUME NEW c \in Clients PROVE Honest(req'[c].by, user', userRole')
  <2>1. CASE Arrive(c)
    <3>1. req'[c].by \in tokens \cup {NoToken}
      BY <2>1, Arrived
    <3> QED BY <1>1, <1>2, <3>1
  <2>2. CASE ~Arrive(c) /\ ~At(c, "idle")
    <3>1. \A l : [req[c] EXCEPT !.pc = l].by = req[c].by
      BY <2>2, Working DEF TypeInv
    <3>2. req'[c].by = req[c].by \/ req'[c] = Idle
      <4>1. \A v : [pc |-> "answer", op |-> "login", by |-> req[c].by, in |-> v].by = req[c].by
        OBVIOUS
      <4> QED BY <2>2, <3>1, <4>1, RequestStep
    <3> QED BY <1>1, <1>3, <3>2 DEF Idle
  <2>3. CASE ~Arrive(c) /\ At(c, "idle")
    <3>1. req'[c] = req[c] \/ req'[c] = Idle
      BY <2>3, RequestStep DEF Login, Register, Authorize, Check, At
    <3> QED BY <1>1, <1>3, <3>1 DEF Idle
  <2> QED BY <2>1, <2>2, <2>3
<1>6. QED
  BY <1>4, <1>5 DEF TokensHonest

(* A request that inserts came in with its ids, and keeps them.             *)
LEMMA InsertsStep ==
  ASSUME TypeInv, [Next]_vars, NEW c \in Clients, Inserts(c)'
  PROVE  Arrive(c) \/ (Inserts(c) /\ In(c)' = In(c) /\ req'[c].op = req[c].op)
<1>1. CASE Authorize(c) /\ req'[c] = [req[c] EXCEPT !.pc = IF req[c].op = "createUser" THEN "check" ELSE "write"]
  BY <1>1, Working DEF TypeInv, Inserts, In, Authorize, At
<1>2. CASE Check(c) /\ req'[c] = [req[c] EXCEPT !.pc = "insert"]
  BY <1>2, Working DEF TypeInv, Inserts, In, Check, At
<1>3. CASE Register(c) /\ req'[c] = [req[c] EXCEPT !.pc = "answer"]
  BY <1>3, Working DEF TypeInv, Inserts, Register, At
<1>4. CASE req'[c] = req[c] \/ req'[c] = Idle
  BY <1>4 DEF Inserts, In, Idle
<1>5. ASSUME Login(c), NEW u,
             req'[c] = [pc |-> "answer", op |-> "login", by |-> req[c].by, in |-> [In(c) EXCEPT !.u = u]]
      PROVE  FALSE
  BY <1>5 DEF Inserts
<1>6. QED
  BY <1>1, <1>2, <1>3, <1>4, <1>5, RequestStep

(* Whoever comes into being is in the request of one client, which is done  *)
(* inserting it.                                                            *)
LEMMA BornStep ==
  ASSUME TypeInv, [Next]_vars
  PROVE  /\ \A u \in Users : Exists(u)' /\ ~Exists(u) =>
              \E d \in Clients : Inserts(d) /\ In(d).u = u /\ ~Inserts(d)'
         /\ \A t \in tenants' \ tenants :
              \/ t \notin DOMAIN promised
              \/ \E d \in Clients : Inserts(d) /\ req[d].op = "register" /\ In(d).tenant = t /\ ~Inserts(d)'
<1>0. req \in [Clients -> Requests] /\ user \in [Users -> UserRows \cup {NoUser}]
  BY DEF TypeInv, RequestsOK, TablesOK
<1>1. ASSUME NEW c \in Clients, Register(c)
      PROVE  /\ Inserts(c) /\ ~Inserts(c)' /\ req[c].op = "register"
             /\ tenants' \subseteq tenants \cup {In(c).tenant}
             /\ \A u \in Users : u # In(c).u => user'[u] = user[u]
  BY <1>0, <1>1, Working DEF TypeInv, Register, Inserts, At, End, Goto, Idle
<1>2. ASSUME NEW c \in Clients, CreateUser(c)
      PROVE  /\ Inserts(c) /\ ~Inserts(c)' /\ UNCHANGED tenants
             /\ \A u \in Users : u # In(c).u => user'[u] = user[u]
  BY <1>0, <1>2 DEF CreateUser, Inserts, At, End, Idle
<1>3. ASSUME NEW c \in Clients,
             Arrive(c) \/ Authorize(c) \/ Check(c) \/ Session(c) \/ Login(c) \/ PlatformLogin(c)
               \/ (Write(c) /\ ~CreateTenant(c)) \/ Fails(c)
      PROVE  UNCHANGED <<user, tenants>>
  BY <1>3 DEF Arrive, Authorize, Check, Session, Login, PlatformLogin, Write, Fails, tables, CreateRole,
              AssignRole, Grant, PlatformGrant, CreatePermission, AssignPlatformAdminRole,
              RemovePlatformAdminRole
<1>4. ASSUME NEW c \in Clients, CreateTenant(c)
      PROVE  UNCHANGED user /\ \A t \in tenants' \ tenants : t \notin DOMAIN promised
  BY <1>4 DEF CreateTenant, TenantTaken
<1>5. CASE UNCHANGED vars
  BY <1>5 DEF vars, tables, Exists
<1>6. ASSUME NEW c \in Clients, Register(c) \/ CreateUser(c), NEW u \in Users, Exists(u)', ~Exists(u)
      PROVE  Inserts(c) /\ In(c).u = u /\ ~Inserts(c)'
  BY <1>1, <1>2, <1>6 DEF Exists
<1>7. QED
  BY <1>1, <1>2, <1>3, <1>4, <1>5, <1>6 DEF Next, Exists

(* What was promised to a registration is not forgotten.                    *)
LEMMA PromisesKept ==
  ASSUME TypeInv, [Next]_vars
  PROVE  /\ DOMAIN promised \subseteq DOMAIN promised'
         /\ \A t \in DOMAIN promised : promised'[t] = promised[t]
         /\ \A t \in DOMAIN promised' \ DOMAIN promised :
              t \notin tenants' /\ promised'[t] = TenantCodes
<1>1. ASSUME NEW c \in Clients, Arrive(c)
      PROVE  /\ DOMAIN promised \subseteq DOMAIN promised'
             /\ \A t \in DOMAIN promised : promised'[t] = promised[t]
             /\ \A t \in DOMAIN promised' \ DOMAIN promised :
                  t \notin tenants' /\ promised'[t] = TenantCodes
  <2>1. UNCHANGED tenants
    BY <1>1 DEF Arrive, tables
  <2>2. req'[c].op = "register" => req'[c].in.tenant \notin tenants
    BY <1>1, Arrived
  <2>3. \A x : x \in DOMAIN promised' <=>
          x \in DOMAIN promised \/ (req'[c].op = "register" /\ x = req'[c].in.tenant)
    BY <1>1, Arrived
  <2>4. /\ \A x \in DOMAIN promised : promised'[x] = promised[x]
        /\ \A x \in DOMAIN promised' \ DOMAIN promised : promised'[x] = TenantCodes
    BY <1>1, Arrived
  <2> QED BY <2>1, <2>2, <2>3, <2>4
<1>2. ASSUME NEW c \in Clients,
             Authorize(c) \/ Check(c) \/ Register(c) \/ CreateUser(c) \/ Session(c) \/ Login(c)
               \/ PlatformLogin(c) \/ Write(c) \/ Fails(c)
      PROVE  UNCHANGED promised
  BY <1>2 DEF Authorize, Check, Register, CreateUser, Session, Login, PlatformLogin, Write, Fails,
              CreateTenant, CreateRole, AssignRole, Grant, PlatformGrant, CreatePermission,
              AssignPlatformAdminRole, RemovePlatformAdminRole
<1>3. CASE UNCHANGED vars
  BY <1>3 DEF vars
<1>4. QED
  BY <1>1, <1>2, <1>3 DEF Next

(* A request that has just come in has its ids for itself.                  *)
LEMMA ArrivedApart ==
  ASSUME TypeInv, [Next]_vars, NEW c \in Clients, Arrive(c), Inserts(c)',
         NEW d \in Clients \ {c}, Inserts(d)'
  PROVE  /\ In(d).u' # In(c).u'
         /\ req'[c].op = "register" /\ req'[d].op = "register" => In(d).tenant' # In(c).tenant'
<1>1. req'[d] = req[d] /\ Inserts(d)
  <2>1. req'[d] = req[d]
    BY Arrived
  <2> QED BY <2>1 DEF Inserts
<1>2. req'[c].op \in {"register", "createUser"}
  BY DEF Inserts
<1>3. req'[d].in.u # req'[c].in.u
  <2>1. \A e \in Clients : req[e].in.u # req'[c].in.u
    BY <1>2, Arrived
  <2> QED BY <1>1, <2>1
<1>4. req[d].op = "register" => req[d].in.tenant \in DOMAIN promised
  BY <1>1 DEF TypeInv, IdsFresh, In
<1>5. req'[c].op = "register" => req'[c].in.tenant \notin DOMAIN promised
  BY Arrived
<1>6. In(d)' = req'[d].in /\ In(c)' = req'[c].in
  BY DEF In
<1>7. QED
  BY <1>1, <1>3, <1>4, <1>5, <1>6

LEMMA FreshStep == TypeInv /\ [Next]_vars => IdsFresh'
<1> SUFFICES ASSUME TypeInv, [Next]_vars, NEW c \in Clients
             PROVE  /\ req'[c].pc = "answer" => Exists(In(c).u)'
                    /\ Inserts(c)' =>
                         /\ ~Exists(In(c).u)'
                         /\ req'[c].op = "register" => In(c).tenant' \in DOMAIN promised' \ tenants'
                         /\ \A d \in Clients \ {c} : Inserts(d)' =>
                              /\ In(d).u' # In(c).u'
                              /\ req'[c].op = "register" /\ req'[d].op = "register" =>
                                   In(d).tenant' # In(c).tenant'
  BY DEF IdsFresh
<1>0. Grows
  BY TablesGrow
<1>1. ASSUME req'[c].pc = "answer" PROVE Exists(In(c).u)'
  <2>1. CASE req'[c] = req[c]
    <3>1. In(c).u \in Users /\ Exists(In(c).u)
      BY <1>1, <2>1, Working DEF TypeInv, IdsFresh, At, In, WellFormed
    <3> QED BY <1>0, <2>1, <3>1 DEF Grows, Exists, In
  <2>2. ASSUME NEW u \in Users, Exists(u), UNCHANGED user, Login(c),
               req'[c] = [pc |-> "answer", op |-> "login", by |-> req[c].by, in |-> [In(c) EXCEPT !.u = u]]
        PROVE  Exists(In(c).u)'
    <3>1. In(c).u' = u
      <4>1. In(c) \in InputRows
        BY <2>2, Working DEF TypeInv, Login, At, In
      <4>2. [In(c) EXCEPT !.u = u].u = u
        BY <4>1 DEF InputRows
      <4>3. req'[c].in = [In(c) EXCEPT !.u = u]
        BY <2>2
      <4>4. In(c)' = req'[c].in
        BY DEF In
      <4> QED BY <4>2, <4>3, <4>4
    <3> QED BY <2>2, <3>1 DEF Exists
  <2>3. CASE Register(c) /\ user' = [user EXCEPT ![In(c).u] = NewUser(In(c))]
               /\ req'[c] = [req[c] EXCEPT !.pc = "answer"]
    <3>1. In(c)' = In(c)
      BY <2>3, Working DEF TypeInv, Register, At, In
    <3>2. In(c).u \in Users /\ In(c).status \in {"active", "invited"}
      BY <2>3, Working DEF TypeInv, Register, At, In, WellFormed, Formed
    <3>3. NewUser(In(c)) # NoUser
      <4>1. In(c).tenant \in Tenants
        BY <2>3, Working DEF TypeInv, Register, At, In, WellFormed, Formed
      <4>2. NewUser(In(c)).tenant = In(c).tenant /\ NoUser.tenant = None
        BY DEF NewUser, NoUser
      <4> QED
        BY <4>1, <4>2, IdsAssumption
    <3> QED BY <2>3, <3>1, <3>2, <3>3 DEF TypeInv, TablesOK, Exists
  <2>4. ~Arrive(c)
    BY <1>1, Arrived
  <2>5. ~(Authorize(c) /\ req'[c] = [req[c] EXCEPT !.pc = IF req[c].op = "createUser" THEN "check" ELSE "write"])
    BY <1>1, Working DEF TypeInv, Authorize, At
  <2>6. ~(Check(c) /\ req'[c] = [req[c] EXCEPT !.pc = "insert"])
    BY <1>1, Working DEF TypeInv, Check, At
  <2>7. req'[c] # Idle
    BY <1>1 DEF Idle
  <2> QED BY <2>1, <2>2, <2>3, <2>4, <2>5, <2>6, <2>7, RequestStep
<1>2. ASSUME NEW d \in Clients, Inserts(d), Inserts(d)'
      PROVE  /\ In(d).u \in Users /\ user'[In(d).u] = NoUser
             /\ req[d].op = "register" => In(d).tenant \in DOMAIN promised \ tenants'
  <2>1. /\ In(d).u \in Users /\ ~Exists(In(d).u)
        /\ req[d].op = "register" => In(d).tenant \in DOMAIN promised \ tenants
    BY <1>2, Working DEF TypeInv, IdsFresh, Inserts, At, In, WellFormed, Formed
  <2>2. \A e \in Clients : Inserts(e) /\ ~Inserts(e)' =>
          /\ In(e).u # In(d).u
          /\ req[d].op = "register" /\ req[e].op = "register" => In(e).tenant # In(d).tenant
    BY <1>2 DEF TypeInv, IdsFresh
  <2> QED BY <2>1, <2>2, BornStep DEF Exists
<1>3. ASSUME Inserts(c)' PROVE ~Exists(In(c).u)'
  <2>1. CASE Arrive(c)
    <3>1. ~Exists(In(c).u')
      BY <1>3, <2>1, Arrived DEF Inserts, In
    <3> QED BY <2>1, <3>1, Arrived DEF Exists, tables
  <2>2. CASE ~Arrive(c)
    <3>1. Inserts(c) /\ In(c)' = In(c) BY <1>3, <2>2, InsertsStep
    <3> QED BY <1>2, <1>3, <3>1 DEF Exists
  <2> QED BY <2>1, <2>2
<1>4. ASSUME Inserts(c)', req'[c].op = "register" PROVE In(c).tenant' \in DOMAIN promised' \ tenants'
  <2>1. CASE Arrive(c)
    <3>1. In(c)' = req'[c].in
      BY DEF In
    <3>2. req'[c].in.tenant \notin tenants
      BY <1>4, <2>1, Arrived
    <3>3. req'[c].in.tenant \in DOMAIN promised'
      BY <1>4, <2>1, Arrived
    <3>4. UNCHANGED tenants
      BY <2>1 DEF Arrive, tables
    <3> QED BY <3>1, <3>2, <3>3, <3>4
  <2>2. CASE ~Arrive(c)
    <3>1. Inserts(c) /\ In(c)' = In(c) /\ req'[c].op = req[c].op BY <1>4, <2>2, InsertsStep
    <3> QED BY <1>2, <1>4, <3>1, PromisesKept
  <2> QED BY <2>1, <2>2
<1>5. ASSUME Inserts(c)', NEW d \in Clients \ {c}, Inserts(d)'
      PROVE  /\ In(d).u' # In(c).u'
             /\ req'[c].op = "register" /\ req'[d].op = "register" => In(d).tenant' # In(c).tenant'
  <2>1. CASE Arrive(c)
    BY <1>5, <2>1, ArrivedApart
  <2>2. CASE Arrive(d)
    BY <1>5, <2>2, ArrivedApart
  <2>3. CASE ~Arrive(c) /\ ~Arrive(d)
    <3>1. /\ Inserts(c) /\ In(c)' = In(c) /\ req'[c].op = req[c].op
          /\ Inserts(d) /\ In(d)' = In(d) /\ req'[d].op = req[d].op
      BY <1>5, <2>3, InsertsStep
    <3>2. /\ In(d).u # In(c).u
          /\ req[c].op = "register" /\ req[d].op = "register" => In(d).tenant # In(c).tenant
      BY <3>1 DEF TypeInv, IdsFresh
    <3> QED BY <3>1, <3>2
  <2> QED BY <2>1, <2>2, <2>3
<1>6. QED
  BY <1>1, <1>2, <1>3, <1>4, <1>5

LEMMA TypeInvInit == Init => TypeInv
<1> SUFFICES ASSUME Init PROVE TypeInv
  OBVIOUS
<1>1. TablesOK
  BY AccountsAssumption DEF Init, TablesOK, Exists, Known
<1>2. RequestsOK
  BY DEF Init, RequestsOK, Requests
<1>3. TokensHonest /\ PathsOK
  BY IdsAssumption DEF Init, TokensHonest, Honest, PathsOK, Idle, NoToken
<1>4. IdsFresh
  BY DEF Init, IdsFresh, Inserts, Idle
<1>5. QED
  BY <1>1, <1>2, <1>3, <1>4 DEF TypeInv

LEMMA Typed == Spec => []TypeInv
<1>1. TypeInv /\ [Next]_vars => TypeInv'
  BY TablesStep, RequestsStep, HonestStep, PathsStep, FreshStep DEF TypeInv
<1>2. QED
  BY <1>1, TypeInvInit, PTL DEF Spec

(* Types are right, whatever the requests and however they interleave:      *)
(* every account belongs to a tenant that is there, or to the one in a path *)
(* that none has, every link to a role, an account and a permission that    *)
(* are there.                                                               *)
THEOREM TypeCorrect == Spec => []TypeOK
<1>1. TypeInv => TypeOK
  <2> SUFFICES ASSUME TypeInv PROVE TypeOK
    OBVIOUS
  <2>1. \A u \in Users : Exists(u) => user[u].tenant \in tenants \cup {Nowhere} /\ user[u].status \in {"active", "invited"}
    BY DEF TypeInv, TablesOK, Exists, UserRows
  <2>2. \A t \in tokens : t.sub \in Users \cup Admins
    BY DEF TypeInv, RequestsOK, Tokens
  <2>3. \A c \in Clients : req[c].pc \in {"idle", "authorize", "check", "insert", "answer", "find", "write"}
    BY DEF TypeInv, RequestsOK, Requests, Idle
  <2> QED BY <2>1, <2>2, <2>3 DEF TypeInv, TablesOK, RequestsOK, TypeOK
<1>2. QED
  BY <1>1, Typed, PTL

-----------------------------------------------------------------------------
(* The only steps that add a permission to a role.                          *)
LEMMA GrantStep ==
  ASSUME TypeInv, [Next]_vars
  PROVE  /\ \A g \in grants' \ grants : g[2] \in Known /\ catalogue[g[2]] = "tenant"
         /\ \A g \in platformGrants' \ platformGrants : g[2] \in Known /\ catalogue[g[2]] = "platform"
<1>1. ASSUME NEW c \in Clients, Register(c)
      PROVE  /\ grants' \subseteq grants \cup ({<<In(c).tenant, TenantAdmin>>} \X TenantCodes)
             /\ UNCHANGED platformGrants
  BY <1>1 DEF Register
<1>2. ASSUME NEW c \in Clients, Grant(c)
      PROVE  /\ \A g \in grants' \ grants : g[2] \in Known /\ catalogue[g[2]] = "tenant"
             /\ UNCHANGED platformGrants
  BY <1>2 DEF Grant, AllOf
<1>3. ASSUME NEW c \in Clients, PlatformGrant(c)
      PROVE  /\ \A g \in platformGrants' \ platformGrants : g[2] \in Known /\ catalogue[g[2]] = "platform"
             /\ UNCHANGED grants
  BY <1>3 DEF PlatformGrant, AllOf
<1>4. ASSUME NEW c \in Clients,
             Arrive(c) \/ Authorize(c) \/ Check(c) \/ CreateUser(c) \/ Session(c) \/ Login(c)
               \/ PlatformLogin(c) \/ Fails(c)
      PROVE  UNCHANGED <<grants, platformGrants>>
  BY <1>4 DEF Arrive, Authorize, Check, CreateUser, Session, Login, PlatformLogin, Fails, tables
<1>5. ASSUME NEW c \in Clients, CreateTenant(c) \/ CreateRole(c) \/ AssignRole(c)
               \/ CreatePermission(c) \/ AssignPlatformAdminRole(c) \/ RemovePlatformAdminRole(c)
      PROVE  UNCHANGED <<grants, platformGrants>>
  BY <1>5 DEF CreateTenant, CreateRole, AssignRole, CreatePermission, AssignPlatformAdminRole, RemovePlatformAdminRole
<1>6. CASE UNCHANGED vars
  BY <1>6 DEF vars, tables
<1>7. QED
  BY <1>1, <1>2, <1>3, <1>4, <1>5, <1>6 DEF Next, Write, TenantCodes

(* Nobody ever holds a role of another tenant, and no role a permission of  *)
(* the other side: a permission that a role has keeps its scope, since      *)
(* CreatePermission leaves a code that is there as it is.                   *)
THEOREM RolesNeverMix == Spec => []RolesStayApart
<1>1. Init => RolesStayApart
  BY AccountsAssumption DEF Init, RolesStayApart
<1>2. TypeInv /\ TypeInv' /\ RolesStayApart /\ [Next]_vars => RolesStayApart'
  <2> SUFFICES ASSUME TypeInv, TypeInv', RolesStayApart, [Next]_vars PROVE RolesStayApart'
    OBVIOUS
  <2>1. \A ur \in userRole' : user'[ur[1]].tenant = ur[2][1]
    BY DEF TypeInv, TablesOK
  <2>2. Grows
    BY TablesGrow
  <2>3. \A g \in grants : g[2] \in Known /\ catalogue[g[2]] = "tenant"
    BY DEF TypeInv, TablesOK, RolesStayApart
  <2>4. \A g \in platformGrants : g[2] \in Known /\ catalogue[g[2]] = "platform"
    BY DEF TypeInv, TablesOK, RolesStayApart
  <2>5. /\ \A g \in grants' : catalogue'[g[2]] = "tenant"
        /\ \A g \in platformGrants' : catalogue'[g[2]] = "platform"
    BY <2>2, <2>3, <2>4, GrantStep DEF Grows
  <2> QED BY <2>1, <2>5 DEF RolesStayApart
<1>3. QED
  BY <1>1, <1>2, Typed, PTL DEF Spec

-----------------------------------------------------------------------------
(* A registration is there as a whole or not at all: the transaction brings *)
(* all of it or nothing, the catalogue it reads has all that was promised   *)
(* when the registration was asked for, nobody else creates that tenant, and*)
(* no later step takes any of it away.                                      *)
Promised == \A t \in DOMAIN promised : promised[t] \subseteq TenantCodes
Whole(t) == /\ <<t, TenantAdmin>> \in roles
            /\ \E u \in Users : user[u].tenant = t /\ <<u, <<t, TenantAdmin>>>> \in userRole
            /\ \A d \in promised[t] : <<<<t, TenantAdmin>>, d>> \in grants
KeptPromises == Promised /\ \A t \in tenants \cap DOMAIN promised : Whole(t)

(* The step that creates a tenant somebody asked to register is Register.   *)
LEMMA RegisteredBy ==
  ASSUME TypeInv, [Next]_vars, NEW t \in DOMAIN promised, t \in tenants' \ tenants
  PROVE  \E c \in Clients : /\ Register(c) /\ In(c).tenant = t /\ In(c).u \in Users
                           /\ user' = [user EXCEPT ![In(c).u] = NewUser(In(c))]
                           /\ roles' = roles \cup {<<t, TenantAdmin>>}
                           /\ userRole' = userRole \cup {<<In(c).u, <<t, TenantAdmin>>>>}
                           /\ grants' = grants \cup ({<<t, TenantAdmin>>} \X TenantCodes)
<1>1. ASSUME NEW c \in Clients, Register(c)
      PROVE  /\ In(c).tenant = t /\ In(c).u \in Users
             /\ user' = [user EXCEPT ![In(c).u] = NewUser(In(c))]
             /\ roles' = roles \cup {<<t, TenantAdmin>>}
             /\ userRole' = userRole \cup {<<In(c).u, <<t, TenantAdmin>>>>}
             /\ grants' = grants \cup ({<<t, TenantAdmin>>} \X TenantCodes)
  <2>1. In(c).u \in Users
    BY <1>1, Working DEF TypeInv, Register, At, In, WellFormed, Formed
  <2> QED BY <1>1, <2>1 DEF Register
<1>2. ASSUME NEW c \in Clients, CreateTenant(c) PROVE FALSE
  BY <1>2 DEF CreateTenant, TenantTaken
<1>3. ASSUME NEW c \in Clients,
             Arrive(c) \/ Authorize(c) \/ Check(c) \/ CreateUser(c) \/ Session(c) \/ Login(c)
               \/ PlatformLogin(c) \/ Fails(c)
      PROVE  UNCHANGED tenants
  BY <1>3 DEF Arrive, Authorize, Check, CreateUser, Session, Login, PlatformLogin, Fails, tables
<1>4. ASSUME NEW c \in Clients, Write(c), ~CreateTenant(c) PROVE UNCHANGED tenants
  BY <1>4 DEF Write, CreateRole, AssignRole, Grant, PlatformGrant, CreatePermission,
              AssignPlatformAdminRole, RemovePlatformAdminRole
<1>5. CASE UNCHANGED vars
  BY <1>5 DEF vars, tables
<1>6. QED
  BY <1>1, <1>2, <1>3, <1>4, <1>5 DEF Next

THEOREM RegistrationsAreWhole == Spec => []RegistrationIsWhole
<1>1. Init => KeptPromises
  BY DEF Init, KeptPromises, Promised
<1>2. TypeInv /\ KeptPromises /\ [Next]_vars => KeptPromises'
  <2> SUFFICES ASSUME TypeInv, KeptPromises, [Next]_vars PROVE KeptPromises'
    OBVIOUS
  <2>1. Grows
    BY TablesGrow
  <2>2. TenantCodes \subseteq TenantCodes'
    BY <2>1 DEF Grows, TenantCodes
  <2>3. Promised'
    BY <2>2, PromisesKept DEF KeptPromises, Promised
  <2>4. ASSUME NEW t \in tenants', t \in DOMAIN promised' PROVE Whole(t)'
    <3>0. t \in DOMAIN promised /\ promised'[t] = promised[t]
      BY <2>4, PromisesKept
    <3>1. CASE t \in tenants
      <4>0. Whole(t)
        BY <3>0, <3>1 DEF KeptPromises
      <4>1. PICK u \in Users : user[u].tenant = t /\ <<u, <<t, TenantAdmin>>>> \in userRole
        BY <4>0 DEF Whole
      <4>2. Exists(u)
        BY <3>1, <4>1, IdsAssumption DEF TypeInv, TablesOK, Exists, NoUser
      <4>3. user'[u].tenant = t /\ <<u, <<t, TenantAdmin>>>> \in userRole'
        BY <2>1, <4>1, <4>2 DEF Grows
      <4>4. <<t, TenantAdmin>> \in roles' /\ \A d \in promised[t] : <<<<t, TenantAdmin>>, d>> \in grants'
        BY <2>1, <4>0 DEF Grows, Whole
      <4> QED BY <3>0, <4>3, <4>4 DEF Whole
    <3>2. CASE t \notin tenants
      <4>1. PICK c \in Clients : /\ Register(c) /\ In(c).tenant = t /\ In(c).u \in Users
                           /\ user' = [user EXCEPT ![In(c).u] = NewUser(In(c))]
                           /\ roles' = roles \cup {<<t, TenantAdmin>>}
                           /\ userRole' = userRole \cup {<<In(c).u, <<t, TenantAdmin>>>>}
                           /\ grants' = grants \cup ({<<t, TenantAdmin>>} \X TenantCodes)
        BY <2>4, <3>0, <3>2, RegisteredBy
      <4>2. user'[In(c).u].tenant = t
        BY <4>1 DEF TypeInv, TablesOK, NewUser
      <4>3. promised[t] \subseteq TenantCodes
        BY <3>0 DEF KeptPromises, Promised
      <4>4. <<In(c).u, <<t, TenantAdmin>>>> \in userRole' /\ <<t, TenantAdmin>> \in roles'
        BY <4>1
      <4>5. \A d \in promised[t] : <<<<t, TenantAdmin>>, d>> \in grants'
        BY <4>1, <4>3
      <4> QED BY <3>0, <4>1, <4>2, <4>4, <4>5 DEF Whole
    <3> QED BY <3>1, <3>2
  <2> QED BY <2>3, <2>4 DEF KeptPromises
<1>3. TypeInv /\ KeptPromises => RegistrationIsWhole
  <2> SUFFICES ASSUME TypeInv, KeptPromises, NEW t \in DOMAIN promised
               PROVE  \/ /\ t \notin tenants /\ \A r \in roles : r[1] # t
                         /\ \A u \in Users : user[u].tenant # t
                      \/ t \in tenants /\ Whole(t)
    BY DEF RegistrationIsWhole, Whole
  <2>1. t # Nowhere /\ t # None
    BY IdsAssumption DEF TypeInv, RequestsOK
  <2>2. ASSUME t \notin tenants PROVE \A r \in roles : r[1] # t
    BY <2>1, <2>2 DEF TypeInv, TablesOK
  <2>3. ASSUME t \notin tenants, NEW u \in Users PROVE user[u].tenant # t
    BY <2>1, <2>3 DEF TypeInv, TablesOK, Exists, NoUser
  <2> QED BY <2>2, <2>3 DEF KeptPromises
<1>4. QED
  BY <1>1, <1>2, <1>3, Typed, PTL DEF Spec

-----------------------------------------------------------------------------
(* A request that is past its check may do what it will do, by the tables   *)
(* as they are, unless an administrator has lost a role meanwhile; and it   *)
(* goes to its own tenant, or its subject may go to any.                    *)
Checked(c) ==
  \/ req[c].pc = "write"
  \/ req[c].op = "createUser" /\ req[c].pc \in {"check", "insert"}
AtHome(c) ==
  req[c].op = "createUser" => In(c).tenant = req[c].by.tenant \/ Roams(req[c].by.sub)
Cleared ==
  \A c \in Clients : Checked(c) => /\ c \notin overtaken => MayNow(req[c].by, req[c].op)
                                  /\ AtHome(c)

(* Its check lets through nobody but who may: the roles of a token are      *)
(* still its user's, and in another tenant only tenant_admin helps, which   *)
(* the check does not ask to be of that tenant.                             *)
LEMMA PermittedMayNow ==
  ASSUME TypeInv, NEW c \in Clients, At(c, "authorize"),
         InScope(req[c].by, Target(c)), Permitted(req[c].by, req[c].op, Target(c))
  PROVE  MayNow(req[c].by, req[c].op) /\ AtHome(c)
<1>1. req[c].op \in ConsoleOps \cup PlatformOps
  BY Working DEF TypeInv, At, WellFormed, PlacesOf, AllOps
<1>2. CASE req[c].op \in PlatformOps
  BY <1>2 DEF Permitted, MayNow, AtHome, PlatformOps
<1>3. CASE req[c].op \in ConsoleOps /\ req[c].op \notin PlatformOps
  <2> DEFINE t == req[c].by
  <2>1. /\ t.sub \in Users /\ t.tenant = user[t.sub].tenant
        /\ t.roles \subseteq RoleNamesOf(t.sub)
    BY <1>3, Subject DEF TypeInv, At
  <2>2. MayNow(t, req[c].op)
    BY <1>3, <2>1 DEF Permitted, MayNow
  <2>3. ASSUME req[c].op = "createUser", In(c).tenant # t.tenant PROVE Roams(t.sub)
    <3>1. Target(c) = In(c).tenant
      BY <2>3 DEF Target
    <3>2. t.roles \cap PlatformNames # {}
      BY <2>3, <3>1 DEF InScope
    <3>3. TenantAdmin \in t.roles
      BY <1>3, <2>1, <2>3, <3>1 DEF Permitted
    <3> QED BY <2>1, <3>2, <3>3 DEF Roams
  <2> QED BY <2>2, <2>3 DEF AtHome
<1>4. QED
  BY <1>1, <1>2, <1>3

(* Who may do something can do it after a step, as long as the subject's    *)
(* administrator roles are kept.                                            *)
LEMMA StillMay ==
  ASSUME TypeInv, Grows, NEW t, NEW op, MayNow(t, op),
         op \notin PlatformOps => t.sub \in Users /\ Exists(t.sub),
         \A p \in PlatformRoles : <<t.sub, p>> \in adminRole => <<t.sub, p>> \in adminRole'
  PROVE  IF op \in PlatformOps THEN Match(AdminCodes(t.sub)', Need(op))
         ELSE TenantAdmin \in RoleNamesOf(t.sub)' \/ Match(UserCodes(t.sub)', Need(op))
<1>1. AdminCodes(t.sub) \subseteq AdminCodes(t.sub)'
  BY DEF AdminCodes, Grows
<1>2. ASSUME op \notin PlatformOps
      PROVE  RoleNamesOf(t.sub) \subseteq RoleNamesOf(t.sub)' /\ UserCodes(t.sub) \subseteq UserCodes(t.sub)'
  BY <1>2 DEF RoleNamesOf, UserCodes, Grows
<1>3. QED
  BY <1>1, <1>2 DEF MayNow, Match

(* An administrator's roles shrink only by RemovePlatformAdminRole, which   *)
(* marks every request of that administrator that is under way.             *)
LEMMA AdminRoleStep ==
  ASSUME TypeInv, [Next]_vars, NEW c \in Clients, ~At(c, "idle"), c \notin overtaken'
  PROVE  \A p \in PlatformRoles : <<req[c].by.sub, p>> \in adminRole => <<req[c].by.sub, p>> \in adminRole'
<1>1. ASSUME NEW d \in Clients, RemovePlatformAdminRole(d)
      PROVE  \A p \in PlatformRoles : <<req[c].by.sub, p>> \in adminRole => <<req[c].by.sub, p>> \in adminRole'
  <2>1. req[c].by.sub # In(d).u
    BY <1>1 DEF RemovePlatformAdminRole
  <2> QED BY <1>1, <2>1 DEF RemovePlatformAdminRole
<1>2. ASSUME NEW d \in Clients, AssignPlatformAdminRole(d) PROVE adminRole \subseteq adminRole'
  BY <1>2 DEF AssignPlatformAdminRole
<1>3. ASSUME NEW d \in Clients,
             Arrive(d) \/ Authorize(d) \/ Check(d) \/ Register(d) \/ CreateUser(d) \/ Session(d) \/ Login(d)
               \/ PlatformLogin(d) \/ Fails(d)
      PROVE  UNCHANGED adminRole
  BY <1>3 DEF Arrive, Authorize, Check, Register, CreateUser, Session, Login, PlatformLogin, Fails, tables
<1>4. ASSUME NEW d \in Clients,
             CreateTenant(d) \/ CreateRole(d) \/ AssignRole(d) \/ Grant(d) \/ PlatformGrant(d)
               \/ CreatePermission(d)
      PROVE  UNCHANGED adminRole
  BY <1>4 DEF CreateTenant, CreateRole, AssignRole, Grant, PlatformGrant, CreatePermission
<1>5. CASE UNCHANGED vars
  BY <1>5 DEF vars, tables
<1>6. QED
  BY <1>1, <1>2, <1>3, <1>4, <1>5 DEF Next, Write

(* Nor is a request forgotten to be marked before its client sends another. *)
LEMMA OvertakenStep ==
  ASSUME TypeInv, [Next]_vars, NEW c \in Clients, c \in overtaken, ~Arrive(c)
  PROVE  c \in overtaken'
<1>1. ASSUME NEW d \in Clients, Arrive(d) PROVE d # c /\ overtaken' = overtaken \ {d}
  BY <1>1 DEF Arrive
<1>2. ASSUME NEW d \in Clients, RemovePlatformAdminRole(d) PROVE overtaken \subseteq overtaken'
  BY <1>2 DEF RemovePlatformAdminRole
<1>3. ASSUME NEW d \in Clients,
             Authorize(d) \/ Check(d) \/ Register(d) \/ CreateUser(d) \/ Session(d) \/ Login(d)
               \/ PlatformLogin(d) \/ Fails(d)
      PROVE  UNCHANGED overtaken
  BY <1>3 DEF Authorize, Check, Register, CreateUser, Session, Login, PlatformLogin, Fails
<1>4. ASSUME NEW d \in Clients,
             CreateTenant(d) \/ CreateRole(d) \/ AssignRole(d) \/ Grant(d) \/ PlatformGrant(d)
               \/ CreatePermission(d) \/ AssignPlatformAdminRole(d)
      PROVE  UNCHANGED overtaken
  BY <1>4 DEF CreateTenant, CreateRole, AssignRole, Grant, PlatformGrant, CreatePermission,
              AssignPlatformAdminRole
<1>5. CASE UNCHANGED vars
  BY <1>5 DEF vars
<1>6. QED
  BY <1>1, <1>2, <1>3, <1>4, <1>5 DEF Next, Write

(* A request past its check was there before, or is checked by this step.   *)
LEMMA CheckedStep ==
  ASSUME TypeInv, [Next]_vars, NEW c \in Clients, Checked(c)'
  PROVE  /\ ~At(c, "idle") /\ ~Arrive(c)
         /\ req'[c].by = req[c].by /\ req'[c].op = req[c].op /\ req'[c].in = req[c].in
         /\ \/ Checked(c)
            \/ At(c, "authorize") /\ InScope(req[c].by, Target(c))
                 /\ Permitted(req[c].by, req[c].op, Target(c))
<1>1. CASE req'[c] = req[c]
  <2>1. ~At(c, "idle") /\ Checked(c)
    BY <1>1 DEF Checked, At
  <2>2. ~Arrive(c)
    BY <2>1 DEF Arrive
  <2> QED BY <1>1, <2>1, <2>2
<1>2. ASSUME Authorize(c), NEW l, req'[c] = [req[c] EXCEPT !.pc = l]
      PROVE  /\ ~At(c, "idle") /\ ~Arrive(c) /\ At(c, "authorize")
             /\ req'[c].by = req[c].by /\ req'[c].op = req[c].op /\ req'[c].in = req[c].in
  BY <1>2, Working DEF TypeInv, Authorize, At, Arrive
<1>3. ASSUME Check(c), req'[c] = [req[c] EXCEPT !.pc = "insert"]
      PROVE  /\ ~At(c, "idle") /\ ~Arrive(c) /\ Checked(c)
             /\ req'[c].by = req[c].by /\ req'[c].op = req[c].op /\ req'[c].in = req[c].in
  BY <1>3, Working DEF TypeInv, Check, At, Arrive, Checked
<1>4. ~(Register(c) /\ req'[c] = [req[c] EXCEPT !.pc = "answer"])
  BY Working DEF TypeInv, Register, At, Checked
<1>5. ASSUME NEW u,
             req'[c] = [pc |-> "answer", op |-> "login", by |-> req[c].by, in |-> [In(c) EXCEPT !.u = u]]
      PROVE  FALSE
  BY <1>5 DEF Checked
<1>6. req'[c] # Idle
  BY DEF Checked, Idle
<1>7. ~Arrive(c)
  BY Arrived DEF Checked
<1>8. QED
  BY <1>1, <1>2, <1>3, <1>4, <1>5, <1>6, <1>7, RequestStep

LEMMA ClearedStep == TypeInv /\ TypeInv' /\ Cleared /\ [Next]_vars => Cleared'
<1> SUFFICES ASSUME TypeInv, Cleared, [Next]_vars, NEW c \in Clients, Checked(c)'
             PROVE  /\ c \notin overtaken' => MayNow(req[c].by, req[c].op)'
                    /\ AtHome(c)'
  BY DEF Cleared
<1> DEFINE t  == req[c].by
           op == req[c].op
<1>1. /\ ~At(c, "idle") /\ ~Arrive(c)
      /\ req'[c].by = req[c].by /\ req'[c].op = req[c].op /\ req'[c].in = req[c].in
      /\ \/ Checked(c)
         \/ At(c, "authorize") /\ InScope(req[c].by, Target(c))
              /\ Permitted(req[c].by, req[c].op, Target(c))
  BY CheckedStep
<1>2. op \in ConsoleOps \cup PlatformOps
  BY <1>1, Working DEF TypeInv, At, WellFormed, PlacesOf, AllOps, Checked
<1>3. op \notin PlatformOps => t.sub \in Users /\ Exists(t.sub)
  BY <1>1, <1>2, Subject DEF TypeInv
<1>4. ASSUME c \notin overtaken' PROVE MayNow(req[c].by, req[c].op)'
  <2>1. MayNow(t, op)
    <3>1. c \notin overtaken
      BY <1>1, <1>4, OvertakenStep
    <3> QED BY <1>1, <3>1, PermittedMayNow DEF Cleared
  <2>2. IF op \in PlatformOps THEN Match(AdminCodes(t.sub)', Need(op))
        ELSE TenantAdmin \in RoleNamesOf(t.sub)' \/ Match(UserCodes(t.sub)', Need(op))
    BY <1>1, <1>3, <1>4, <2>1, AdminRoleStep, TablesGrow, StillMay
  <2> QED BY <1>1, <2>2 DEF MayNow
<1>5. AtHome(c)'
  <2>1. AtHome(c)
    BY <1>1, PermittedMayNow DEF Cleared
  <2>2. ASSUME op = "createUser", Roams(t.sub) PROVE Roams(t.sub)'
    <3>1. t.sub \in Users /\ Exists(t.sub)
      BY <1>3, <2>2 DEF PlatformOps
    <3>2. RoleNamesOf(t.sub) \subseteq RoleNamesOf(t.sub)'
      BY <1>1, <3>1, TablesGrow DEF RoleNamesOf, Grows
    <3> QED BY <2>2, <3>2 DEF Roams
  <2> QED BY <1>1, <2>1, <2>2 DEF AtHome, In
<1>6. QED
  BY <1>4, <1>5

LEMMA UntouchedStep ==
  ASSUME UNCHANGED <<user, roles, userRole, grants>>
  PROVE  Touched = {}
BY DEF Touched

(* What the request of one client can touch when it ends.                   *)
LEMMA TouchedStep ==
  ASSUME TypeInv, [Next]_vars, NEW c \in Clients, req[c].pc \in {"write", "insert"},
         req[c].op # "register", req'[c].pc = "idle", NEW t \in Touched
  PROVE  /\ req[c].op \in ConsoleOps
         /\ t = req[c].by.tenant \/ (req[c].op = "createUser" /\ t = In(c).tenant)
<1>0. req \in [Clients -> Requests] /\ user \in [Users -> UserRows \cup {NoUser}] /\ req'[c] # req[c]
  BY DEF TypeInv, RequestsOK, TablesOK
<1>1. ASSUME NEW d \in Clients, CreateUser(d) PROVE d = c
  BY <1>0, <1>1 DEF CreateUser, End
<1>2. ASSUME NEW d \in Clients, CreateRole(d) \/ AssignRole(d) \/ Grant(d) PROVE d = c
  BY <1>0, <1>2 DEF CreateRole, AssignRole, Grant, End
<1>3. ASSUME NEW d \in Clients, Register(d) PROVE FALSE
  <2>1. req'[c] = req[c] \/ d = c
    BY <1>0, <1>3 DEF Register, End, Goto
  <2> QED BY <1>0, <1>3, <2>1 DEF Register
<1>4. CASE CreateUser(c)
  <2>1. In(c).u \in Users
    BY <1>4, Working DEF TypeInv, CreateUser, At, In, WellFormed, Formed
  <2>2. CASE UNCHANGED user
    BY <1>4, <2>2, UntouchedStep DEF CreateUser
  <2>3. CASE user' = [user EXCEPT ![In(c).u] = NewUser(In(c))]
    <3>1. /\ \A v \in Users : user'[v] # user[v] => v = In(c).u
          /\ user'[In(c).u].tenant = In(c).tenant
      BY <1>0, <2>1, <2>3 DEF NewUser
    <3>2. UNCHANGED <<roles, userRole, grants>>
      BY <1>4 DEF CreateUser
    <3>3. t \in {user'[u].tenant : u \in {v \in Users : user'[v] # user[v]}}
      BY <3>2 DEF Touched
    <3>4. t = In(c).tenant
      BY <3>1, <3>3
    <3> QED BY <1>4, <3>4 DEF CreateUser, ConsoleOps
  <2> QED BY <1>4, <2>2, <2>3 DEF CreateUser
<1>5. CASE CreateRole(c)
  <2>1. t \in {r[1] : r \in roles' \ roles}
    BY <1>5 DEF CreateRole, Touched
  <2>2. roles' = roles \cup {<<req[c].by.tenant, In(c).role>>} /\ req[c].op = "createRole"
    BY <1>5 DEF CreateRole
  <2>3. t = req[c].by.tenant
    BY <2>1, <2>2
  <2> QED BY <2>2, <2>3 DEF ConsoleOps
<1>6. CASE AssignRole(c)
  <2>1. t \in {ur[2][1] : ur \in userRole' \ userRole}
    BY <1>6 DEF AssignRole, Touched
  <2>2. /\ \A ur \in userRole' \ userRole : ur[2][1] = req[c].by.tenant
        /\ req[c].op = "assignRole"
    BY <1>6 DEF AssignRole
  <2> QED BY <2>1, <2>2 DEF ConsoleOps
<1>7. CASE Grant(c)
  <2>1. t \in {g[1][1] : g \in grants' \ grants}
    BY <1>7 DEF Grant, Touched
  <2>2. /\ \A g \in grants' \ grants : g[1][1] = req[c].by.tenant
        /\ req[c].op = "grant"
    BY <1>7 DEF Grant
  <2> QED BY <2>1, <2>2 DEF ConsoleOps
<1>8. ASSUME NEW d \in Clients,
             Arrive(d) \/ Authorize(d) \/ Check(d) \/ Session(d) \/ Login(d) \/ PlatformLogin(d) \/ Fails(d)
      PROVE  FALSE
  BY <1>8, UntouchedStep DEF Arrive, Authorize, Check, Session, Login, PlatformLogin, Fails, tables
<1>9. ASSUME NEW d \in Clients,
             CreateTenant(d) \/ PlatformGrant(d) \/ CreatePermission(d) \/ AssignPlatformAdminRole(d)
               \/ RemovePlatformAdminRole(d)
      PROVE  FALSE
  BY <1>9, UntouchedStep DEF CreateTenant, PlatformGrant, CreatePermission, AssignPlatformAdminRole,
                             RemovePlatformAdminRole
<1>10. ~ UNCHANGED vars
  BY <1>0 DEF vars
<1>11. QED
  BY <1>1, <1>2, <1>3, <1>4, <1>5, <1>6, <1>7, <1>8, <1>9, <1>10 DEF Next, Write

(* A request does only what the tables permit its subject when it does it,  *)
(* unless an administrator has lost a role while it was under way; and it   *)
(* writes to its subject's own tenant, unless that user holds there both    *)
(* tenant_admin and a role that is called like the platform's.              *)
THEOREM OnlyPermittedIsDone == Spec => DoneIsPermitted
<1>1. Init => Cleared
  BY DEF Init, Cleared, Checked, Idle
<1>2. TypeInv /\ Cleared /\ [Next]_vars => \A c \in Clients :
        req[c].op \in ConsoleOps \cup PlatformOps /\ c \notin overtaken
          /\ req[c].pc \in {"write", "insert"} /\ req'[c].pc = "idle"
        => /\ MayNow(req[c].by, req[c].op)
           /\ \A t \in Touched : /\ req[c].op \in ConsoleOps
                                 /\ t = req[c].by.tenant \/ Roams(req[c].by.sub)
  <2> SUFFICES ASSUME TypeInv, Cleared, [Next]_vars, NEW c \in Clients,
                      req[c].op \in ConsoleOps \cup PlatformOps, c \notin overtaken,
                      req[c].pc \in {"write", "insert"}, req'[c].pc = "idle"
               PROVE  /\ MayNow(req[c].by, req[c].op)
                      /\ \A t \in Touched : /\ req[c].op \in ConsoleOps
                                            /\ t = req[c].by.tenant \/ Roams(req[c].by.sub)
    OBVIOUS
  <2>1. Checked(c)
    BY Working DEF TypeInv, At, WellFormed, PlacesOf, ConsoleOps, PlatformOps, Checked
  <2>2. MayNow(req[c].by, req[c].op) /\ AtHome(c)
    BY <2>1 DEF Cleared
  <2>3. req[c].op # "register"
    BY DEF ConsoleOps, PlatformOps
  <2>4. ASSUME NEW t \in Touched
        PROVE  req[c].op \in ConsoleOps /\ (t = req[c].by.tenant \/ Roams(req[c].by.sub))
    BY <2>2, <2>3, TouchedStep DEF AtHome
  <2> QED BY <2>2, <2>4
<1>3. TypeInv /\ Cleared /\ [Next]_vars =>
        [\A c \in Clients :
           req[c].op \in ConsoleOps \cup PlatformOps /\ c \notin overtaken
             /\ req[c].pc \in {"write", "insert"} /\ req'[c].pc = "idle"
           => /\ MayNow(req[c].by, req[c].op)
              /\ \A t \in Touched : /\ req[c].op \in ConsoleOps
                                    /\ t = req[c].by.tenant \/ Roams(req[c].by.sub)]_vars
  BY <1>2
<1>4. QED
  BY <1>1, <1>3, ClearedStep, Typed, PTL DEF Spec, DoneIsPermitted

-----------------------------------------------------------------------------
(* No two users share an e-mail address or a phone number: the check before *)
(* the insert may be late, the unique indexes are not.                      *)
OneUserEach ==
  \A u, v \in Users : Exists(u) /\ Exists(v) /\ u # v =>
    /\ user[u].email = None \/ user[u].email # user[v].email
    /\ user[u].phone = None \/ user[u].phone # user[v].phone

LEMMA OneUserEachStep ==
  ASSUME UniqueIndexes = {"email", "phone"}, TypeInv, OneUserEach, [Next]_vars
  PROVE  OneUserEach'
<1>1. ASSUME NEW c \in Clients, Register(c) \/ CreateUser(c) PROVE OneUserEach'
  <2>1. CASE UNCHANGED user BY <2>1 DEF OneUserEach, Exists
  <2>2. CASE /\ ~Clashes(In(c).tenant, In(c).email, In(c).phone)
             /\ user' = [user EXCEPT ![In(c).u] = NewUser(In(c))]
    <3>1. /\ Bound(In(c).email, None) = {} /\ Bound(None, In(c).phone) = {}
      BY <2>2 DEF Clashes
    <3>2. \A v \in Users : Exists(v) =>
            /\ In(c).email = None \/ user[v].email # In(c).email
            /\ In(c).phone = None \/ user[v].phone # In(c).phone
      BY <3>1 DEF Bound
    <3>3. In(c).u \in Users
      BY <1>1, Working DEF TypeInv, Register, CreateUser, At, In, WellFormed, Formed
    <3>4. /\ \A v \in Users : v # In(c).u => user'[v] = user[v]
          /\ user'[In(c).u].email = In(c).email /\ user'[In(c).u].phone = In(c).phone
      BY <2>2, <3>3 DEF TypeInv, TablesOK, NewUser
    <3> QED BY <3>2, <3>4 DEF OneUserEach, Exists
  <2> QED BY <1>1, <2>1, <2>2 DEF Register, CreateUser
<1>2. ASSUME UNCHANGED user PROVE OneUserEach'
  BY <1>2 DEF OneUserEach, Exists
<1>3. ASSUME NEW c \in Clients,
             Arrive(c) \/ Authorize(c) \/ Check(c) \/ Session(c) \/ Login(c) \/ PlatformLogin(c)
               \/ Write(c) \/ Fails(c)
      PROVE  UNCHANGED user
  BY <1>3 DEF Arrive, Authorize, Check, Session, Login, PlatformLogin, Write, Fails, tables, CreateTenant,
              CreateRole, AssignRole, Grant, PlatformGrant, CreatePermission, AssignPlatformAdminRole,
              RemovePlatformAdminRole
<1>4. CASE UNCHANGED vars
  BY <1>2, <1>4 DEF vars, tables
<1>5. QED
  BY <1>1, <1>2, <1>3, <1>4 DEF Next

(* With both global indexes there, a user who has a name, an e-mail address *)
(* and a phone number is the one whom a login with either finds, whatever   *)
(* comes between the check and the insert and whether the tenant is named   *)
(* or not, unless the string is in the other column of another user.        *)
THEOREM OneUserToAnAccount ==
  ASSUME UniqueIndexes = {"email", "phone"}
  PROVE  Spec => []LogInFinds
<1>1. Init => OneUserEach
  BY DEF Init, OneUserEach, Exists
<1>2. TypeInv /\ OneUserEach /\ [Next]_vars => OneUserEach'
  BY OneUserEachStep
<1>3. TypeInv /\ OneUserEach => LogInFinds
  <2> SUFFICES ASSUME TypeInv, OneUserEach, NEW u \in Users, Exists(u), Scans(u),
                      NEW a \in {user[u].email, user[u].phone}, NEW t \in {None, user[u].tenant},
                      ~Crossed(a, u, t)
               PROVE  Finds(a, t) = {u}
    BY DEF LogInFinds
  <2>1. a # None
    BY DEF Scans
  <2>2. ASSUME NEW v \in Rows(a, t) PROVE v = u
    <3>1. v \in Users /\ Exists(v) /\ (user[v].email = a \/ user[v].phone = a)
            /\ (t = None \/ user[v].tenant = t)
      BY DEF Rows
    <3> QED BY <2>1, <3>1 DEF OneUserEach, Crossed
  <2>3. u \in Rows(a, t)
    BY DEF Rows
  <2>4. Rows(a, t) = {u}
    BY <2>2, <2>3
  <2> QED BY <2>4 DEF Finds
<1>4. QED
  BY <1>1, <1>2, <1>3, Typed, PTL DEF Spec
=============================================================================
