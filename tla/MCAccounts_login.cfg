SPECIFICATION Spec
CONSTANTS
  None = None
  Users = {u1, u2}
  Tenants = {t1, t2}
  Nowhere = Nowhere
  Emails = {x}
  Phones = {x, f}
  People <- MCRegistrants
  UniqueIndexes = {"email", "phone"}
  Admins = {a1}
  PlatformRoles = {"operators"}
  Codes = {"tenant.user.write", "tenant.*", "platform.*"}
  Covers <- MCCovers
  Scope <- MCScope
  AdminRoles <- MCAdminRoles
  PlatformGrants <- MCPlatformGrants
  RoleNames = {"tenant_admin", "platform_admin"}
  Clients = {c1, c2}
  Ops = {"createTenant", "createUser", "createRole", "assignRole", "grant", "createPermission", "assignAdmin", "removeAdmin", "platformGrant", "register", "login", "platformLogin"}
  MaxRequests = 5
INVARIANT RegisteredCanLogIn
CHECK_DEADLOCK FALSE
