CONSTANTS
  Tenants = {A, B}
  NoTenant = NoTenant
  Users = {alice, bob}
  TenantOf <- MCTenantOf
  RoleOf <- MCRoleOf
  MaxSessions = 2
  Files = {f0, f1}
  LegacyFiles = {f0}
  Jobs = {j1}
  Reports = {r1}
  Requests = {q1}
  Backends = {"local", "s3"}
  None = None
  A = A
  B = B
  alice = alice
  bob = bob
  f0 = f0
  f1 = f1
  j1 = j1
  r1 = r1
  q1 = q1
SPECIFICATION Spec
INVARIANT ErrorsWithinTenant
SYMMETRY Symmetry
CHECK_DEADLOCK FALSE
