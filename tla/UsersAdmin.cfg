SPECIFICATION Spec
CONSTANTS
  Users = {u1, u2, u3}
  Founders = {u1, u2}
  Updates = {p1, p2}
  Registrations = {g1, g2}
  AskedRoles = {"user", "admin"}
  PoolSizes = {1, 2}
INVARIANT SomeAdminRemains
PROPERTIES AuditTellsAccounts RevocationIsImmediate
SYMMETRY UserSymmetry
CHECK_DEADLOCK FALSE
