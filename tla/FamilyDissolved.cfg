SPECIFICATION Spec
CONSTANTS
  Users = {u1, u2}
  Families = {f1}
  Codes = {k1}
  Calls = {c1, c2}
  MaxMembers = 2
  RoleRequests = {"owner", "admin", "other"}
  None = None
INVARIANTS DissolvedFamiliesAreEmpty
