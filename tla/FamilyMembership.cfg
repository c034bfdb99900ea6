SPECIFICATION Spec
CONSTANTS
  Users = {u1, u2, u3}
  Families = {f1, f2}
  Codes = {k1, k2}
  Calls = {c1, c2}
  MaxMembers = 2
  RoleRequests = {"owner", "admin", "other"}
  None = None
SYMMETRY Interchangeable
CONSTRAINT Reduced
INVARIANTS FamilyTypeOK MemberCountAgrees WithinLimit OneFamilyPerUser FounderOwns CodesAreUnique
PROPERTIES OnlyOwnerChangesRoles CallsSeemAtomic
