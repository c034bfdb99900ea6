SPECIFICATION Spec
CONSTANTS
  Sessions = {s1, s2}
  Devices = {d1}
  Calls = {c1, c2}
  TTL = 2
  MaxSecrets = 3
  MaxMishaps = 1
  None = None
SYMMETRY Interchangeable
INVARIANTS SessionTypeOK IndexCoversSessions StoredTokenUsable
PROPERTIES TokensAreOneTime OnlyNewestTokenEndsSession
CHECK_DEADLOCK FALSE
