SPECIFICATION Spec
CONSTANTS
  Sessions = {s1, s2}
  Devices = {d1}
  Calls = {c1, c2}
  TTL = 2
  MaxSecrets = 3
  MaxMishaps = 0
  None = None
INVARIANTS LoggedOutStaysOut
CHECK_DEADLOCK FALSE
