SPECIFICATION Spec
CONSTANTS
  Docs = {d1}
  Contents = {"matching"}
  MaxConfirms = 2
  Workers = {w1}
  MaxAttempts = 2
  OptionalStores = {}
  LiveLocksExpire = FALSE
  MaxCrashes = 1
  NoOne = NoOne
  Publishers = {p1}
  Adapters = {a1}
  AnyFraction = FALSE
  MaxCopies = 1
INVARIANTS TypeOK NoLostWork TasksAreForConfirmedUploads
PROPERTIES DocumentsLiveAsPromised RelaysAsSpecified
CHECK_DEADLOCK FALSE
