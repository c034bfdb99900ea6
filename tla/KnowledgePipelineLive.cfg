SPECIFICATION FairSpec
CONSTANTS
  Docs = {d1}
  Contents = {"matching"}
  MaxConfirms = 1
  Workers = {w1}
  MaxAttempts = 1
  OptionalStores = {}
  LiveLocksExpire = FALSE
  MaxCrashes = 0
  NoOne = NoOne
  Publishers = {p1}
  Adapters = {a1}
  AnyFraction = FALSE
  MaxCopies = 1
PROPERTIES ConfirmedDocumentsSettle
CHECK_DEADLOCK FALSE
