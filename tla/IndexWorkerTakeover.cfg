SPECIFICATION WorkerSpec
CONSTANTS
  Docs = {d1}
  Contents = {"matching", "mismatched"}
  MaxConfirms = 1
  Workers = {w1, w2}
  MaxAttempts = 2
  OptionalStores = {"opensearch"}
  LiveLocksExpire = TRUE
  MaxCrashes = 1
  NoOne = NoOne
INVARIANTS AgentTypeOK TaskAgreesWithDocument
PROPERTIES OnlyHolderSettlesTask OneVerdict
\* Quiet once the task is finished or the document has none.
CHECK_DEADLOCK FALSE
