SPECIFICATION WorkerSpec
CONSTANTS
  Docs = {d1}
  Contents = {"matching", "mismatched"}
  MaxConfirms = 1
  Workers = {w1}
  MaxAttempts = 2
  OptionalStores = {"opensearch"}
  LiveLocksExpire = FALSE
  MaxCrashes = 0
  NoOne = NoOne
INVARIANT FailedHasNoContent
\* Quiet once the task is finished or the document has none.
CHECK_DEADLOCK FALSE
