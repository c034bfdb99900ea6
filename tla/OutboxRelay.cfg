SPECIFICATION RelayFairSpec
CONSTANTS
  Events = {index1, delete1}
  IndexEvents = {index1}
  Publishers = {p1, p2}
  Adapters = {a1}
  AnyFraction = FALSE
  MaxCopies = 2
  None = None
INVARIANTS RelayTypeOK NoLostEvent
PROPERTIES OnlyHolderSettles DeliversEveryEvent
\* Quiet once every row is settled: the DELETE message has no consumer.
CHECK_DEADLOCK FALSE
