\* One job and one dead-letter retry of it, every fault, two attempts each.
SPECIFICATION Spec
CONSTANTS
  None = None
  Log = {l1}
  Retry = {r1}
  Proc = {p1, p2}
  MaxAttempts = 2
  MaxStalledCount = 1
  ChainLength = 2
  Faults = {"crash", "lockloss", "workerdb", "lostreply", "handlerdb", "api"}
SYMMETRY Symmetry
INVARIANTS
  TypeOK
  OneSlotPerJob
  SuccessIsTrue
  DeadLetterExhausted
  NothingLost
PROPERTIES
  RunsDown
  DlqIsFinal
