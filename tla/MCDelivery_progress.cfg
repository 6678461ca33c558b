\* One job and one retry of it on one worker slot, every fault, under fairness.
SPECIFICATION FairSpec
CONSTANTS
  None = None
  Log = {l1}
  Retry = {r1}
  Proc = {p1}
  MaxAttempts = 2
  MaxStalledCount = 1
  ChainLength = 2
  Faults = {"crash", "lockloss", "workerdb", "lostreply", "handlerdb", "api"}
PROPERTIES
  JobsTerminate
  Settles
