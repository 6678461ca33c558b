\* Two requests that may retry the same record; no crash and no lost lock, so
\* that whatever goes wrong is the requests' doing.
SPECIFICATION Spec
CONSTANTS
  None = None
  Log = {l1}
  Retry = {r1, r2}
  Proc = {p1, p2}
  MaxAttempts = 2
  MaxStalledCount = 1
  ChainLength = 2
  Faults = {"workerdb", "lostreply", "api"}
SYMMETRY Symmetry
INVARIANTS
  ParallelJobsNeedDoubleRetry
  DuplicateNeedsCause
PROPERTIES
  SentIsFinal
  HandedOff
