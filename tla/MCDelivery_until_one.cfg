\* One job, two providers, and a database that may reject one update.
SPECIFICATION Spec
CONSTANTS
  None = None
  Log = {l1}
  Retry = {}
  Proc = {p1, p2}
  MaxAttempts = 2
  MaxStalledCount = 1
  ChainLength = 2
  Faults = {"workerdb"}
SYMMETRY Symmetry
PROPERTY UntilOneSucceeds
