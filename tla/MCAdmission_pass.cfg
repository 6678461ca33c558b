\* One token per four units, three calls, a day of six units.
SPECIFICATION AdmissionSpec
CONSTANTS
  Call = {c1, c2, c3}
  Unset = Unset
  Max = 1
  Window = 4
  Lag = 0
  MaxSlip = 1
  Day = 6
  Horizon = 9
  Windows <- SomeWindows
SYMMETRY Symmetry
CHECK_DEADLOCK FALSE
INVARIANTS
  UndelayedRate
  BurstBound
  OrderKept
