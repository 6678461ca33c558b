\* A day of eight units; the wall clock may jump by one, once per notification,
\* and rendering and saving take up to two.
SPECIFICATION Spec
CONSTANTS
  Unset = Unset
  Day = 8
  Shifts <- OneUnitShifts
  MaxSlip = 2
INVARIANTS
  OffByTheSlipOnly
  MissesByTheJump
