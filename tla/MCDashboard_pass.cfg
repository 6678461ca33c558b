\* Two users, two records, one thing; up to two loads and two retries in flight.
SPECIFICATION FairSpec
CONSTANTS
  None = None
  User = {u1, u2}
  Record = {d1, d2}
  Thing = {i1}
  Flight = {f1, f2}
  MaxLoads = 2
  Kept = 1
INVARIANTS
  TypeOK
  LiveMeansCurrent
  SettingsCrossByASwitchOnly
  DoubleRetryNeedsLoosening
PROPERTIES
  BellHearsCurrent
  SecondEmailNeedsError
  HistoryCatchesUp
