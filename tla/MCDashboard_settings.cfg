\* The preferences page and a user who is switched while it is open.
SPECIFICATION Spec
CONSTANTS
  None = None
  User = {u1, u2}
  Record = {d1}
  Thing = {i1}
  Flight = {f1}
  MaxLoads = 1
  Kept = 1
SYMMETRY Symmetry
INVARIANT StoresOwnSettings
