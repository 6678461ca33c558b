\* Two tokens per five milliseconds, five calls, scripts up to 2 ms late.
SPECIFICATION Spec
CONSTANTS
  Call = {c1, c2, c3, c4, c5}
  Max = 2
  Window = 5
  Lag = 2
  Horizon = 9
SYMMETRY Symmetry
CHECK_DEADLOCK FALSE
INVARIANTS
  WindowBound
PROPERTY DenialsJustified
