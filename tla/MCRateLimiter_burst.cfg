\* No lag at all: only calls in the same millisecond.
SPECIFICATION Spec
CONSTANTS
  Call = {c1, c2, c3}
  Max = 2
  Window = 4
  Lag = 0
  Horizon = 8
SYMMETRY Symmetry
CHECK_DEADLOCK FALSE
INVARIANT SendsPerWindow
