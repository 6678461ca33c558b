\* Two PUTs and two runs of the seed, in any order and any statement rejecting.
SPECIFICATION Spec
CONSTANTS
  None = None
  Dev = Dev
  Admin = Admin
  Ghost = Ghost
  Addressed <- OneAndNoOne
  Seed = Seed
  Default = Default
  Put = {a1, a2}
  Run = {s1, s2}
  Bodies <- FewBodies
SYMMETRY Symmetry
CHECK_DEADLOCK FALSE
INVARIANTS
  TypeOK
  LatestWins
  AnswerIsCurrent
  FailuresExplained
  SeedComplete
PROPERTY PriorityKept
