\* One request of any kind against two concurrent PUTs of two users.
SPECIFICATION Spec
CONSTANTS
  None = None
  ann = ann
  ben = ben
  ghost = ghost
  User <- AllUsers
  Known <- TwoAdmins
  Admin <- TwoAdmins
  Call = {c1}
  Requests <- Mixed
  Put = {a1, a2}
  Copies = 2
  Seeded <- Rows
  Online <- TwoAdmins
  Pushes = 2
  ChainLength = 2
SYMMETRY Symmetry
CHECK_DEADLOCK FALSE
INVARIANTS
  TypeOK
  OptOutHonoured
  AnswersTrue
  SyncAnswersTrue
  SyncDuplicateNeedsMishap
  BroadcastCopies
PROPERTY HandedOff
