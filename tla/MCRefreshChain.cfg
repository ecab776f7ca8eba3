SPECIFICATION Spec
CONSTANTS
  Ids = {r1, r2, r3, r4}
  None = None
INVARIANTS
  TypeOK
  NoFork
  SettledHaveSuccessor
CHECK_DEADLOCK FALSE
