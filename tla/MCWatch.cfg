CONSTANTS
  Molds = {m1, m2}
  Input = input
  MaxEdits = 3
  MaxErrors = 1
  MaxPending = 2
  Beside = beside
  Apart = apart
  None = None
  Failed = Failed
SPECIFICATION Spec
CHECK_DEADLOCK FALSE
INVARIANTS
  NoChangeLost
PROPERTY ComesToRest
