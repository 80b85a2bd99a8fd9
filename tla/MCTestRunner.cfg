CONSTANTS
  Bases = {1, 2}
  Exts = {1, 2}
  NotGiven = NotGiven
  Bad = Bad
  Metas <- MCMetas
  TestMolds <- MCMolds
SPECIFICATION TestSpec
CHECK_DEADLOCK FALSE
INVARIANTS
  CasesIndependent
  GreenIsTested
