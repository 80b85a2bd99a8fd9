CONSTANTS
  Procs = {p1, p2}
  Names = {1, 2, 3}
  MaxRank = 2
  Official = 2
  Examples = 1
  ExamplesRank = 1
  MaxCommands = 2
  Unranked = Unranked
  None = None
SYMMETRY ProcSymmetry
SPECIFICATION Spec
CHECK_DEADLOCK FALSE
INVARIANTS
  RanksDistinct
  NothingLost
  CascadeIsTheLoop
PROPERTY OrderKept
