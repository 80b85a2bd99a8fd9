CONSTANTS
  Names = {1, 2, 3, 4, 5, 6}
  MaxRank = 5
  Examples = 2
  AltExamples = 3
  AltPowered = 4
  Powered = 5
  Official = 6
  PoweredRank = 1
  ExamplesRank = 3
  Patterns = {"LANG"}
  Permitted = {"LANG"}
  Given <- MCGiven
  Edits <- MCEdits
  HandWritten <- MCHandWritten
  Named = {1, 2, 3, 5, 6}
  Located = {"powered", "examples", "other"}
  FirstRanks = {1, 2, 3}
  MaxSources = 2
  MaxTasks = 2
  Unset = Unset
  Absent = Absent
  Unranked = Unranked
  None = None
SPECIFICATION MCSpec
CHECK_DEADLOCK FALSE
INVARIANTS
  Registered
  UserRegistriesKept
PROPERTIES
  Repeatable
  NoUnaskedGrant
  SetKeepsTheRest
