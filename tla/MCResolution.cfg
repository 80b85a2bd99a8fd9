CONSTANTS
  Names = {1, 2}
  MaxRank = 1
  Official = 1
  Examples = 2
  ExamplesRank = 1
  Unranked = Unranked
  None = None
  MaxEntries = 2
  MaxPlaces = 3
  Given <- MCGiven
SPECIFICATION Spec
CHECK_DEADLOCK FALSE
INVARIANTS
  NearestCarrier
  SilenceIsNoEvidence
  ShownRuns
