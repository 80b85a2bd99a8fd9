CONSTANTS
  Index <- MCIndex
  FieldNames = {"a", "b"}
  NoAnswer = NoAnswer
  MaxItems = 4
  Trees <- MCTrees
  MaxPath = 3
SPECIFICATION HelpersSpec
CHECK_DEADLOCK FALSE
INVARIANTS
  IterHelpersAgree
  PathHelpersAgree
