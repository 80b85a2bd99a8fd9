CONSTANTS
  Bases <- MCBases
  Ext <- MCExt
  None = None
  Converted = Converted
  Invocations <- MCInvocations
  Worlds <- MCWorlds
  Targets <- MCTargets
  Requests = {"raw", "bad", "csv"}
  Codes = {"0", "2"}
SPECIFICATION Spec
CHECK_DEADLOCK FALSE
INVARIANTS
  StreamedWhole
  InputsSurvive
  CheckWritesNothing
  DoneMeansWritten
  OneOutputFormat
