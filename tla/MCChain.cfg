CONSTANTS
  StaticSteps = 2
  MaxDynamicSteps = 2
  MaxHostCalls = 4
  Args = {a1}
  Codes = {c0, c1}
  Formats = {json}
  Raw = raw
  Files = {f1}
  Junk = junk
  None = None
SYMMETRY CodeSymmetry
SPECIFICATION Spec
INVARIANTS
  TypeOK
  StepsInSeries
  InjectionBounded
  MutationsOnlyAhead
  StaleOnlyAfterInsert
  ExitOfLatestStep
PROPERTY
  ImplementsSeries
