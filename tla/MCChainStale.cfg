CONSTANTS
  StaticSteps = 2
  MaxDynamicSteps = 1
  MaxHostCalls = 2
  Args = {a1}
  Codes = {c0}
  Formats = {json}
  Raw = raw
  Files = {f1}
  Junk = junk
  None = None
SPECIFICATION Spec
INVARIANT MutationMeetsItsTarget
