CONSTANTS
  s1 = s1
  s2 = s2
  s3 = s3
  s4 = s4
  bad = bad
  h1 = h1
  h2 = h2
  h3 = h3
  None = None
  Capacity = 2
  Callers = {c1, c2}
  Invalid = {bad}
  Sources <- MCSources
  Keys <- MCKeys
  Values <- MCSources
  Hash <- MCHash
SPECIFICATION Spec
INVARIANTS
  CacheWellFormed
  Lossless
  EvictsLeastRecent
