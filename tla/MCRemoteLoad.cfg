CONSTANTS
  Procs = {p1, p2}
  MaxVersion = 2
  None = None
VIEW Relevant
SYMMETRY ProcSymmetry
SPECIFICATION Spec
INVARIANTS
  UncachedIsCurrent
  NeverOlderThanCatalog
PROPERTIES
  ValidatedIsCurrent
  HitIsComplete
