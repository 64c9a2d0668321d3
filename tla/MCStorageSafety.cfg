SPECIFICATION Spec
CONSTANTS
  r1 = r1
  r2 = r2
  r3 = r3
  i1 = i1
  i2 = i2
  Run = {r1, r2, r3}
  Id = {i1, i2}
  None = None
  MaxFaults = 1
  MaxCancels = 2
SYMMETRY Interchangeable
INVARIANTS
  TypeOK
  NothingLeft
PROPERTIES
  KeepsArtifacts
