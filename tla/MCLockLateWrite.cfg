SPECIFICATION Spec
CONSTANTS
  t1 = t1
  t2 = t2
  Task = {t1, t2}
  Generator = {}
  Free = Free
  Orphan = Orphan
  MaxCalls = 2
  MaxFaults = 2
  MaxLateWrites = 1
  MaxExpiries = 0
SYMMETRY Interchangeable
PROPERTIES
  EverySaveKeeps
