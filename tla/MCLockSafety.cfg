\* A sender's tasks and a development request; one save may be late.
SPECIFICATION FairSpec
CONSTANTS
  t1 = t1
  t2 = t2
  g1 = g1
  Task = {t1, t2}
  Generator = {g1}
  Free = Free
  Orphan = Orphan
  MaxCalls = 3
  MaxFaults = 2
  MaxLateWrites = 1
  MaxExpiries = 1
INVARIANTS
  TypeOK
  ReturnedUpdatesStored
PROPERTIES
  UpdatesKept
  LockReturns
