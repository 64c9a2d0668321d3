\* Three messages in two requests, two faults; fairness.
SPECIFICATION FairSpec
CONSTANTS
  m1 = m1
  m2 = m2
  m3 = m3
  Message = {m1, m2, m3}
  Ahead <- TwoRequests
  Content = {empty, c1, c2}
  NewContent = empty
  Free = Free
  Orphan = Orphan
  MaxFaults = 2
CHECK_DEADLOCK FALSE
INVARIANTS
  TypeOK
  UncertainHasCause
PROPERTIES
  KeepsBoundary
  DeliveredBecomesConfirmable
  MessagesSettle
