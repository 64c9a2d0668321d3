SPECIFICATION Spec
CONSTANTS
  m1 = m1
  m2 = m2
  m3 = m3
  b1 = b1
  b2 = b2
  Message = {m1, m2, m3}
  Unclaimable = {m3}
  Batch = {b1, b2}
  Attempt = {1, 2}
  Posted <- MCPosted
  Nobody = Nobody
  MaxFaults = 2
INVARIANTS
  TypeOK
  NothingHidden
  AcknowledgedIsComplete
  EarlierComplete
PROPERTIES
  ServedUnlessBlocked
