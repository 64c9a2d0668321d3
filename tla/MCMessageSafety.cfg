\* One message, three overlapping deliveries, up to three faults and one expiry.
SPECIFICATION Spec
CONSTANTS
  Worker = {w1, w2, w3}
  NoOwner = NoOwner
  Message = {m1}
  Unsupported = {}
  MaxFaults = 3
  MaxEvictions = 1
SYMMETRY RunSymmetry
INVARIANTS
  TypeOK
  AtMostOnceDelivery
  OneCallerPerMessage
  CompleteMeansDelivered
  StoredRecordsValid
  RerunsNeedFaults
PROPERTIES
  RecordsAdvance
  ReopenedOnlyIfNotAccepted
  DeliversReplies
