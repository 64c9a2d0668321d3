\* One product, three turns, one of them lost; prices change, the product goes.
SPECIFICATION Spec
CONSTANTS
  p1 = p1
  p2 = p2
  Product = {p1}
  Customer = {anonymous, named}
  Identified = {named}
  NewCustomer = anonymous
  Catalog <- Catalogs
  MaxQuantity = 2
  MaxTurns = 3
  MaxCrashes = 1
INVARIANTS
  TypeOK
  SessionsBound
  IssuedAsConfirmed
PROPERTIES
  ConfirmationsKept
  ChangesRevoke
  TurnsKeepBoundary
  IssuesAsPromised
