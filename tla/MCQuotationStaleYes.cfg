\* A confirmation written upon an earlier preview than the one it meets.
SPECIFICATION Spec
CONSTANTS
  p1 = p1
  p2 = p2
  Product = {p1}
  Customer = {anonymous, named}
  Identified = {named}
  NewCustomer = anonymous
  Catalog <- OneCatalog
  MaxQuantity = 2
  MaxTurns = 3
  MaxCrashes = 0
INVARIANT StaleConfirmationsRefused
