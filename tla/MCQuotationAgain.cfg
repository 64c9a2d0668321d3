\* A preview after a generated quotation.
SPECIFICATION Spec
CONSTANTS
  p1 = p1
  p2 = p2
  Product = {p1}
  Customer = {anonymous, named}
  Identified = {named}
  NewCustomer = anonymous
  Catalog <- OneCatalog
  MaxQuantity = 1
  MaxTurns = 3
  MaxCrashes = 0
INVARIANT ConfirmedPreviewIsGenerable
