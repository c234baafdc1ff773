SPECIFICATION PurchasesSpec
CONSTANTS
  product = product
  d1 = d1
  d2 = d2
  NewListings = {new}
  UsedListings = {}
  ProductOf <- MCProductOf
  OpeningStock <- MCOpeningStock
  MaxStock = 3
  ItemIds = {1, 2, 3}
  Docs = {d1, d2}
  DocOf <- MCDocOf
  ExternalIdOf <- MCExternalIdOf
  NoExternalId = NoExternalId
  SetNumbers = {s}
  NoSetNumber = NoSetNumber
  NoListing = NoListing
  LineCosts <- MCLineCosts
  Extras <- MCExtras
  MaxQuantity = 2
  UnitCosts = {2}
INVARIANTS
  ReceiptsMatchMovements
  CostsReconcile
PROPERTIES
  ReceivedHistoryKept
CHECK_DEADLOCK FALSE
