SPECIFICATION Spec
CONSTANTS
  new = new
  product = product
  NewListings = {new}
  UsedListings = {}
  ProductOf <- MCProductOf
  OpeningStock <- MCOpeningStock
  MaxStock = 2
  OrderIds = {o1, o2}
  Requests = {r1, r2}
  Keys = {k1}
  NoKey = NoKey
  ReservationTTL = 1
  MaxQuantity = 2
  MaxTime = 1
SYMMETRY MCSymmetry
INVARIANTS
  TypeOK
  ReservedBacked
  NoOversell
  LedgerExplainsStock
  SalesMatchOrders
  PaidNeverExpires
  OneOrderPerKey
PROPERTIES
  TerminalOrdersStay
  KeepsPromise
