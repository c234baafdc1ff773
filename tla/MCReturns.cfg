SPECIFICATION ReturnsSpec
CONSTANTS
  new = new
  product = product
  NewListings = {new}
  UsedListings = {u1}
  ProductOf <- MCProductOf
  OpeningStock <- MCOpeningStock
  MaxStock = 2
  OrderIds = {o1}
  Requests = {r1}
  Keys = {}
  NoKey = NoKey
  ReservationTTL = 1
  MaxQuantity = 2
  MaxTime = 0
  ReturnIds = {t1, t2}
  AnyOrder = AnyOrder
SYMMETRY MCSymmetry
INVARIANTS
  ReturnsBacked
  SalesMatchReturns
