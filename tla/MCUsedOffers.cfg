SPECIFICATION Spec
CONSTANTS
  new = new
  product = product
  NewListings = {new}
  UsedListings = {u1, u2}
  ProductOf <- MCProductOf
  OpeningStock <- MCOpeningStock
  MaxStock = 1
  OrderIds = {o1, o2}
  Requests = {r1}
  Keys = {}
  NoKey = NoKey
  ReservationTTL = 1
  MaxQuantity = 1
  MaxTime = 0
SYMMETRY MCSymmetry
INVARIANTS
  PendingConfirmable
  UsedOfferConsistent
