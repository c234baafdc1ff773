SPECIFICATION PaymentsSpec
CONSTANTS
  new = new
  product = product
  NewListings = {new}
  UsedListings = {}
  ProductOf <- MCProductOf
  OpeningStock <- MCOpeningStock
  MaxStock = 1
  OrderIds = {o1}
  Requests = {r1}
  Keys = {}
  NoKey = NoKey
  ReservationTTL = 1
  MaxQuantity = 1
  MaxTime = 1
  Providers = {"PAYPAL"}
  Calls = {c1, c2}
SYMMETRY MCSymmetry
PROPERTIES
  LatePaymentFlagged
