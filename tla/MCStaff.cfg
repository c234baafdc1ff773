SPECIFICATION MCSpec
CONSTANTS
  RefundIds = {p1, p2}
  PaymentAmount = 2
  RefundProviders = {"STRIPE", "PAYPAL", "MANUAL"}
  RefundCalls = {h1, h2}
  Products = {p1, p2}
  Categories = {c1, c2}
  Files = {f1, f2, f3}
  NoCategory = NoCategory
  Absent = Absent
  None = None
  Handlers = {h1, h2}
  MaxImages = 2
SYMMETRY MCSymmetry
INVARIANTS
  RefundCapacityKept
  SucceededIsCounted
  ReservedForProcessing
  OutcomeIsTrue
  ExactWhenAlone
  ImagesInOrder
  FilesAccounted
PROPERTIES
  FeatureKept
CHECK_DEADLOCK FALSE
