SPECIFICATION MCSpec
CONSTANTS
  Listings = {a, b}
  OrderIds = {1, 2}
  MaxQuantity = 2
  Requests = {r1, r2}
  SessionIds = {1}
  Credentials = {1, 2, 3}
  Tokens = {1, 2}
  VerificationTokens = {1, 2, 3}
  AddressIds = {1, 2}
  Emails = {e1, e2}
  SignupEmail = e1
  None = None
INVARIANTS
  AllocatedWithinCart
  TaskMatchesOutcome
  CredentialRotatesOnce
  OneDefaultPerRole
PROPERTIES
  QueuedIsSettled
  ActsLikeIntent
  LogoutEndsSession
  DeletedStaysOut
  VerifiedIsCurrent
CHECK_DEADLOCK FALSE
