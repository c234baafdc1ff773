SPECIFICATION FairRefundsSpec
CONSTANTS
  RefundIds = {f1, f2}
  PaymentAmount = 2
  RefundProviders = {"STRIPE", "MANUAL"}
  RefundCalls = {c1}
PROPERTIES
  RefundLearned
CHECK_DEADLOCK FALSE
