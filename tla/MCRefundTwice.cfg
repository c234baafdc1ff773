SPECIFICATION RefundsSpec
CONSTANTS
  RefundIds = {f1, f2}
  PaymentAmount = 2
  RefundProviders = {"STRIPE"}
  RefundCalls = {c1, c2}
SYMMETRY MCSymmetry
INVARIANTS
  AccountsMatchRefunds
CHECK_DEADLOCK FALSE
