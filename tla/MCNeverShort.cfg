SPECIFICATION Spec
CONSTANTS
  A = A
  B = B
  Symbols <- MCSymbols
  Orders <- MCOrders
  Limits <- MCLimits
  Signals <- MCSignals
  Balances <- MCBalances
  LossyReplies = FALSE
  MaxSignals = 3
CHECK_DEADLOCK FALSE
INVARIANTS
  NeverShort
