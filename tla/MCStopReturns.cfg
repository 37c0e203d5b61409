SPECIFICATION FairSpec
CONSTANTS
  A = A
  B = B
  Symbols <- MCSymbols
  Orders <- MCOrders
  Limits <- MCLimits
  Signals <- MCSignals
  Balances <- MCBalances
  LossyReplies = FALSE
  MaxSignals = 1
CHECK_DEADLOCK FALSE
PROPERTIES
  StopReturns
