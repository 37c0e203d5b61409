SPECIFICATION FairSpec
CONSTANTS
  A = A
  B = B
  Symbols <- MCSymbols
  Orders <- MCOrders
  Limits <- MCLimits
  Signals <- MCSignals
  Balances <- MCBalances
  LossyReplies = TRUE
  MaxSignals = 3
CHECK_DEADLOCK FALSE
INVARIANTS
  InductiveInvariant
  OrderAccounting
  ExposureOvershoot
  TradesOvershoot
  SerialLimits
  SerialBooksMatch
  BooksNeverUnderstate
  AtMostOneLateOrder
PROPERTIES
  NothingAfterStop
  ImplementsGateway
  StopReturnsIfHeard
