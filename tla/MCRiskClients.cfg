SPECIFICATION Spec
CONSTANTS
  A = A
  B = B
  NoOrder = NoOrder
  Symbols <- MCSymbols
  Orders <- MCOrders
  Limits <- MCLimits
  Clients = {c1, c2}
  Balances <- MCBalances
  PnlChanges <- MCPnlChanges
  LimitChoices <- MCLimitChoices
  ExposureCap = 4
  OrderCap = 2
  TradesCap = 3
  MaxPnl = 2
INVARIANTS
  ExposureOvershootBounded
  TradesOvershootBounded
