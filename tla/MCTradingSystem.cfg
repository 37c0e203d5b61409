SPECIFICATION Spec
CONSTANTS
  A = A
  B = B
  Momentum = Momentum
  Weighted = Weighted
  Symbols <- MCSymbols
  SymbolList <- MCSymbolList
  Strategies = {Momentum, Weighted}
  Size <- MCSize
  Orders <- MCOrders
  Limits <- MCLimits
  StartBalance = 10
  Low = 1
  High = 2
  MaxSignals = 4
INVARIANTS
  ExposureCoversCash
  CashOvershoot
  SellsOnlyOwnLot
