SPECIFICATION FairSpec
CONSTANTS
  Threads = {t1, t2, t3}
  Results <- MCResults
  LossLimit = 2
  MaxDailyTrades = 3
  Day = 2
  MaxPnl = 3
INVARIANTS
  TrippedStaysShut
  TripExplained
  TradeCountBounded
PROPERTIES
  TripIsTemporary
