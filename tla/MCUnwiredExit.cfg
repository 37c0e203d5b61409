SPECIFICATION FairSpec
CONSTANTS
  Prices <- MCPrices
  TakeProfitPct = 20
  StopPct = 10
  MaxHold = 1
  Window = 2
  CallbacksWired = FALSE
  MaxEntries = 2
  MaxRejections = 2
PROPERTIES
  ExitIsResolved
