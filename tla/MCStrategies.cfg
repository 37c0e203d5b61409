SPECIFICATION Spec
CONSTANTS
  OneSymbol = {"a"}
  TwoSymbols = {"a", "b"}
  MaxEntries = 2
  MaxRejections = 1
  WeightedPrices = {9, 10, 11, 12}
  Indicators <- MCIndicators
  WeightSets <- MCWeightSets
  EntryThreshold = 6000
  ExitThreshold = 3000
  StopPct = 10
  TakeProfitPct = 20
  MaxHold = 1
  Window = 3
  Enough = 2
  VwapPrices = {9, 10, 11}
  VwapVolumes = {0, 1}
  MaxVolume = 3
  EnhancedPrices = {100, 105, 400}
  EnhancedVolumes = {1, 2}
  Results <- MCResults
  Capital = 2600
  HalfSize = 2
  MinReturns = 2
  KeepReturns = 2
CHECK_DEADLOCK FALSE
INVARIANTS
  TypeOK
  SizesBounded
PROPERTY
  LotsKept
