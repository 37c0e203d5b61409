SPECIFICATION Spec
CONSTANTS
  Exchanges = {"mock", "alpaca"}
  MaxSignals = 3
  MaxQueue = 2
CHECK_DEADLOCK FALSE
INVARIANTS
  TicksFindStrategies
PROPERTIES
  InterruptEnds
