SPECIFICATION Spec
CONSTANTS
  Threads = {poll, processor}
  Quantities = {5, 15}
  MaxOrders = 2
  MaxCalls = 3
  MaxFrames = 3
CHECK_DEADLOCK FALSE
INVARIANTS
  CallsUndisturbed
  AnswersAreTrue
  TradesInOrder
  DisconnectLeavesNothing
PROPERTIES
  DisconnectReturns
