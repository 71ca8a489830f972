SPECIFICATION IddSpec
CONSTANTS
  Connectors <- TwoConnectors
  MaxAdapters = 1
  MaxChains = 2
  ModeCount = 3
  EdidCount = 2
INVARIANTS
  ThreadHasItsProcessor
  DeletedOnce
PROPERTIES
  ModesFitTheirBuffer
  CallbackReturns
CHECK_DEADLOCK FALSE
