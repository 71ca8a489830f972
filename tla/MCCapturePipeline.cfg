SPECIFICATION PipelineSpec
CONSTANTS
  RingSize = 2
  Depth = 2
  MaxFrames = 4
  MaxInits = 2
  Lag = 1
INVARIANTS
  NoWriteWhileReading
  NothingLeftBehind
PROPERTIES
  KeyframeCarriesHeader
  ImplementsChannel
CHECK_DEADLOCK FALSE
