SPECIFICATION VideoSpec
CONSTANTS
  c1 = c1
  c2 = c2
  Clients <- Connections
  MaxGen = 4
INVARIANTS
  NoCallIntoFreedPipeline
  OneThreadInside
PROPERTIES
  RestartEnds
  OldTasksEnd
CHECK_DEADLOCK FALSE
