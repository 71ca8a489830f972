SPECIFICATION VideoSafety
CONSTANTS
  c1 = c1
  c2 = c2
  Clients <- Connections
  MaxGen = 4
INVARIANTS
  StopWaitsForCalls
CHECK_DEADLOCK FALSE
