SPECIFICATION FairSpec
CONSTANTS
  g1 = g1
  g2 = g2
  j1 = j1
  j2 = j2
  j3 = j3
  None = None
  Goroutine = {g1, g2}
  Runtime = {j1, j2, j3}
  MaxCalls = 3
INVARIANTS
  TypeOK
  OneGoroutinePerRuntime
  DeadlineStopsOneCall
PROPERTY
  CallsReturn
CHECK_DEADLOCK FALSE
