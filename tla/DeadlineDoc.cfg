SPECIFICATION Spec
CONSTANTS
  g1 = g1
  g2 = g2
  j1 = j1
  j2 = j2
  j3 = j3
  None = None
  Goroutine = {g1, g2}
  Runtime = {j1, j2}
  MaxCalls = 3
INVARIANT
  OnlyOwnDeadline
CHECK_DEADLOCK FALSE
