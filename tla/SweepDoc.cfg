SPECIFICATION Spec
CONSTANTS
  r1 = r1
  r2 = r2
  v1 = v1
  v2 = v2
  bad = bad
  x1 = x1
  x2 = x2
  y1 = y1
  p1 = p1
  p2 = p2
  e1 = e1
  e2 = e2
  h1 = h1
  h2 = h2
  None = None
  Loop = Loop
  Resource = {r1}
  Version = {v1, bad}
  Record = {x1}
  Profile = {p1}
  Handler = {}
  Event = {}
  Mapping <- MapOneProfile
  Subject <- AboutFirst
  Threshold = 2
  Concurrency = 2
  Commands = {"sync"}
  Limit <- LimitStore
INVARIANTS
  SweepOnlyAfterMisses
