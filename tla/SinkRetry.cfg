SPECIFICATION FairSpec
CONSTANTS
  c1 = c1
  x1 = x1
  x2 = x2
  None = None
  Never = Never
  Caller = {c1}
  Record = {x1, x2}
  Late = TRUE
INVARIANT
  TypeOK
PROPERTY
  KeepsPromise
  CallReturns
