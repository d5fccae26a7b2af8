CONSTANTS
  Goroutine = {"g1", "g2"}
  Resource = {"full", "bare"}
  Described = {"full"}
  MaxOverlaid = 2
SPECIFICATION Spec
INVARIANTS
  TypeOK
  RecordIsIdeal
  HashTellsBody
  PanicNeedsOwnSection
CHECK_DEADLOCK FALSE
