SPECIFICATION FairSpec
CONSTANTS
  Item <- TwoItems
  End = 3
  ByOffset = TRUE
  Mode = "auto"
  Threshold = 2
INVARIANTS
  TypeOK
  CompleteListsWhatStood
  SweepIsExcused
PROPERTY
  OnlyLinksKeepACrawl
