CONSTANTS
  Kinds <- MCKinds
  Recursive = {"systems"}
  Id = {"a", "b"}
  Landings <- MCLandings
  Form <- MCForm
  Threshold = 2
  MaxChanges = 2
  MaxEvents = 1
  Absent = Absent
SPECIFICATION FairSpec
INVARIANTS
  TypeOK
  RecordHasRow
PROPERTIES
  LateEventsAside
  KindConverges
  WritesEnd
