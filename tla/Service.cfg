CONSTANTS
  s1 = s1
  s2 = s2
  k1 = k1
  k2 = k2
  Process = {p1, p2}
  Daemon = {p1}
  Source = {s1, s2}
  Kind = {k1, k2}
  Disabled <- MCDisabled
  Filters <- MCFilters
  Concurrency = 2
  MQTT = {s1}
  MaxFaults = 1
  Nobody = Nobody
SPECIFICATION FairSpec
INVARIANTS
  TypeOK
  MutexHeldByWorker
  LedgerHasOneOwner
  SyncTellsTheTruth
PROPERTIES
  ShutdownEnds
  EverySourceCrawled
