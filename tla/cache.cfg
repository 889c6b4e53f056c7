SPECIFICATION FairSpec
INVARIANTS
  TypeOK
  HistoricalSound
  PendingIsLive
  OwnAnswersAreRight
PROPERTIES
  LatestNeverGoesBack
  ServedLatestIsRecent
  EveryLookupReturns
CONSTANTS
  Lookups = {l1, l2, l3}
  None = None
  MaxEntries = 1
  Ttl = 1
  MaxHeight = 2
  MaxTime = 2
  MaxLatency = 1
CHECK_DEADLOCK FALSE
