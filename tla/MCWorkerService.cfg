SPECIFICATION FairSpec
CONSTANTS
  j1 = j1
  j2 = j2
  j3 = j3
  Jobs = {j1, j2, j3}
  Retries <- SmallRetries
  DateLimit = 38
INVARIANTS
  TypeOK
  PlacedAtMostOnce
  PlacedByStatus
  DepthExact
  AttemptsTell
PROPERTIES
  LifecycleSpec
  EveryJobEnds
