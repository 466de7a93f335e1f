SPECIFICATION FairSpec
CONSTANTS
  None = None
  s1 = s1
  s2 = s2
  i1 = i1
  i2 = i2
  Services = {s1, s2}
  Incidents = {i1, i2}
  Threshold = 2
  SuccessesToClose = 2
  Cooldown = 1
  RerouteTtl = 1
  EventCap = 2
  MaxFailures = 3
INVARIANTS
  TypeOK
  BreakerConsistent
  RerouteRestartsCooldown
  IncidentsComplete
PROPERTIES
  ContractSpec
  Recovers
