CONSTANTS
  Gateways = {g1, g2}
  Redis = redis
  Default = default
  Tables = {custom, broken}
  Unusable = {broken}
  Unset = unset
  Attempts = 1
  PairCap = 2
  PutCap = 1
  KillCap = 1
  Hubs = {h1, h2}
  Browsers = {b1}
  Topics = {"healing.complete", "notification.sent"}
  Services = {"data-service"}
  Scores = {40}
  Missing = missing
  Malformed = malformed
  Nobody = nobody
  BufferCap = 1
  TopicCap = 2
  HubKills = 1
  Tenants = {ta, tb}
  Limbo = limbo
  Names = {nm}
  Blank = blank
  ProfileCap = 2
  DataTenants = {ta, tb}
  IdempotencyKeys = {k1, k2}
  NoHeader = none
  CommandCap = 3
SPECIFICATION FairSpec
CHECK_DEADLOCK FALSE
INVARIANTS
  PlatformTypeOK
  AcceptedStaysAccepted
  TableAsReported
  EmittedBeforeCommitted
PROPERTIES
  GatewaysComeUp
  KeysArrive
  EventsArrive
  DeletedIsFinal
  ChangedByItsTenant
  CommandLogSpec
