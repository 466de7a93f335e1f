SPECIFICATION Spec
CHECK_DEADLOCK FALSE
CONSTANTS
  None = None
  a1 = a1
  a2 = a2
  r1 = r1
  r2 = r2
  Alerts = {a1, a2}
  Malformed = Malformed
  Requests = {r1, r2}
  HistoryCap = 2
  TopicCap = 2
  Kills = 1
INVARIANT AlertsDurable
