CONSTANTS
  Hubs = {h1}
  Browsers = {b1}
  Topics = {"service.health"}
  Services = {"data-service"}
  Scores = {40, 95}
  Missing = missing
  Malformed = malformed
  Nobody = nobody
  BufferCap = 2
  TopicCap = 2
  HubKills = 0
SPECIFICATION DashboardSpec
INVARIANT NodeTurnsRed
