SPECIFICATION FairSpec
CONSTANTS
  None = None
  s1 = s1
  s2 = s2
  a1 = a1
  a2 = a2
  p1 = p1
  p2 = p2
  c1 = c1
  Services = {s1}
  Addresses = {a1, a2}
  Probes = {p1, p2}
  Clients = {c1}
  Latencies = {1}
  RingSize = 1
  EventCap = 2
PROPERTY VerdictsConverge
