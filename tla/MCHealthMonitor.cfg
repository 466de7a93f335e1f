SPECIFICATION Spec
CONSTANTS
  None = None
  s1 = s1
  s2 = s2
  a1 = a1
  a2 = a2
  p1 = p1
  p2 = p2
  c1 = c1
  Services = {s1, s2}
  Addresses = {a1}
  Probes = {p1, p2}
  Clients = {}
  Latencies = {1, 2}
  RingSize = 2
  EventCap = 3
SYMMETRY Symmetric
INVARIANTS
  TypeOK
  ScoreShowsLastSamples
  EventsAgreeWithScores
  OutagesAnnounced
