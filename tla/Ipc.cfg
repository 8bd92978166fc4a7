CONSTANTS
  c1 = c1
  c2 = c2
  Nobody = Nobody
  Callers = {c1, c2}
  Payloads <- ConstPayloads
  FastMsgMax = 1
  Capacities = {0, 2}
  MaxChannels = 2
  MaxSends = 3

SPECIFICATION Spec

INVARIANTS
  UniqueIds

PROPERTIES
  StatsConsistent
  ImplementsChannels
