SPECIFICATION AccessSpec
CONSTANTS
  p1 = p1
  p2 = p2
  p3 = p3
  n1 = n1
  n2 = n2
  Paths = {p1, p2, p3}
  Names = {n1, n2}
  NameOf <- MCNameOf
  Workers = {w1, w2, w3}
  None = None
  MaxJobs = 2
  LaneSize = 1
  Callers = {exit, entry, poll}
  High = {exit}
  Normal = {entry}
  Burst = 1
  Period = 2
  Memory = 2
  Stale = 2
  MaxCalls = 3
  MaxFaults = 1
INVARIANTS PoolSound CeilingHeld
PROPERTIES JobsEnd ImplementsRegistry CallsServed
