CONSTANTS
  Q = 3
  Others = 1
  MaxOrders = 8
  MaxFaults = 4
  Scenarios = {{"timeout", "reject", "expire", "quote", "reprice", "kill", "update"}, {"partial"}, {"partial", "update"}, {"crash", "timeout", "reject", "expire", "quote", "reprice", "kill", "update"}}
  Paths = {p1}
  Names = {p1}
  NameOf <- MCNameOf
  LaneSize = 1
  NoPath = NoPath
  MaxPresses = 1
  MaxCloses = 2
  MaxUpdates = 1
  MaxFails = 1
  MaxRestarts = 1
SPECIFICATION SideFairSpec
INVARIANTS OrdersSound CommandsSound
PROPERTIES ImplementsLifecycle LongChaseEnds NoBreachAfterClaim ClaimedCloseIsRetried
CHECK_DEADLOCK FALSE
