CONSTANTS
  MaxFlies = 2
  Spots = {20, 27, 40}
  Widths = {8}
  FirstWidth = 20
  Credits = {4, 9}
  MaxAttempts = 2
  MaxMoves = 2
  MaxFaults = 1
  Scenarios = {
    {"sweepcut", "breaker", "reject", "refuse", "gate"},
    {"slow", "query"},
    {"paper", "breaker", "error", "blind"},
    {"crash", "reject", "error"},
    {"approve"}}
  NoFly = NoFly
SPECIFICATION FairSpec
INVARIANTS FliesSound
PROPERTIES ClosedForGood EveryFlyEnds
CHECK_DEADLOCK FALSE
