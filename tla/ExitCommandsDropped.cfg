SPECIFICATION CommandsSpec
CONSTANTS
  Paths = {p1}
  Names = {p1}
  NameOf <- MCNameOf
  LaneSize = 1
  NoPath = NoPath
  MaxPresses = 0
  MaxCloses = 1
  MaxUpdates = 0
  MaxFails = 0
  MaxRestarts = 0
INVARIANTS RefusedOnlyForOwner
