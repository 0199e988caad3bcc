CONSTANTS
  MaxTrades = 2
  Rounds = 1
  DrmaFaults = 1
  DrmaScenarios = {{"refuse", "query", "deaf", "gap"}, {"crash"}, {"paper", "switch"}, {"slow"}, {"paper", "evening", "one", "crash"}}
SPECIFICATION DrmaSpec
INVARIANTS SleevesSound
PROPERTIES FilledIsBooked
CHECK_DEADLOCK FALSE
