CONSTANTS
  Days = 2
  Instances = 3
  MaxFaults = 3
  Scenarios = {{"press", "crash", "panel"}, {"press", "kill", "closed", "fomc"}, {"raise", "kill", "disable", "oneday"}, {"overnight", "crash", "raise"}}
SPECIFICATION Spec
INVARIANTS ProcessesInStep EntriesOnTradingDays
PROPERTIES Attended
CHECK_DEADLOCK FALSE
