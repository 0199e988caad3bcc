CONSTANTS
  Tranches = {t1}
  Slots = {s1}
  Workers = 1
  MaxFaults = 2
  Scenarios = {{"limited"}, {"restart", "error"}, {"newday", "error"}, {"startup"}, {"overlap"}}
SPECIFICATION FairSpec
INVARIANT TypeOK
PROPERTIES NoEntryOnTrouble LatchSticks NothingWaits
