CONSTANTS
  Qty = 3
  FileOrders = 5
  MaxEdits = 2
  FileFaults = 1
  FileScenes = {{"refuse"}, {"restart"}, {"unsaved"}}
  FillGrace = 1
  MaxAge = 1
  MaxSkew = 1
  Window = 1
  Required = 2
  StaleAfter = 2
  Threshold = 3
  Width = 5
  ShortPrices = {2, 5}
  LongPrices = {1}
  MaxTime = 3
  MaxQuotes = 4
  MaxWire = 1
  MaxFaults = 1
  Scenarios = {{"restart"}, {"cut"}, {"reboot", "late"}, {"replay", "press"}}
SPECIFICATION TradesSpec
INVARIANTS FilesSound NoFalseBreach 
PROPERTIES FilesKept
CHECK_DEADLOCK FALSE
