SPECIFICATION ModeSpec
CONSTANTS
  ModeScenes = {{"fade"}}
  MaxOrders = 7
INVARIANTS StampGoverns
CHECK_DEADLOCK FALSE
