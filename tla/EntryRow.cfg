CONSTANTS Qty = 2
 Attempts = 3
 MaxOrders = 5
 MaxFaults = 2
 Kinds = {"meic", "manual", "butterfly"}
 Scenarios = {{"race","drop"}, {"crash","refuse","reset","latch","unseen"}, {"blind","legs","noise","unseen"}, {"lost"}}
SPECIFICATION Spec
INVARIANTS RowSound
PROPERTIES ImplementsOpening FullFillOpens
CHECK_DEADLOCK FALSE
