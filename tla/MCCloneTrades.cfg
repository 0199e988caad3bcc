SPECIFICATION Spec
CONSTANTS
    Trades = {t1, t2}
    Alerts = {t1}
    Qty = 4
    OwnLadder <- MCOwnLadder
    NewLadder <- MCNewLadder
    Never = 9
    Levels <- MCLevels
    MaxMoves = 3
    CloneMaxFaults = 2
    CloneScenarios = {{"crash", "working"}, {"clear", "crash"}, {"refuse", "paper"}, {"lost"},
                 {"slip", "edit", "resting"}, {"working", "noquote"}, {"take"}}
INVARIANTS AccountSound TradesKept
PROPERTIES StopHonoured
