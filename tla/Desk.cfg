SPECIFICATION Spec
CONSTANTS
    OtmMax = 4
    WidestDefault = 4
    Trades = {1, 2}
    Paper = {2}
    Levels = {3, 5}
    ShortK = 4
    LongK = 2
    Credit = 1
    MaxMoves = 2
    Extras = {"operator"}
    Asks = {r1, r2}
    Scenes = {"asks", "edits", "tranche"}
    MaxTicks = 2
    FadeScenes = {{"crash"}, {"toggle"}, {"desk"}, {"desk", "refuse"}, {"slow", "crash"}}
    FadeCrashAt = {"wait", "ask", "bounds", "watch", "cool", "hold", "quote", "close", "closed", "tidy", "end"}
    MaxSwitches = 3
    ModeScenes = {{"meic"}, {"meic", "crash"}, {"manual"}, {"fade"}, {"fade", "overlap"}, {"sleeves"}}
    MaxOrders = 7
INVARIANTS ScanSound RowsTrue PlanSound FadeOnFile ModesSound
PROPERTIES CloseSticks DayRemembered
CHECK_DEADLOCK FALSE
