CONSTANTS
    LastDay = 5
    Holiday = 3
    Vintages = 2
    Lookback = 3
    PageRows = 1
    RowCap = 3
    SampleRows = 2
    MaxTasks = 1
    FinalDay = 6
    Holidays = {2, 4}
    TradingDays = 4
    BacktestRows = 2
    LookbackDays = 2
    Threads = {t1, t2}
    Fields = {f1, f2}
    t1 = t1
    t2 = t2
    f1 = f1
    f2 = f2
    MaxBridges = 2
    MaxWork = 2
    MaxScopes = 1
    MaxRounds = 1
    Paths = {"p", "q"}
    PathOrder <- MCPathOrder
    Library <- MCLibrary
    BatchSize = 2
    ModelLimit = 3
    TitleCost = 1
    MaxEdits = 1
    MaxIngests = 2
SPECIFICATION MCSpec
INVARIANTS TableIsTheUsers WorkflowsHold
PROPERTIES BridgeHolds LibraryHolds
CHECK_DEADLOCK FALSE
