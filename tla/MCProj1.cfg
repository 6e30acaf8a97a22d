SPECIFICATION ProjSpec
CONSTANTS
    Sleeper = {t1, t2, t3}
    MaxTicks = 5
    Sleep <- Durations
    t1 = t1
    t2 = t2
    t3 = t3
    None = none
    CvThread <- Three
    basePriority <- Priorities
    FIX_F = 4
    MlThread = {a, b}
    Idle = idle
    MlMain = a
    TIMER_FREQ = 2
    RankEvery = 2
    TIME_SLICE = 2
    LoadWindow = 2
    PRI_MAX = 6
    PRI_DEFAULT = 3
    NiceValues <- MCNices
    MaxNices = 1
    MaxBlocks = 2
CHECK_DEADLOCK FALSE
INVARIANTS
    SleepQueueRight
    
PROPERTIES
    Wakes
    CondVarRight
    EqualsShare
