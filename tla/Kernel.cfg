SPECIFICATION KernSpec
CONSTANTS
 MainThread = main
 IdleThread = idl
 Worker = {k1, k2}
 NoThd = none
 TIME_SLICE = 2
 NapTicks = 2
 MaxTid = 4
 MaxCalls = 2
 MaxDevice = 1
CHECK_DEADLOCK FALSE
INVARIANTS
    KernelSound
PROPERTIES
    ReadyRuns
