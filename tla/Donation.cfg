SPECIFICATION Spec
CONSTANTS
    Thread = {t1, t2, t3}
    Main = t1
    Idle = idle
    Lock = {1, 2}
    Priority = {1, 2}
    MayPreempt = TRUE
    NoLock = nolock
    NewPriority = {1, 2}
SYMMETRY Others
CHECK_DEADLOCK FALSE
INVARIANTS
    LocksSound
    
