SPECIFICATION MachSpec
CONSTANTS
    DiskThread = {t1, t2}
    NoThread = none
    DiskSector = {s1}
    DiskValue = {0, 1}
    DiskOps = 2
    MaxSpurious = 1
    Wrap = 8
    MaxCapacity = 6
    BootInputs <- MCInputs
    MaxFrames = 4
    Reader = {r1, r2}
    Writer = {w1, w2}
    NoOne = none
    BufSize = 3
    LineLen = 2
    MaxKeys = 2
    MaxReads = 1
    MaxIntr = 1
    MemThread = {m1, m2, m3}
    Nobody = none
    RamPages = {5, 6}
    BitsPerPage = 4
    UserLimit = 3
    PerArena = 2
    MaxAllocs = 1
CHECK_DEADLOCK FALSE
INVARIANTS
    DiskSound
    
    
    MemorySound
PROPERTIES
    MachineAnswers
