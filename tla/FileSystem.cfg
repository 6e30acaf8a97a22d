SPECIFICATION Spec
CONSTANTS
    NSectors = 10
    BlockUnits = 3
    Direct = 1
    PerBlock = 1
    Path <- SomePaths
    Size = {0, 4}
    FdLimit = 4
    LongName = "long"
    MaxCalls = 4
CHECK_DEADLOCK FALSE

    
PROPERTIES
    CallsInPlace
