SPECIFICATION HttpSpec
CONSTANTS
    Worker = {w1, w2}
    Main = main
    Conn = {c1, c2, c3, c4}
    MaxFd = 5
    Command <- AnyCommand
    Target = target
    None = none
    BuffSize = 2
    ClientSends = 1
    TargetSends = 2
CHECK_DEADLOCK FALSE
INVARIANTS
    DescriptorsOwned
    NoSleeperWithWork
PROPERTIES
    HeadPopped
    
