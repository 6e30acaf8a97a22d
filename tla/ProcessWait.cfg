\* Main and three processes; when
\* all of them have run nothing is left to do.
CONSTANTS
    Proc = {main, p1, p2, p3}
    Main = main
    Code = {7}
    NoProc = NoProc
    NoCode = NoCode
SPECIFICATION FairSpec
CHECK_DEADLOCK FALSE
INVARIANTS
    StatusShared
PROPERTIES
    WaitEnds
