\* Programs that may exit without waiting.
CONSTANTS
    Proc = {main, p1, p2, p3}
    Main = main
    Code = {7}
    NoProc = NoProc
    NoCode = NoCode
SPECIFICATION Spec
INVARIANT NoUseAfterFree
CHECK_DEADLOCK FALSE
