\* The machine stops once the power is off.
CONSTANTS
    Thread = {t1, t2}
    Block = {b1, b2, b3}
    UNALLOCATED = hole
    None = None
    Zero = z
    Cell = {0}
    CACHE_SIZE = 2
    Value = {z, a}
    Extent <- WholeExtent
    Buffer <- NonzeroBuffer
SYMMETRY Symmetry
SPECIFICATION ShutdownSpec
INVARIANT QuietShutdownPersists
CHECK_DEADLOCK FALSE
