\* Two threads, one entry more than none to spare: two entries, three sectors.
CONSTANTS
    Thread = {t1, t2}
    Block = {b1, b2, b3}
    UNALLOCATED = hole
    None = None
    Zero = z
    Cell = {0}
    CACHE_SIZE = 2
    Value = {z, a}
    Extent <- WholeExtent
    Buffer <- FillBuffer
SYMMETRY Symmetry
SPECIFICATION Spec
INVARIANTS
    RefCountExact
    OneEntryPerBlock
    MissLockFree
    CleanMatchesDisk
PROPERTIES
    LinearizableStore
