\* Progress: as many threads as entries, so that one entry is always unpinned
\* when a thread looks for a victim. One byte value: progress does not depend
\* on the data.
CONSTANTS
    Thread = {t1, t2}
    Block = {b1, b2, b3}
    UNALLOCATED = hole
    None = None
    Zero = z
    Cell = {0}
    CACHE_SIZE = 2
    Value = {z}
    Extent <- WholeExtent
    Buffer <- FillBuffer
SPECIFICATION FairSpec
PROPERTIES
    CacheProgress
