SPECIFICATION Spec
CONSTANTS
    ListElem = {1, 2, 3, 4, 5}
    Key <- MCKey
    HashKey = {1, 2, 3, 4}
    ElemCopy = {1, 2}
    HashOf <- MCHash
    MinBuckets = 1
    BestElems = 1
    ElemBits = 2
    BitCounts = {0, 3, 4}
    MemSize = 5
    Byte = {0, 1, 2}
    Delim = 2
    Widths <- MCWidths
    Precisions <- MCPrec
    Values <- MCValues
    Bases = {8, 10, 16}
    Group = 2
    BufLen = 8
    BufSizes = {0, 1, 3, 9}
    PerLine = 4
    FileNames <- MCNames
    ForeignNames <- MCForeign
    Sizes = {0, 64, 127}
    ULONG_MAX = 255
    INT_MAX = 127
    FieldLen = 4
    W = 4
    ArrayLen = 5
    ArrayVals = {1, 2, 3, 4}
    MinInt <- MCMinInt
    MaxInt = 127
    FirstLoops = 4
    RefineBits = 3
    Keys = {30, 3, 83, 58, 42, 54, 56, 57373}
    ROW_CNT = 2
    COL_CNT = 3
    TabStop = 2
    Glyph = {"a", "b"}
    MaxText = 5
    ArcName = {"f", "g"}
    NoName = "-"
    ScratchSize = 8
    Archives <- MCArchives
    MaxActions = 6
    Space = {s1, s2}
    PFrame = {1, 2, 3, 4}
    NoFrame = NoFrame
    KernelDir = KernelDir
    Tables = 2
    PerTable = 1
    MaxTouch = 1
    Wrap = 256
    PhysBase = 128
    PGSIZE = 32
    UserPages = 3
    ArgvSize = 3
    Programs <- MCPrograms
    AddrWrap = 128
    KernelBase = 64
    PageBytes = 8
    MaxStr = 11
    Layouts <- MCLayouts
    Pointers = {0, 7, 8, 12, 15, 22, 24, 60, 63, 64, 127}
    Lengths = {0, 1, 3, 9, 10, 11, 127}
    Stacks = {0, 6, 8, 14, 20, 21, 52, 56, 62, 64, 126}
    OpenFds = {2}
    LineChars = {"a", " ", "'", "dq", "bs"}
    MaxLine = 5
    NMax = 6
    Job = {j1, j2}
    NoJob = NoJob
    Words = {"w", ">", "&"}
    MaxWords = 2
    MaxKeyStrokes = 2
    Sectors = 9
    BlockBytes = 2
    Slots = 2
    FsName = {"a", "b"}
    FsSize = {0, 1, 3}
    FsValue = {1, 2}
    FsFile = {f1, f2}
    NoEntry = NoEntry
    MaxFsOps = 5
    META_SIZE = 2
    PointerSize = 2
    HeapMax = 30
    NegativeFrom = 27
    SizeWrap = 64
    ReqSize = {0, 1, 2, 7}
    MaxMmCalls = 5
    MaxRequest = 5
    BuffLen = 2
    FileSizes = {0, 2, 3}
    IntrThread = {x1, x2}
    FirstThread = x1
    Irq = {0, 4, 14}
    Spurious = {7, 15}
    Internal = {14, 48}
    Registrations <- MCRegistrations
    MaxRaise = 2
    MaxNest = 2
CHECK_DEADLOCK FALSE
INVARIANTS
    
    NumbersRight
    
    TablesSound
    
    InterruptsSound
    StockSound
    HeapSound
    
PROPERTIES
    
    TerminalRight
