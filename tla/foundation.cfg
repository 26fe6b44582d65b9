SPECIFICATION Spec
CONSTANTS
    Thread = {t1, t2}
    Type <- Types
    MaxArray = 2
    DeleterForAll = FALSE
    MallocAlign = 2
    PtrSize = 1
    PageSize = 4
    MemSize = 20
    MaxHeld = 2
    Vec = {v1, v2}
    Value = {d, a}
    Default = d
    Raw = raw
    BaseCapacity = 1
    MinCapacity = 3
    MaxSize = 5
    MaxPushed = 3
    MinGrow = 3
    MaxEntries = 6
    NumCores = 3
    Mask <- EvenCores
    NumWorkers = 3
    MaxArgs = 2
    MaxCores = 4
    OSFibers = {"fiberA", "fiberB"}
    Root = "root"
    StackOf <- Stacks
    StackSize = 64
    SizeLimit = 128
    CalleeSaved = {"RBX"}
    RegValue = {z, x}
    MaxFrames = 1
SYMMETRY Symmetry
INVARIANTS
    PayloadIsOwn
    StatsAreTrue
    ReleasesBlocks
    HoldsWhatItShould
    ListIsRight
    ThreadsAreOwned
    FiberIsIntact
PROPERTIES
    AffinityIsRight
CHECK_DEADLOCK FALSE
