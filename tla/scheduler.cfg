SPECIFICATION FairSpec
CONSTANTS
    Counts = {0, 1, 2}
    MaxCount = 2
    Client = {c1}
    Task = {t1, t2, t3}
    SameThread = {t2}
    NoTask = none
    Nobody = nobody
    Slots = 2
    IndexMod = 2
CHECK_DEADLOCK FALSE
INVARIANTS
    TypeOK
    TaskConservation
    DestroyedWhenDone
PROPERTIES
    ImplementsTaskPool
    TasksRun
    LoneDestructorReturns
