SPECIFICATION FairSpec
CONSTANTS
    Counts = {2}
    MaxCount = 2
    Client = {c1}
    Task = {t1}
    SameThread = {}
    NoTask = none
    Nobody = nobody
    Slots = 2
    IndexMod = 2
CHECK_DEADLOCK FALSE
PROPERTY
    DestructorReturns
