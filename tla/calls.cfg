SPECIFICATION CallsSpec
CONSTANTS
    Caller = {p1, p2}
    NoOne = none
    Sources = 2
    MaxEvents = 4
    MaxArgs = 2
    Calls = 2
    Task = {t1, t2, t3}
    Owner = owner
INVARIANTS
    DepsAreTold
    SchedulerOutlivesCalls
    ReturnsAfterThread
PROPERTIES
    SignalsReturn
    CallsReturn
