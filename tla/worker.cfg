SPECIFICATION FairSpec
CONSTANTS
    Task = {t1, t2}
    SameThread = {t2}
    StopTask = stop
    NoTask = none
    OtherWorkers = TRUE
    MaxFibers = 2
    MaxTime = 1
    MaxWaits = 2
    Notifiers = 1
CHECK_DEADLOCK FALSE
INVARIANTS
    FiberPlacement
    CountersInSync
    WaitingInSync
    TaskPlacement
    NoLostWakeup
    NoLostNotify
    StoppedMeansDrained
PROPERTIES
    ImplementsFiberScheduler
    TimedWaitReturns
    TasksFinish
    StopReturns
