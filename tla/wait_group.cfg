SPECIFICATION FairSpec
CONSTANTS
    Fiber = {f1, f2}
    Thread = {t1}
    NoOne = none
    Initial = 1
    MaxAdds = 2
    MaxWaits = 1
CHECK_DEADLOCK FALSE
INVARIANTS
    ZeroIsAnnounced
PROPERTIES
    WaitReturns
