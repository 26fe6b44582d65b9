SPECIFICATION ClientSpec
CONSTANTS
    Fiber = {f1, f2, f3}
    Thread = {}
    NoOne = none
    TimedModes = {}
    MaxItems = 2
    Calls = 2
CHECK_DEADLOCK FALSE
INVARIANT
    NotifyOneSuffices
