SPECIFICATION ClientSpec
CONSTANTS
    Fiber = {f1, f2}
    Thread = {t1}
    NoOne = none
    TimedModes = {"one", "all"}
    MaxItems = 2
    Calls = 2
CHECK_DEADLOCK FALSE
INVARIANTS
    WaitersCounted
    NobodyForgotten
    ResultIsRight
