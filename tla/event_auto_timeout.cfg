SPECIFICATION Spec
CONSTANTS
    Fiber = {f1, f2, f3}
    Thread = {}
    NoOne = none
    TimedModes = {"Auto"}
    Calls = 1
CHECK_DEADLOCK FALSE
INVARIANT
    SignalIsTaken
