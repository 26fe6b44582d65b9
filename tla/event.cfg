SPECIFICATION Spec
CONSTANTS
    Fiber = {f1, f2}
    Thread = {t1}
    NoOne = none
    TimedModes = {"Manual"}
    Calls = 2
CHECK_DEADLOCK FALSE
INVARIANTS
    SignalIsTaken
    SignalReleasesAll
