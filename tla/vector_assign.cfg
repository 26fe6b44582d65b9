SPECIFICATION VectorSpec
CONSTANTS
    Vec = {v1, v2}
    Value = {d, a}
    Default = d
    Raw = raw
    BaseCapacity = 1
    MinCapacity = 3
    MaxSize = 3
    MaxPushed = 3
INVARIANT AssignmentIsRight
CHECK_DEADLOCK FALSE
