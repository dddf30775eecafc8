SPECIFICATION KeysSpec
CONSTANTS
    one = one
    two = two
    LastKey = 2
    Asks = {one, two}
    Readings = {one, two}
    MaxLimits = 0
INVARIANTS
    EveryKeyTried
CHECK_DEADLOCK FALSE
