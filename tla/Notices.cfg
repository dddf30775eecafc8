CONSTANTS
    w1 = w1
    g1 = g1
    j1 = j1
    j2 = j2
    Nothing = Nothing
    Names = {w1}
    GoalChecks = {g1}
    Jobs = {j1, j2}
    Remote = {j2}
    MaxRegs = 2
    MaxUsers = 1
    MaxCancels = 2
SPECIFICATION Spec
CONSTRAINT
    ThreeNotices
INVARIANTS
    CarriedOnce
PROPERTIES
    WakesEndRightly
CHECK_DEADLOCK FALSE
