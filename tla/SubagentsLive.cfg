SPECIFICATION FairSpec
CONSTANTS
    s1 = s1
    s2 = s2
    u1 = u1
    u2 = u2
    Subs = {s1}
    Turns = {u1, u2}
    MaxWaits = 1
    MaxCancels = 1
PROPERTIES
    EndIsHeard
CHECK_DEADLOCK FALSE
