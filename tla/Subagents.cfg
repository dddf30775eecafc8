SPECIFICATION Spec
CONSTANTS
    s1 = s1
    s2 = s2
    u1 = u1
    u2 = u2
    Subs = {s1, s2}
    Turns = {u1}
    MaxWaits = 1
    MaxCancels = 1
SYMMETRY MCSymmetry
INVARIANTS
    FindableUntilReaped
    EndsAnnounced
    NotToldTwice
CHECK_DEADLOCK FALSE
