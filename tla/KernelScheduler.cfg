SPECIFICATION FairSpec
CONSTANTS
    s1 = s1
    s2 = s2
    a1 = a1
    a2 = a2
    b1 = b1
    w1 = w1
    l1 = l1
    g1 = g1
    Nobody = Nobody
    Sessions = {s1}
    Submits = {a1}
    Injects = {w1, l1}
    Wakes = {w1}
    Lifecycle = {l1}
    Gates = {g1}
    Session <- MCSession
    Priority <- MCPriority
    MaxCancels = 1
INVARIANTS
    CountersExact
    StopReleases
PROPERTIES
    TurnAnswers
    NoOvertaking
    MarkDiesWithLast
    ImplementsSerialTurns
    NothingHangs
