SPECIFICATION OutagesSpec
CONSTANTS
    s1 = s1
    s2 = s2
    Sessions <- MCSessions
    Ttl = 1
    MaxTime = 2
    MaxTurns = 2
    \* three connections of the worker, one restart of it
    e1 = e1
    u1 = u1
    u2 = u2
    r1 = r1
    push = push
    pull = pull
    Execs = {e1}
    Uses = {u1, u2}
    Releases = {r1}
    Evictions = {r1}
    Pushes = {push}
    Pulls = {pull}
    Chunks = 2
    MaxConns = 3
    MaxDeaths = 1
    MaxExpiries = 1
SYMMETRY Interchangeable
INVARIANTS
    RunsOnce
    UseHolds
    FilesWhole
    GoalsKept
PROPERTIES
    PausedResumes
CHECK_DEADLOCK FALSE
