SPECIFICATION CoresSpec
CONSTANTS
    s1 = s1
    s2 = s2
    t1 = t1
    t2 = t2
    g1 = g1
    e1 = e1
    None = None
    Sessions = {s1, s2}
    Turns = {t1, t2}
    Calls = {g1}
    Profiled = {t1}
    Enders = {e1}
    Session <- MCSession
    MaxSessions = 1
    MaxTurns = 2
    MaxIterations = 2
    MaxNudges = 1
    Keep = 1
    RecoverKeep = 2
    RetryLimit = 1
    MaxCalls = 2
    Scenarios <- MCScenarios
INVARIANTS
    LoadsExclusive
    RunningSpared
    PooledIsOpen
    RequestWellFormed
    HistoryKept
    QuestionInRequest
PROPERTIES
    CoresEnd
CHECK_DEADLOCK FALSE
