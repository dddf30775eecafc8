SPECIFICATION FairSpec
CONSTANTS
    a1 = a1
    c1 = c1
    c2 = c2
    NoDef = NoDef
    NoJob = NoJob
    ToolJobs = {a1}
    ConfigJobs = {c1, c2}
    OneShots = {c1}
    LeftBehind <- MCLeftBehind
    MaxTasks = 2
    MaxDowns = 1
    MaxTime = 1
    MaxEdits = 1
INVARIANTS
    LoopsFollowFile
    OncePerDeath
PROPERTIES
    EditsStand
    WorkGetsDone
CHECK_DEADLOCK FALSE
