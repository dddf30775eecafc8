SPECIFICATION ToolsSpec
CONSTANTS
    bash = bash
    file = file
    danger = danger
    batch = batch
    p1 = p1
    p2 = p2
    q1 = q1
    q2 = q2
    yes = yes
    no = no
    Calls <- MCCalls
    Scenarios <- MCScenarios
    Kind <- MCKind
    Paths = {p1, p2}
    Wants <- MCWants
    Items = {q1, q2}
    Options = {yes, no}
    parent = parent
    child = child
    t = t
    u = u
    Nobody = Nobody
    Mail = Mail
    Agents = {parent, child}
    Subs = {child}
    Turns = {t, u}
    TurnOf <- MCTurnOf
    Happenings <- MCHappenings
    MaxMsgs = 2
    MaxWaits = 1
    MaxCancels = 1
    c1 = c1
    c2 = c2
    boot = boot
    manual = manual
    Idle = Idle
    Cores = {c1, c2}
    Servers = {boot, manual}
    Boot <- MCBoot
    Jobs <- MCJobs
    Plans <- MCPlans
    one = one
    two = two
    leave = leave
    run = run
    again = again
    NoCall = NoCall
    NoFile = NoFile
    ShellCalls = {one, two, leave, run, again}
    Does <- MCDoes
    ShellPlans <- MCShellPlans
    Keep = 2
INVARIANTS
    AnswerHeard
    OnlyApproved
    MailArrives
    CountedRight
    EffectsKept
PROPERTIES
    WaitsEnd
CHECK_DEADLOCK FALSE
