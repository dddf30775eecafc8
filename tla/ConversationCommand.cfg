SPECIFICATION ConversationSpec
CONSTANTS
    MaxTurns = 2
    MaxIterations = 2
    MaxNudges = 0
    Keep = 1
    RecoverKeep = 2
    RetryLimit = 0
    MaxCalls = 2
    Scenarios <- MCCommands
INVARIANTS
    EveryRequestWellFormed
CHECK_DEADLOCK FALSE
