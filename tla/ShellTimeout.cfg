SPECIFICATION ShellSpec
CONSTANTS
    one = one
    two = two
    NoCall = NoCall
    NoFile = NoFile
    ShellCalls = {one, two}
    Does <- MCDoes
    ShellPlans = {{one, two}}
    Keep = 2
PROPERTIES
    TimeoutRestores
CHECK_DEADLOCK FALSE
