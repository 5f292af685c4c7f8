SPECIFICATION Spec
CONSTANTS
    Envs <- MCEnvs
    Bodies <- MCBodies
    Paths <- MCPaths
    Requests = {1}
    MaxEvents = 2
    MaxSignals = 2
    MaxRpcs = 1
INVARIANTS
    NothingOutlivesMain
    AcceptedIsAllowed
    AnswerTellsTheOutcome
    LargestPageFits
PROPERTIES
    SignalEndsProcess
CHECK_DEADLOCK FALSE
