SPECIFICATION ESpec
CONSTANTS
    MaxRuns = 3
    MaxAsked = 1
INVARIANTS
    PhasesAgree
    ForcedRunGoesThrough
    ScriptsAgree
PROPERTIES
    PhasesKeepPromise
CHECK_DEADLOCK FALSE
