SPECIFICATION Spec
CONSTANTS
    PRs = {1}
    Contents <- OnlyLonely
    Specifications <- MCSpecifications
    Code <- MCCode
    Added <- MCAdded
    Mutants <- MCMutants
    Probes = {}
    Items <- MCItems
    Limit = 4
    ReferenceLimit = 2
    Outputs = {"pass", "assert", "fail"}
    CutOff = 3
    MaxPRs = 2
    MaxStarts = 3
    MaxDeaths = 1
INVARIANTS
    ModulesHaveImports
CHECK_DEADLOCK FALSE
