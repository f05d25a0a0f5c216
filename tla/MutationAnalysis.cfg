SPECIFICATION Spec
CONSTANTS
    PRs <- MCPRs
    Contents <- MCContents
    Specifications <- MCSpecifications
    Code <- MCCode
    Added <- MCAdded
    Mutants <- MCMutants
    Probes <- MCProbes
    Items <- MCItems
    Limit = 4
    ReferenceLimit = 2
    Outputs = {"pass", "assert", "fail"}
    CutOff = 3
    MaxPRs = 2
    MaxStarts = 3
    MaxDeaths = 1
INVARIANTS
    DataIsUsable
    ChangeIsRead
    AddedLinesAreTested
    ResultsAgree
CHECK_DEADLOCK FALSE
