SPECIFICATION FairSpec
CONSTANTS
    Commits = {c1, c2, c3}
    NbClones = 3
    Existing <- DevOnly
    MaxFaults = 1
INVARIANTS
    RecentAreCached
    HandsOutCommit
PROPERTIES
    OthersUndisturbed
    CallReturns
