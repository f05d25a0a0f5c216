SPECIFICATION Spec
CONSTANTS
  Mutants <- MCMutants
  FileOf <- MCFileOf
  FunctionOf <- MCFunctionOf
  Tests <- MCTests
  Covers <- MCCovers
  PhaseTimes <- MCPhaseTimes
  ExitCodes <- MCExitCodes
  Requests <- MCRequests
  MaxChildren = 2
  MaxRuns = 2
  MaxEdits = 1
  MaxAge = 3
INVARIANTS
    ResultsExplained
    NothingIsForgotten
    ChildrenAreKept
PROPERTIES
    RunEnds
