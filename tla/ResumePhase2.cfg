SPECIFICATION Spec
CONSTANTS
    Specs = {s1, s2}
    NoSpec = NoSpec
    Stage1 = "bug_trigger_generation"
    Stage1Attempts = 2
    FailureCharge = 3
    RepairAttempts = 2
    ReviewAttempts = 2
    MaxLLMQueries = 4
    SummaryChoices <- NoSummary
    ForceChoices <- Unforced
    MaxCrashes = 1
INVARIANT ResumeContinues
