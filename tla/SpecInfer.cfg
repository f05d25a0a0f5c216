SPECIFICATION FairSpec
CONSTANTS
    Specs = {s1, s2}
    NoSpec = NoSpec
    Stage1 = "intent_analysis"
    Stage1Attempts = 2
    FailureCharge = 2
    RepairAttempts = 3
    ReviewAttempts = 2
    MaxLLMQueries = 4
    SummaryChoices <- OneOrThree
    ForceChoices <- ForcedOrNot
    MaxCrashes = 2
INVARIANTS
    VerdictMatchesExecution
    NoStaleSpecFile
    FailureIsDeserved
    ResumeIsSound
    QueriesAreCounted
PROPERTIES
    Promise
    RunDecides
