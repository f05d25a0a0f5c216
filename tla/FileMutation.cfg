SPECIFICATION Spec
CONSTANTS
    Sources <- MCSources
    Purposes <- MCPurposes
INVARIANTS
    MutatedFileIsSound
    CallsAreDispatched
    ApplyChangesItsFunction
CHECK_DEADLOCK FALSE
