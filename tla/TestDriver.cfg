SPECIFICATION Spec
CONSTANTS
    Codes <- MCCodes
    available_import <- MCAvailable
    Answers <- MCAnswers
    Said <- MCSaid
    Modules <- MCModules
    Definitions <- MCDefinitions
INVARIANTS
    DriverIsRight
    EchoIsStable
    MutantIsTested
CHECK_DEADLOCK FALSE
