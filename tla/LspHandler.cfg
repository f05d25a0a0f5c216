SPECIFICATION FairSpec
CONSTANTS
    Users = {r1, r2}
    Bye = bye
    ServerRequests = {q1}
    MaxStray = 1
INVARIANTS
    WakeupsAreKept
PROPERTIES
    AnsweredOnce
    NobodyWaitsForever
CHECK_DEADLOCK FALSE
