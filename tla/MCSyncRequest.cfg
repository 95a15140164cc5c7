SPECIFICATION FairSpec
CONSTANTS
    t1 = t1
    t2 = t2
    t3 = t3
    Threads <- ThreeThreads
    MaxCalls = 2
    MaxThrown = 1
INVARIANTS
    TypeOK
    RunGivesAnswer
PROPERTIES
    ResetAlone
    RequestReturns
CHECK_DEADLOCK FALSE
