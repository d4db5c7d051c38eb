SPECIFICATION FairSpec
CONSTANTS
    p1 = p1
    p2 = p2
    Length = 4
    Wanted <- MCWanted
    Processes <- MCTwo
    Count = 2
    MaxDeliveries = 5
    DecodeResponses = TRUE
    MaxFaults = 1
INVARIANTS
    TypeOK
    HandledAtMostOnce
    PendingAccountedFor
PROPERTIES
    EveryEntryTaken
