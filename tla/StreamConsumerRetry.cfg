SPECIFICATION FairSpec
CONSTANTS
    p1 = p1
    p2 = p2
    Length = 3
    Wanted <- MCWanted
    Processes <- MCOne
    Count = 2
    MaxDeliveries = 5
    DecodeResponses = TRUE
    MaxFaults = 0
PROPERTIES
    FailureRetriedOrDeadLettered
