SPECIFICATION Spec
CONSTANTS
    p1 = p1
    p2 = p2
    Length = 3
    Wanted <- MCWanted
    Processes <- MCTwo
    Count = 2
    MaxDeliveries = 1
    DecodeResponses = TRUE
    MaxFaults = 2
INVARIANTS
    AckedAccountedFor
