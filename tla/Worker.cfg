SPECIFICATION FairSpec
CONSTANTS
    NoRow = NoRow
    w1 = w1
    w2 = w2
    Events <- MCEvent
    Owner <- MCOwner
    BatchSize = 2
    MaxAttempts = 2
    Count = 2
    MaxDeliveries = 5
    DecodeResponses = TRUE
    Workers <- MCTwo
    MaxEntries = 3
    MaxFaults = 2
INVARIANTS
    TypeOK
    MailsNeedFaults
    PublishedIsOnItsWay
    ClosedInOrder
PROPERTIES
    EverySettled
    EveryRegistrationConcluded
