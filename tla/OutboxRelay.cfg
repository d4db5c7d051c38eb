SPECIFICATION Spec
CONSTANTS
    NoRow = NoRow
    u1 = u1
    u2 = u2
    w1 = w1
    w2 = w2
    Events <- MCThree
    Owner <- MCInterleaved
    Relays <- MCRelays
    BatchSize = 2
    MaxAttempts = 2
    MaxFaults = 1
SYMMETRY RelaysAlike
INVARIANTS
    TypeOK
    DuplicatesNeedFaults
    
PROPERTIES
    PublishedIsFinal
    ImplementsAtLeastOnce
