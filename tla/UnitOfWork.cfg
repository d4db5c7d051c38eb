SPECIFICATION FairSpec
CONSTANTS
    NoUser = NoUser
    r1 = r1
    r2 = r2
    r3 = r3
    r4 = r4
    e1 = e1
    e2 = e2
    a = a
    b = b
    root = root
    Emails <- MCEmails
    Names <- MCNames
    Reserved <- MCReserved
    Requests <- MCFour
    Workload <- MCFourWorkload
    PoolSize = 3
INVARIANTS
    TypeOK
    EmailsUnique
    OutboxExplainsUsers
    
    NoAcknowledgedWriteLost
PROPERTIES
    RowsEvolve
    ImplementsDirectory
    EveryRequestAnswered
