SPECIFICATION FairSpec
CONSTANTS
    Free = Free
    q1 = q1
    q2 = q2
    q3 = q3
    a = a
    b = b
    Requests <- MCRequests
    Payloads <- MCPayloads
    Carried <- MCCarried
    Failures = TRUE
INVARIANTS
    TypeOK
    OneAtATime
    AnswersWereExecuted
    
PROPERTIES
    LockComesFree
