SPECIFICATION Spec
CONSTANTS
    NoUser = NoUser
    Free = Free
    r1 = r1
    r2 = r2
    r3 = r3
    e1 = e1
    E1 = E1
    a = a
    aPadded = aPadded
    b = b
    root = root
    Requests <- MCRequests
    Emails <- MCEmails
    Names <- MCNames
    Lower <- MCLower
    Stripped <- MCStripped
    ReservedNames <- MCReserved
    Workloads <- MCWorkloads
INVARIANT ReplayAnsweredAlike
