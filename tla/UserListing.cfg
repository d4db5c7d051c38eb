SPECIFICATION FairSpec
CONSTANTS
    Users <- MCUsers
    Stamp <- MCStamp
    Offsets <- MCOffsets
    Limits <- MCLimits
    MaxPageSize = 2
    MaxFaults = 1
INVARIANTS
    TypeOK
    WalkMissesNobody
    RepeatsNeedNewcomers
    AnnouncedPageExists
PROPERTIES
    WalkEnds
