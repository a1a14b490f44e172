CONSTANTS
    MaxSyncs = 2
    Events = {e1}
    PageSize = 1
    Initially = 2
    MaxEdits = 1
    MaxWriters = 2
SPECIFICATION FairSpec
INVARIANTS
    TypeOK
    SuccessIsFresh
PROPERTY RunEnds
CHECK_DEADLOCK FALSE
