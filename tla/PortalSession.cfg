CONSTANTS
    Requests = {r1, r2}
    Admins = {a1, a2}
    MaxSessions = 3
    Tabs = {t1, t2}
SPECIFICATION PortalSpec
SYMMETRY Symmetry
INVARIANTS
    PortalTypeOK
    StragglersOnly
    SuspensionSweeps
    BoundedSuccessors
    StoredIsUsable
    SignedOutStays
CHECK_DEADLOCK FALSE
