CONSTANTS
    Requests = {r1, r2}
    Admins = {h1, h2}
    Amounts = {1, 2}
    MaxEarned = 3
    MaxPayouts = 3
    MaxRevived = 2
SPECIFICATION Spec
SYMMETRY Symmetry
INVARIANTS
    TypeOK
    OverdraftBounded
CHECK_DEADLOCK FALSE
