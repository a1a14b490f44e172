CONSTANTS
    Messages = {m1}
    Handlers = {h1, h2}
    None = None
    Skew = 1
    Ahead = 0
    Stall = 1
    MaxTime = 3
    MaxSecrets = 4
    MaxOps = 3
SYMMETRY Perms
SPECIFICATION Spec
INVARIANTS
    TypeOK
    SecretsBounded
    ProcessedOnce
PROPERTY ReturnsExplained
CHECK_DEADLOCK FALSE
