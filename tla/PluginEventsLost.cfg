CONSTANTS
    MaxEvents = 2
    Keys = {1, 2, 3, 4}
    KeyOf <- OwnKey
    MaxQueue = 4
    MaxBatch = 2
    Shoppers = {s1}
    Deliverers = {d1}
    Handlers = {h1}
    MaxFailures = 0
    NoHandler = NoHandler
SPECIFICATION Spec
INVARIANT NoEventLost
CHECK_DEADLOCK FALSE
