CONSTANTS
    MaxEvents = 3
    Keys = {1, 2, 3, 4}
    KeyOf <- OwnKey
    MaxQueue = 2
    MaxBatch = 2
    Shoppers = {s1}
    Deliverers = {d1, d2}
    Handlers = {h1, h2}
    MaxFailures = 1
    NoHandler = NoHandler
SPECIFICATION FairSpec
INVARIANTS TypeOK RemovedIsRecorded QueuedOnce
PROPERTY QueueDrains
CHECK_DEADLOCK FALSE
