CONSTANTS
    Entities <- Both
    FullQueue <- FullOrder
    IncrementalQueue <- IncrementalOrder
    Count <- OneCategorySixCoupons
    Blank = {}
    Patchy = {}
    Batch = 2
    Workers = {w1}
    Scheduler = "action_scheduler"
    MaxPending = 1
    MaxFailures = 0
    MaxMisreads = 0
    MaxCrashes = 0
SPECIFICATION Spec
INVARIANT FullSyncSendsAll
CHECK_DEADLOCK FALSE
