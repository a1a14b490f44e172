CONSTANTS
    Entities <- Both
    FullQueue <- FullOrder
    IncrementalQueue <- IncrementalOrder
    Count <- OneCategoryFourCoupons
    Blank <- Both
    Patchy <- SomeCoupons
    Batch = 2
    Workers = {w1, w2}
    Scheduler = "wp_cron"
    MaxPending = 2
    MaxFailures = 1
    MaxMisreads = 1
    MaxCrashes = 1
SPECIFICATION FairSpec
INVARIANTS TypeOK ResumesWithoutGap LeftQueueMeansIngested
PROPERTY SyncFinishes
