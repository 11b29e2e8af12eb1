SPECIFICATION FairSpec
CONSTANTS
    Source = {a, b}
    Http = {a}
    Nobody = Nobody
    Size = 3
    LeafSize = 2
    SegmentMin = 1
    Connections = 2
    EmitEvery = 1
    MaxAttempts = 2
    MaxRuns = 2
    MaxBans = 1
INVARIANTS TypeOK CacheIsSound Aligned HonestNeverBlamed
PROPERTIES GoodSourceSuffices RunEnds
CHECK_DEADLOCK FALSE
