SPECIFICATION Spec
CONSTANTS
    Rows = {w1, w2}
    MaxPages = 3
    Trackers = {"home", "own"}
    Home = "home"
    MaxEdits = 3
    MaxFaults = 2
    Titles = {kit, quant, linkedOne}
    Files = {shard1, shard2, config}
    Artifacts <- ArtifactsOf
    Weights <- WeightsOf
    Linked = {linkedOne}
    kit = kit
    quant = quant
    linkedOne = linkedOne
    shard1 = shard1
    shard2 = shard2
    config = config
    MaxOps = 3
    Sources = {a1, a2}
    Segmented = {a2}
    Size = 5
    EmitEvery = 1
    MaxTries = 2
    MaxAttempts = 4
    Picked = {f1, f2}
    id1 = id1
    id2 = id2
    r1 = r1
    r2 = r2
    MaxEvents = 1
    Blobs = {o1, o2}
    Gated = {o2}
    Procs = {p1, p2}
    MaxNodes = 2
    MaxCmds = 4
INVARIANTS RowsInv SettingsInv ReceiptInv LinkInv StudioInv
CHECK_DEADLOCK FALSE
