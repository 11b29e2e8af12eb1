SPECIFICATION Spec
CONSTANTS
    Fetches = {f1}
    Providers = {p1, p2}
    Lanes = {l1}
    NumPieces = 2
    BaseAttempts = 2
    FailBudget = 1
    MaxPeers = 2
    MaxOpens = 2
    MaxRefreshes = 1
    MaxCrashes = 1
    CrashPoints = {"create", "stripe", "export"}
    Peers = {me}
    Blobs = {b1}
    Shas = {s1}
    Sha <- ShaOf
    Me = me
    b1 = b1
    s1 = s1
    NoSha = NoSha
    TTL = 2
    Window = 1
    MaxOps = 2
    MaxFaults = 2
INVARIANTS StripedInv SharingInv
PROPERTIES NetworkSettles
CHECK_DEADLOCK FALSE
