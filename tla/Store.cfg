SPECIFICATION Spec
CONSTANTS
    Downloads = {d1}
    Imports = {m1, m2}
    Evicts = {e1}
    Installs = {n1}
    Reconciles = {r1}
    MaxOps = 3
    MaxDeletes = 1
    MaxCrashes = 1
    Peers = {p1, p2}
    Blobs = {b1, b2}
    Shas = {s1, b2}
    NoSha = NoSha
    TTL = 2
    Ids = {i, j, k}
    Slugs = {s, t}
    MaxStored = 2
    MaxEditions = 2
    MaxFaults = 2
    Requests = {q1, q2}
    Conn <- ConnOf
    Hash <- HashOf
    Prefix <- PrefixOf
    q1 = q1
    q2 = q2
    c1 = c1
    h1 = h1
    Size = 2
    MaxStalls = 1
SYMMETRY StoreSymmetry
INVARIANTS StoreInv RegistryInv UploadsInv
PROPERTIES NothingForgotten
CHECK_DEADLOCK FALSE
