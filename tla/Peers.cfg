SPECIFICATION Spec
CONSTANTS
    Proms = {p1, p2}
    Names = {n1}
    MaxSwitches = 2
    MaxRestarts = 1
    Runs = {r1, r2}
    MaxOpens = 4
    MaxCrashes = 1
    MaxUp = 3
    Caps = {0, 1, 2}
    MaxChanges = 4
    q1 = q1
    q2 = q2
    c1 = c1
    h1 = h1
    Size = 2
    MaxStalls = 0
INVARIANTS PeersInv
PROPERTIES PeersKeep PeersSettle
CHECK_DEADLOCK FALSE
