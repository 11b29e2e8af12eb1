SPECIFICATION Spec
CONSTANTS
    Repos = {a, b}
    Ggufs = {b}
    MaxTasks = 2
    MaxChanges = 1
    content = content
    all = all
    one = one
    MaxLooks = 3
    Caps = {0, 1, 2}
    MaxEdits = 4
    id1 = id1
    id2 = id2
    r1 = r1
    MaxOps = 1
    MaxEvents = 1
    MaxVersion = 2
    SignKeys = {k, x}
    Baked = {k}
    RegTrust = {k, x}
    Flavors = {"mac", "portable", "installer", "managed", "appimage"}
    MaxFaults = 2
INVARIANTS ViewsInv UpdaterInv
PROPERTIES ViewsSettle NothingUndone
CHECK_DEADLOCK FALSE
