SPECIFICATION Spec
CONSTANTS
    a = a
    b = b
    r1 = r1
    r2 = r2
    r3 = r3
    s1 = s1
    Id <- TwoIds
    Task <- RunAndRival
    idOf <- DuelIdOf
    Slots = 1
    MaxReorders = 0
    MaxControls = 2
    MaxCommands = 3
    MaxCrashes = 0
    Commands = {"Start", "Pause"}
    Patient = TRUE
CHECK_DEADLOCK FALSE
INVARIANTS
    DownloadLimit
    NoGhostEntry
PROPERTIES
    EveryRunEnds
