SPECIFICATION Spec
CONSTANTS
    a = a
    b = b
    r1 = r1
    r2 = r2
    r3 = r3
    s1 = s1
    Id <- OneId
    Task <- TwoRuns
    idOf <- PairIdOf
    Slots = 1
    MaxReorders = 0
    MaxControls = 2
    MaxCommands = 3
    MaxCrashes = 0
    Commands = {"Start", "Resume", "Pause", "Stop", "Remove", "Refresh"}
    Patient = FALSE
CHECK_DEADLOCK FALSE
INVARIANTS
    TypeOK
    ExecutingIsExact
    IdleCardCanResume
