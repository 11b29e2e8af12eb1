SPECIFICATION Spec
CONSTANTS
    a = a
    b = b
    r1 = r1
    r2 = r2
    r3 = r3
    s1 = s1
    Id <- OneId
    Task <- TwoRuns
    idOf <- PairIdOf
    Slots = 1
    MaxReorders = 0
    MaxControls = 1
    MaxCommands = 2
    MaxCrashes = 1
    Commands = {"Start", "Resume"}
    Patient = TRUE
CHECK_DEADLOCK FALSE
INVARIANTS
    IdleCardCanResume
