SPECIFICATION Spec
CONSTANTS
    a = a
    b = b
    r1 = r1
    r2 = r2
    r3 = r3
    s1 = s1
    Id <- OneId
    Task <- ThreeRuns
    idOf <- SameIdOf
    Slots = 1
    MaxReorders = 0
    MaxControls = 2
    MaxCommands = 5
    MaxCrashes = 1
    Commands = {"Start", "Resume", "Pause", "Stop"}
    Patient = TRUE
CHECK_DEADLOCK FALSE
INVARIANTS
    PartHasRow
    StoppedLeavesNothing
PROPERTIES
    PauseKeepsBytes
