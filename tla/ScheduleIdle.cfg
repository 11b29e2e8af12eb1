SPECIFICATION Spec
CONSTANTS
    Caps = {0, 1, 2}
    MaxEdits = 4
PROPERTIES ScheduleFollowed
CHECK_DEADLOCK FALSE
