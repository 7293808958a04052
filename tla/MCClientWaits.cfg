SPECIFICATION Spec
CONSTANTS
    MapX = 3
    MapY = 3
    Starts <- MCStarts
    Targets = {0}
    MAX_EVENTS = 2
    MaxPending = 2
    Rules = 1
    MaxNotes = 1
INVARIANT WaitsForSomething
CHECK_DEADLOCK FALSE
