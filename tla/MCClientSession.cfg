SPECIFICATION FairSpec
CONSTANTS
    MapX = 3
    MapY = 3
    Starts <- MCStarts
    Targets = {0, 3}
    MAX_EVENTS = 3
    MaxPending = 3
    Rules = 1
    MaxNotes = 1
INVARIANTS
    TypeOK
    MapsAgree
    Arrives
    NothingDropped
    HearsWhereItSees
PROPERTIES
    SoundTurns
    GoesOnLooking
CHECK_DEADLOCK FALSE
