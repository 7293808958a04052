SPECIFICATION Spec
CONSTANTS
    MapX = 2
    MapY = 2
    NbClients = 3
    NbTeams = 1
    Fds = {4, 5}
    MAX_EVENTS = 2
    Delay <- MCNoDelay
    IncantationTime = 1
    LifeUnit = 1
    StartLifeUnits = 1
    Respawn = TRUE
    Period = 1
    StartPlaces <- MCOnePlace
    StartItems <- MCElevationAndFood
    Spawns <- MCFood
    Relogin = TRUE
    Sends <- MCWorldSends
    MaxTime = 1
INVARIANTS
    TypeOK
    TilesConsistent
    RegistryConsistent
    KilledAreGone
PROPERTIES
    NoEarlyDeath
    ItemsConserved
