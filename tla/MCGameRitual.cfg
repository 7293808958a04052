SPECIFICATION FairSpec
CONSTANTS
    MapX = 2
    MapY = 2
    NbClients = 2
    NbTeams = 1
    Fds = {4, 5}
    MAX_EVENTS = 2
    Delay <- MCNoDelay
    IncantationTime = 1
    LifeUnit = 1
    StartLifeUnits = 2
    Respawn = FALSE
    Period = 1
    StartPlaces <- MCOnePlace
    StartItems <- MCTwoElevations
    Spawns <- MCNoSpawn
    Relogin = FALSE
    Sends <- MCRitualSends
    MaxTime = 1
INVARIANTS
    OneIncantationAtATime
PROPERTIES
    IncantingStandsStill
    LevelUpTogether
    IncantationEnds
    RefinesDeques
