SPECIFICATION FairSpec
CONSTANTS
    a = a
    b = b
    c = c
    d = d
    Null = Null
    Players = {a, b, c, d}
    Tiles <- MCTiles
    Adjacent <- MCAdjacent
INVARIANTS
    TypeOK
    EachOnItsTile
    PointersAreLists
    ExpulseResult
PROPERTY ExpulseEnds
