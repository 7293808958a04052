SPECIFICATION FairSpec
CONSTANTS
    Conns = {c1, c2, c3}
    Fds = {4, 5, 6}
    RingSize = 4
    NbClients = 2
    None = None
PROPERTIES
    ListedAreRemoved
