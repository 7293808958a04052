SPECIFICATION FairSpec
CONSTANTS
    Conversations <- MCConversations
    MaxRecords = 2
    BufSize = 2
INVARIANT InStep
PROPERTIES
    Served
    GoneIsRemoved
CHECK_DEADLOCK FALSE
