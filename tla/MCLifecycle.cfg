SPECIFICATION FairSpec
CONSTANTS
    Client = {c1, c2, c3}
    NULL = NULL
    MAX_CONNECTIONS = 2
INVARIANTS
    TypeOK
    ConnectionsAccounted
    HandlerHasConnection
    LoopEndsFirst
    EntryMeansItsClient
PROPERTIES
    NetworkEndsLast
    ShutdownEnds
CHECK_DEADLOCK FALSE
