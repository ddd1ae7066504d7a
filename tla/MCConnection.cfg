SPECIFICATION FairSpec
CONSTANTS
    Thread = {t1, t2}
    NULL = NULL
    MaxSocket = 2
INVARIANTS
    TypeOK
    ConnectedIsUsable
    OneReader
    OnlyLostSocketsLeak
PROPERTY
    ResetIsNoticed
    DisconnectEndsWithPeer
CHECK_DEADLOCK FALSE
