SPECIFICATION FairSpec
CONSTANTS
    Thread = {t1}
    NULL = NULL
    MaxSocket = 1
PROPERTY
    DisconnectReturns
CHECK_DEADLOCK FALSE
