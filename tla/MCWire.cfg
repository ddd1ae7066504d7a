SPECIFICATION FairSpec
CONSTANTS
    Sender = {s1, s2}
    Message <- Messages
    WordSize = 2
    MaxFrames = 2
    MaxLength = 1
    SocketBuffer = 4
INVARIANTS
    TypeOK
    NothingHeldBetweenFrames
    ReturnsWhatWasSent
    NoneMissedUntilLost
PROPERTY
    SendReturns
CHECK_DEADLOCK FALSE
