SPECIFICATION Spec
CONSTANTS
    Thread = {t1, t2}
    NULL = NULL
    MaxSocket = 2
    MaxMessage = 2
SYMMETRY Symmetry
INVARIANTS
    TypeOK
    HandlersInTurn
    OnlyLateMessagesDangle
    PromiseInPlace
    MessagesAccounted
CHECK_DEADLOCK FALSE
