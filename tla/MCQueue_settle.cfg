SPECIFICATION Spec
CONSTANTS
    Thread = {t1, t2}
    Message = {m1, m2, m3}
    NULL = NULL
    Capacity = 2
    UnackedCapacity = 1
    MaxTag = 4
INVARIANT
    SettledOnce
