SPECIFICATION Spec
CONSTANTS
    Thread = {t1, t2, t3}
    Message = {m1, m2, m3, m4}
    NULL = NULL
    Capacity = 2
    UnackedCapacity = 1
    MaxTag = 4
SYMMETRY Symmetry
INVARIANTS
    TypeOK
    RingConsistent
    UnackedInBounds
    NoLostWakeupFull
    Ownership
PROPERTY
    KeepsPromise
