SPECIFICATION Spec
CONSTANTS
    q1 = q1  q2 = q2  x1 = x1  x2 = x2  x3 = x3
    QueueName = {q1, q2}
    ExchangeName = {x1}
    Message = {m1, m2}
    RoutingKey <- OneKey
    ExchangeArgs <- Fanout
    BindingArgs <- FanoutBindings
    Registrations <- LastForFirstQueue
    NULL = NULL
    MAX_QUEUES = 2
    MAX_EXCHANGES = 1
    MAX_BINDINGS = 2
    MAX_CONNECTIONS = 3
    Capacity = 2
    SendBuffer = 1
SYMMETRY Symmetry
INVARIANTS
    TypeOK
    SameOrderEverywhere
    StreamInQueueOrder
    EveryConsumerServed
    OriginalLeaksOnlyIfRoutedOnce
CHECK_DEADLOCK FALSE
