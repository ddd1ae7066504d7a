SPECIFICATION FairSpec
CONSTANTS
    q1 = q1  q2 = q2  x1 = x1  x2 = x2  x3 = x3
    QueueName = {q1, q2}
    ExchangeName = {x1}
    Message = {m1, m2}
    RoutingKey <- OneKey
    ExchangeArgs <- Fanout
    BindingArgs <- FanoutBindings
    Registrations <- AnybodyForFirstQueue
    NULL = NULL
    MAX_QUEUES = 2
    MAX_EXCHANGES = 1
    MAX_BINDINGS = 1
    MAX_CONNECTIONS = 2
    Capacity = 1
    SendBuffer = 1
INVARIANTS
    TableIsSubscriptions
PROPERTIES
    PublishEnds
CHECK_DEADLOCK FALSE
