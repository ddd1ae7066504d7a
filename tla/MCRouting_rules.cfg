SPECIFICATION Spec
CONSTANTS
    q1 = q1  q2 = q2  x1 = x1  x2 = x2  x3 = x3
    QueueName = {q1, q2}
    ExchangeName = {x1, x2, x3}
    Message = {m1, m2}
    RoutingKey <- Keys
    ExchangeArgs <- Exchanges
    BindingArgs <- Bindings
    Registrations <- Nobody
    NULL = NULL
    MAX_QUEUES = 2
    MAX_EXCHANGES = 3
    MAX_BINDINGS = 2
    MAX_CONNECTIONS = 1
    Capacity = 1
    SendBuffer = 1
SYMMETRY Symmetry
INVARIANTS
    NeverMisrouted
    CopiesOwned
    TopicMatchesAreExact
CHECK_DEADLOCK FALSE
