SPECIFICATION Spec
CONSTANTS
    q1 = q1  q2 = q2  x1 = x1  x2 = x2  x3 = x3
    QueueName = {q1, q2}
    ExchangeName = {x1}
    Message = {m1}
    RoutingKey <- OneKey
    ExchangeArgs <- Fanout
    BindingArgs <- OneBinding
    Registrations <- Nobody
    NULL = NULL
    MAX_QUEUES = 2
    MAX_EXCHANGES = 1
    MAX_BINDINGS = 1
    MAX_CONNECTIONS = 1
    Capacity = 1
    SendBuffer = 1
SYMMETRY Symmetry
INVARIANTS
    NoDoubleFree
CHECK_DEADLOCK FALSE
