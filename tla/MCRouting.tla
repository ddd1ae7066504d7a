----------------------------- MODULE MCRouting -----------------------------
EXTENDS Routing, TLC

CONSTANTS q1, q2, x1, x2, x3

Bind(x, q, k) == [exchange |-> x, queue |-> q, routing_key |-> k]
Declare(x, type) == [name |-> x, type |-> type]

\* One fanout exchange in front of two queues.
OneKey == {<<"a">>}
Fanout == {Declare(x1, "FANOUT")}
OneBinding == {Bind(x1, q1, NULL)}
FanoutBindings == {Bind(x1, q1, NULL), Bind(x1, q2, NULL)}

\* An exchange of each type; "a.#" is a pattern as main.c has it.
Keys == {<<"a">>, <<"a", "b">>, <<"*">>, <<"#">>, <<"a", "#">>}
Exchanges == {Declare(x1, "DIRECT"), Declare(x2, "FANOUT"), Declare(x3, "TOPIC")}
Bindings == {Bind(x1, q1, <<"a">>), Bind(x2, q2, NULL)} \union
    {Bind(x3, q1, k) : k \in Keys} \union {Bind(x3, q2, NULL)}

\* Who registers for what.
Nobody == {}
LastForFirstQueue == {[queue |-> q1, client |-> MAX_CONNECTIONS - 1]}
AnybodyForFirstQueue == {[queue |-> q1, client |-> c] : c \in Client}

Symmetry == Permutations(Message)
=============================================================================
