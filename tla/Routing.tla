------------------------------ MODULE Routing ------------------------------
(***************************************************************************)
(* The broker's message path (src/core/broker.c): the registry of          *)
(* exchanges, queues and bindings, the handler thread of every client,     *)
(* consumer registration, routing and forwarding.                          *)
(*                                                                         *)
(* The broker's mutex makes one publish exclude the next, and is held      *)
(* while a message is sent to the consumers. The table of consumers is     *)
(* written by register_consumer without any lock, so each of its accesses  *)
(* is a step of its own, and interleaves with a forwarding loop.           *)
(*                                                                         *)
(* The queues are those of module Queue. Inside the broker they are only   *)
(* filled, with queue_try_enqueue, so each is a bounded sequence here.     *)
(***************************************************************************)
EXTENDS Topic, FiniteSets

CONSTANTS
    QueueName, ExchangeName, Message,
    RoutingKey,         \* routing keys, as sequences of words
    ExchangeArgs,       \* what main calls broker_create_exchange with,
    BindingArgs,        \* and broker_bind_queue
    Registrations,      \* what clients may register for: [queue, client]
    NULL,
    MAX_QUEUES, MAX_EXCHANGES, MAX_BINDINGS, MAX_CONNECTIONS,
    Capacity,           \* capacity of every queue
    SendBuffer          \* bound: frames a socket takes from a sender before
                        \* its reader must read

ASSUME LimitsAssumption ==
    /\ MAX_QUEUES \in Nat /\ MAX_EXCHANGES \in Nat /\ MAX_BINDINGS \in Nat
    /\ MAX_CONNECTIONS \in Nat \ {0}
    /\ Capacity \in Nat \ {0} /\ SendBuffer \in Nat \ {0}

\* A client is the slot of client_connections that it occupies.
Client == 0 .. (MAX_CONNECTIONS - 1)

ExchangeType == {"DIRECT", "FANOUT", "TOPIC"}

\* routing_key may be NULL.
Binding ==
    [exchange : ExchangeName, queue : QueueName, routing_key : RoutingKey \union {NULL}]

\* The clone that route_message makes of a message for a binding.
Copy == [message : Message, binding : 1 .. MAX_BINDINGS]

\* What a message is published with.
Content == [exchange : ExchangeName, routing_key : RoutingKey]

ASSUME KeyAssumption == RoutingKey \subseteq Seq(STRING)

ASSUME NullAssumption ==
    /\ NULL \notin QueueName \union Message \union RoutingKey
    /\ NULL \notin Client /\ NULL \notin Content /\ NULL \notin Seq(Copy)

ASSUME ArgsAssumption ==
    /\ ExchangeArgs \subseteq [name : ExchangeName, type : ExchangeType]
    /\ BindingArgs \subseteq Binding
    /\ Registrations \subseteq [queue : QueueName, client : Client]

VARIABLES
    queues, exchanges, bindings,    \* the registry, and what the queues hold
    started,        \* broker_start was called: clients can connect
    alive,          \* no signal has ended the process
    peer,           \* the other end of a client's socket
    is_consumer,
    consumers, consumer_count,      \* the shared table of consumers
    mutex,          \* the handler that holds broker->mutex, or NULL
    pc, loc,        \* where a handler is, and its locals
    content,        \* of a message: the exchange and key it was sent with
    heap,           \* buffers allocated and not freed
    stream,         \* copies sent to a client, in order
    unread,         \* how many of them the client has not read yet
    cut,            \* history: clients that were sent a part of a frame
    double_free,    \* a buffer was freed twice
    overrun,        \* an access outside the array consumers
    subscribed,     \* history: what register_consumer returned 1 for
    overlapped,     \* history: two registrations ran at the same time
    due             \* history: the consumers a copy is for, when it is enqueued

registry == <<queues, exchanges, bindings, started>>
table    == <<consumers, consumer_count, is_consumer>>
frames   == <<stream, unread, cut>>
ghosts   == <<subscribed, overlapped, due>>
vars     == <<registry, alive, peer, table, mutex, pc, loc, content, heap, frames,
              double_free, overrun, ghosts>>

-----------------------------------------------------------------------------
(***************************************************************************)
(* Types and helpers.                                                      *)
(***************************************************************************)
NoLocals ==
    [queue |-> NULL, index |-> 0, message |-> NULL, binding |-> 1, routed |-> 0]

\* The buffers that are allocated: messages as handlers received them, their
\* clones made by broker_publish, and the clones made for queues.
Heap == [received : SUBSET Message, original : SUBSET Message, copies : SUBSET Copy]

CreatedQueues == {q \in QueueName : queues[q] # NULL}

CreatedExchanges == {x \in ExchangeName : exchanges[x] # NULL}

Registering == {c \in Client : pc[c] \in {"name", "index", "count"}}

\* Whoever holds no table entry of its own sees a zeroed one.
EmptyEntry == [queue |-> NULL, client |-> 0]

Running == alive /\ ~overrun

-----------------------------------------------------------------------------
(***************************************************************************)
(* The registry. The broker's main program fills it before it starts the   *)
(* broker. A call that finds the name taken, or the limit reached, changes *)
(* nothing.                                                                *)
(***************************************************************************)
broker_create_queue(q) ==
    /\ ~started
    /\ queues[q] = NULL
    /\ Cardinality(CreatedQueues) < MAX_QUEUES
    /\ queues' = [queues EXCEPT ![q] = <<>>]
    /\ UNCHANGED <<exchanges, bindings, started>>

broker_create_exchange(x) ==
    /\ ~started
    /\ exchanges[x.name] = NULL
    /\ Cardinality(CreatedExchanges) < MAX_EXCHANGES
    /\ exchanges' = [exchanges EXCEPT ![x.name] = x.type]
    /\ UNCHANGED <<queues, bindings, started>>

broker_bind_queue(b) ==
    /\ ~started
    /\ b.exchange \in CreatedExchanges /\ b.queue \in CreatedQueues
    /\ Len(bindings) < MAX_BINDINGS
    /\ bindings' = Append(bindings, b)
    /\ UNCHANGED <<queues, exchanges, started>>

broker_start ==
    /\ ~started
    /\ started' = TRUE
    /\ UNCHANGED <<queues, exchanges, bindings>>

Setup ==
    /\ \/ \E q \in QueueName : broker_create_queue(q)
       \/ \E x \in ExchangeArgs : broker_create_exchange(x)
       \/ \E b \in BindingArgs : broker_bind_queue(b)
       \/ broker_start
    /\ UNCHANGED <<alive, peer, table, mutex, pc, loc, content, heap, frames,
                   double_free, overrun, ghosts>>

-----------------------------------------------------------------------------
(***************************************************************************)
(* Clients come and go. When a client has closed, or sends what is no      *)
(* frame, its handler ends and receives nothing more; the slot keeps its   *)
(* fd and its flag running, so that no other client ever gets it.          *)
(***************************************************************************)
accept(c) ==
    /\ Running /\ started
    /\ pc[c] = "absent"
    /\ \A d \in 0 .. (c - 1) : pc[d] # "absent"
    /\ pc' = [pc EXCEPT ![c] = "idle"]
    /\ peer' = [peer EXCEPT ![c] = "open"]
    /\ UNCHANGED <<registry, alive, table, mutex, loc, content, heap, frames,
                   double_free, overrun, ghosts>>

client_close(c) ==
    /\ Running
    /\ peer[c] = "open"
    /\ peer' = [peer EXCEPT ![c] = "closed"]
    /\ unread' = [unread EXCEPT ![c] = 0]
    /\ UNCHANGED <<registry, alive, table, mutex, pc, loc, content, heap, stream, cut,
                   double_free, overrun, ghosts>>

client_read(c) ==
    /\ Running
    /\ peer[c] = "open" /\ unread[c] > 0
    /\ unread' = [unread EXCEPT ![c] = @ - 1]
    /\ UNCHANGED <<registry, alive, peer, table, mutex, pc, loc, content, heap,
                   stream, cut, double_free, overrun, ghosts>>

-----------------------------------------------------------------------------
(***************************************************************************)
(* Registration. Every statement uses consumer_count, and may reload it or *)
(* use the value loaded before.                                            *)
(***************************************************************************)
\* A full table refuses the registration, which changes nothing.
register_check(c, q) ==
    /\ Running
    /\ pc[c] = "idle" /\ peer[c] = "open"
    /\ [queue |-> q, client |-> c] \in Registrations
    /\ consumer_count < MAX_CONNECTIONS
    /\ pc' = [pc EXCEPT ![c] = "name"]
    /\ loc' = [loc EXCEPT ![c].queue = q, ![c].index = consumer_count]
    /\ overlapped' = (overlapped \/ Registering # {})
    /\ UNCHANGED <<registry, alive, peer, table, mutex, content, heap, frames,
                   double_free, overrun, subscribed, due>>

\* The value loaded before, the current one, or one that it had in between.
IndexRead(c) == (loc[c].index .. consumer_count) \union (consumer_count .. loc[c].index)

\* An assignment to a field of consumers[i].
WriteEntry(i, entry) ==
    \/ /\ i < MAX_CONNECTIONS
       /\ consumers' = [consumers EXCEPT ![i] = entry]
       /\ UNCHANGED overrun
    \/ /\ i >= MAX_CONNECTIONS
       /\ overrun' = TRUE
       /\ UNCHANGED consumers

register_name(c) ==
    /\ Running
    /\ pc[c] = "name"
    /\ \E i \in IndexRead(c) :
         /\ WriteEntry(i, [consumers[i] EXCEPT !.queue = loc[c].queue])
         /\ loc' = [loc EXCEPT ![c].index = i]
    /\ pc' = [pc EXCEPT ![c] = "index"]
    /\ UNCHANGED <<registry, alive, peer, consumer_count, is_consumer, mutex, content,
                   heap, frames, double_free, ghosts>>

Mutant_register_index_absent(c) ==
    /\ Running
    /\ pc[c] = "index"
    /\ pc' = [pc EXCEPT ![c] = "count"]
    /\ UNCHANGED <<registry, alive, peer, consumers, consumer_count, is_consumer,
                   mutex, loc, content, heap, frames, double_free, overrun, ghosts>>

register_index(c) ==
    /\ Running
    /\ pc[c] = "index"
    /\ \E i \in IndexRead(c) :
         /\ WriteEntry(i, [consumers[i] EXCEPT !.client = c])
         /\ loc' = [loc EXCEPT ![c].index = i]
    /\ pc' = [pc EXCEPT ![c] = "count"]
    /\ UNCHANGED <<registry, alive, peer, consumer_count, is_consumer, mutex, content,
                   heap, frames, double_free, ghosts>>

register_count(c) ==
    /\ Running
    /\ pc[c] = "count"
    /\ \E i \in IndexRead(c) : consumer_count' = i + 1
    /\ is_consumer' = [is_consumer EXCEPT ![c] = TRUE]
    /\ subscribed' = subscribed \union {[queue |-> loc[c].queue, client |-> c]}
    /\ pc' = [pc EXCEPT ![c] = "idle"]
    /\ loc' = [loc EXCEPT ![c] = NoLocals]
    /\ UNCHANGED <<registry, alive, peer, consumers, mutex, content, heap, frames,
                   double_free, overrun, overlapped, due>>

-----------------------------------------------------------------------------
(***************************************************************************)
(* Publishing.                                                             *)
(***************************************************************************)
\* A handler receives a message that is no registration. A consumer's message,
\* and one for an exchange that does not exist, is freed: nothing changes.
\* Otherwise broker_publish clones it; if it cannot, it returns at once. (The
\* look-up of the exchange takes the mutex for a moment.)
broker_publish(c, m, x, k) ==
    /\ Running
    /\ pc[c] = "idle" /\ peer[c] = "open"
    /\ content[m] = NULL
    /\ ~is_consumer[c] /\ x \in CreatedExchanges
    /\ mutex = NULL
    /\ content' = [content EXCEPT ![m] = [exchange |-> x, routing_key |-> k]]
    /\ \/ /\ heap' = [heap EXCEPT !.received = @ \union {m}, !.original = @ \union {m}]
          /\ pc' = [pc EXCEPT ![c] = "publish"]
          /\ loc' = [loc EXCEPT ![c].message = m]
       \/ /\ heap' = [heap EXCEPT !.received = @ \union {m}]
          /\ UNCHANGED <<pc, loc>>
    /\ UNCHANGED <<registry, alive, peer, table, mutex, frames, double_free, overrun,
                   ghosts>>

Mutant_TakesMutex_always(c) == mutex' = c

TakesMutex(c) == mutex = NULL /\ mutex' = c

Mutant_ReleasesMutex_never == UNCHANGED mutex

ReleasesMutex == mutex' = NULL

route_begin(c) ==
    /\ Running
    /\ pc[c] = "publish"
    /\ TakesMutex(c)
    /\ pc' = [pc EXCEPT ![c] = "route"]
    /\ UNCHANGED <<registry, alive, peer, table, loc, content, heap, frames, double_free,
                   overrun, ghosts>>

Mutant_Matches_anyExchange(b, m) ==
    \/ exchanges[b.exchange] = "FANOUT"
    \/ /\ exchanges[b.exchange] = "DIRECT"
       /\ b.routing_key = content[m].routing_key
    \/ /\ exchanges[b.exchange] = "TOPIC"
       /\ b.routing_key # NULL
       /\ match_topic(b.routing_key, content[m].routing_key)

\* The test that the loop of broker_route_message makes of a binding.
Matches(b, m) ==
    /\ b.exchange = content[m].exchange
    /\ \/ exchanges[b.exchange] = "FANOUT"
       \/ /\ exchanges[b.exchange] = "DIRECT"
          /\ b.routing_key = content[m].routing_key
       \/ /\ exchanges[b.exchange] = "TOPIC"
          /\ b.routing_key # NULL
          /\ match_topic(b.routing_key, content[m].routing_key)

\* The bindings that the loop has still to visit.
Ahead(c) == {i \in loc[c].binding .. Len(bindings) : Matches(bindings[i], loc[c].message)}

\* The consumers that a copy is for: those whose registration is complete.
Subscribers(q) == {s.client : s \in {t \in subscribed : t.queue = q}}

Mutant_Accepts_always(q) == TRUE

Accepts(q) == Len(queues[q]) # Capacity

Mutant_FreeClone_forgotten(copy) == heap' = [heap EXCEPT !.copies = @ \union {copy}]

\* The clone is made, and freed again.
FreeClone(copy) == UNCHANGED heap

\* The next turn of the loop that finds a binding to route to: the queue takes
\* the clone, or is full, or no clone can be made.
route_binding(c) ==
    /\ Running
    /\ pc[c] = "route"
    /\ \E i \in Ahead(c) :
         LET q    == bindings[i].queue
             copy == [message |-> loc[c].message, binding |-> i]
         IN  /\ \A j \in Ahead(c) : i <= j
             /\ \/ /\ Accepts(q)
                   /\ queues' = [queues EXCEPT ![q] = Append(@, copy)]
                   /\ heap' = [heap EXCEPT !.copies = @ \union {copy}]
                   /\ due' = due \union {[client |-> d, copy |-> copy] : d \in Subscribers(q)}
                   /\ pc' = [pc EXCEPT ![c] = "forward"]
                   /\ loc' = [loc EXCEPT ![c].binding = i, ![c].index = 0,
                                         ![c].routed = @ + 1]
                \/ /\ ~Accepts(q)
                   /\ FreeClone(copy)
                   /\ loc' = [loc EXCEPT ![c].binding = i + 1]
                   /\ UNCHANGED <<queues, due, pc>>
                \/ /\ loc' = [loc EXCEPT ![c].binding = i + 1]
                   /\ UNCHANGED <<queues, heap, due, pc>>
    /\ UNCHANGED <<exchanges, bindings, started, alive, peer, table, mutex, content,
                   frames, double_free, overrun, subscribed, overlapped>>

\* send_message_data to a client. It waits for room in the socket, and a signal may
\* end a call of send after a part of the frame (module Wire). When the client has
\* closed, the send fails, or is lost, or raises SIGPIPE, which nobody catches.
send_message_data(c, copy) ==
    \/ /\ peer[c] = "open" /\ unread[c] < SendBuffer
       /\ unread' = [unread EXCEPT ![c] = @ + 1]
       /\ \/ stream' = [stream EXCEPT ![c] = Append(@, copy)] /\ UNCHANGED cut
          \/ cut' = cut \union {c} /\ UNCHANGED stream
       /\ UNCHANGED alive
    \/ /\ peer[c] = "closed"
       /\ alive' \in BOOLEAN
       /\ UNCHANGED frames

\* The entry the forwarding loop looks at, and whether it sends to it. A slot
\* that was ever taken keeps its fd and its flag running.
EntryFor(c) == consumers[loc[c].index]

IsTarget(c) ==
    /\ EntryFor(c).queue = bindings[loc[c].binding].queue
    /\ pc[EntryFor(c).client] # "absent"

Mutant_InTable_lastLeftOut(c) == loc[c].index + 1 < consumer_count

InTable(c) == loc[c].index < consumer_count

forward_message_to_consumers(c) ==
    /\ Running
    /\ pc[c] = "forward"
    /\ \/ /\ InTable(c) /\ loc[c].index < MAX_CONNECTIONS
          /\ \/ /\ IsTarget(c)
                /\ send_message_data(EntryFor(c).client,
                       [message |-> loc[c].message, binding |-> loc[c].binding])
             \/ ~IsTarget(c) /\ UNCHANGED <<frames, alive>>
          /\ loc' = [loc EXCEPT ![c].index = @ + 1]
          /\ UNCHANGED <<pc, overrun>>
       \/ /\ InTable(c) /\ loc[c].index >= MAX_CONNECTIONS
          /\ overrun' = TRUE
          /\ UNCHANGED <<frames, alive, loc, pc>>
       \/ /\ ~InTable(c)
          /\ pc' = [pc EXCEPT ![c] = "route"]
          /\ loc' = [loc EXCEPT ![c].binding = @ + 1, ![c].index = 0]
          /\ UNCHANGED <<frames, alive, overrun>>
    /\ UNCHANGED <<registry, peer, table, mutex, content, heap, double_free, ghosts>>

Mutant_KeepsOriginal_ifRouted(routed) == routed >= 1

\* broker_route_message leaves the original to its only taker.
KeepsOriginal(routed) == routed = 1

\* After the loop, the original is freed unless exactly one queue took a clone;
\* then, without the mutex, broker_publish frees it if no queue did. The message
\* that was received is left as it is.
publish_end(c) ==
    /\ Running
    /\ pc[c] = "route"
    /\ Ahead(c) = {}
    /\ heap' = IF KeepsOriginal(loc[c].routed) THEN heap
               ELSE [heap EXCEPT !.original = @ \ {loc[c].message}]
    /\ double_free' = (double_free \/ loc[c].routed = 0)
    /\ ReleasesMutex
    /\ pc' = [pc EXCEPT ![c] = "idle"]
    /\ loc' = [loc EXCEPT ![c] = NoLocals]
    /\ UNCHANGED <<registry, alive, peer, table, content, frames, overrun, ghosts>>

-----------------------------------------------------------------------------
Init ==
    /\ queues = [q \in QueueName |-> NULL]
    /\ exchanges = [x \in ExchangeName |-> NULL]
    /\ bindings = <<>>
    /\ started = FALSE
    /\ alive = TRUE
    /\ peer = [c \in Client |-> "absent"]
    /\ is_consumer = [c \in Client |-> FALSE]
    /\ consumers = [i \in Client |-> EmptyEntry]
    /\ consumer_count = 0
    /\ mutex = NULL
    /\ pc = [c \in Client |-> "absent"]
    /\ loc = [c \in Client |-> NoLocals]
    /\ content = [m \in Message |-> NULL]
    /\ heap = [received |-> {}, original |-> {}, copies |-> {}]
    /\ stream = [c \in Client |-> <<>>]
    /\ unread = [c \in Client |-> 0] /\ cut = {}
    /\ double_free = FALSE /\ overrun = FALSE
    /\ subscribed = {} /\ overlapped = FALSE /\ due = {}

Handler(c) ==
    \/ register_name(c)
    \/ register_index(c)
    \/ register_count(c)
    \/ route_begin(c)
    \/ route_binding(c)
    \/ forward_message_to_consumers(c)
    \/ publish_end(c)

Next ==
    \/ Setup
    \/ \E c \in Client :
         \/ accept(c)
         \/ client_close(c)
         \/ client_read(c)
         \/ \E q \in QueueName : register_check(c, q)
         \/ \E m \in Message, x \in ExchangeName, k \in RoutingKey :
              broker_publish(c, m, x, k)
         \/ Handler(c)

Spec == Init /\ [][Next]_vars

\* A handler that can run, runs, and one that waits for the mutex gets it in
\* the end; a client that stays connected reads what it is sent.
Fairness ==
    \A c \in Client :
        /\ SF_vars(Handler(c))
        /\ WF_vars(client_read(c))

FairSpec == Spec /\ Fairness

-----------------------------------------------------------------------------
(***************************************************************************)
(* Properties that hold.                                                   *)
(***************************************************************************)
\* The registry stays within its limits, and every local of a handler within
\* its type.
TypeOK ==
    /\ \A q \in QueueName : queues[q] # NULL =>
          /\ Len(queues[q]) <= Capacity
          /\ \A i \in DOMAIN queues[q] : queues[q][i] \in Copy
    /\ exchanges \in [ExchangeName -> ExchangeType \union {NULL}]
    /\ Len(bindings) <= MAX_BINDINGS /\ \A i \in DOMAIN bindings : bindings[i] \in Binding
    /\ started \in BOOLEAN /\ alive \in BOOLEAN
    /\ double_free \in BOOLEAN /\ overrun \in BOOLEAN /\ overlapped \in BOOLEAN
    /\ peer \in [Client -> {"absent", "open", "closed"}]
    /\ is_consumer \in [Client -> BOOLEAN]
    /\ consumers \in [Client -> [queue : QueueName \union {NULL}, client : Client]]
    /\ consumer_count \in Nat
    /\ mutex \in Client \union {NULL}
    /\ pc \in [Client -> {"absent", "idle", "name", "index", "count",
                          "publish", "route", "forward"}]
    /\ loc \in [Client -> [queue : QueueName \union {NULL}, index : Nat,
                           message : Message \union {NULL}, binding : Nat, routed : Nat]]
    /\ heap \in Heap
    /\ \A c \in Client : unread[c] \in 0 .. SendBuffer
    /\ cut \subseteq Client

Holds(q, i) == queues[q] # NULL /\ i \in DOMAIN queues[q]

\* Position i of queue q holds a copy of message m.
HasAt(q, i, m) == Holds(q, i) /\ queues[q][i].message = m

\* All queues agree on the order of the messages they share: the mutex makes
\* one publish reach all its queues before the next one starts.
SameOrderEverywhere ==
    \A q, r \in CreatedQueues :
        \A i, j \in DOMAIN queues[q], k, l \in DOMAIN queues[r] :
            LET m == queues[q][i].message
                n == queues[q][j].message
            IN  i < j /\ m # n /\ HasAt(r, k, n) /\ HasAt(r, l, m) => l < k

\* No message reaches a queue that the rules of its exchange do not send it to,
\* as the architecture describes them; for a topic exchange, the rule for
\* patterns that the comment in match_topic states.
NeverMisrouted ==
    \A q \in CreatedQueues : \A i \in DOMAIN queues[q] :
        LET b == bindings[queues[q][i].binding]
            m == content[queues[q][i].message]
        IN  /\ b.queue = q /\ b.exchange = m.exchange
            /\ exchanges[b.exchange] = "DIRECT" => b.routing_key = m.routing_key
            /\ exchanges[b.exchange] = "TOPIC" =>
                   b.routing_key # NULL /\ TopicRule(b.routing_key, m.routing_key)

\* For a pattern of a topic binding that is one wildcard, or has none, match_topic
\* decides as the rule in its comment. (It knows no wildcard in a longer pattern:
\* "test.#", which main.c binds with, matches that key alone.)
TopicMatchesAreExact ==
    \A i \in DOMAIN bindings :
        LET b == bindings[i]
        IN  exchanges[b.exchange] = "TOPIC" /\ b.routing_key # NULL
                /\ Supported(b.routing_key)
            => \A k \in RoutingKey :
                 match_topic(b.routing_key, k) <=> TopicRule(b.routing_key, k)

QueuedCopies ==
    UNION {{queues[q][i] : i \in DOMAIN queues[q]} : q \in CreatedQueues}

\* A clone made for a queue is allocated as long as the queue holds it, and one
\* that no queue took has been freed.
CopiesOwned == heap.copies = QueuedCopies

\* When a publish has ended, the clone that it was routed with is freed, unless
\* exactly one queue has taken a copy: the branch for that case frees nothing.
OriginalLeaksOnlyIfRoutedOnce ==
    \A m \in heap.original :
        (\A c \in Client : loc[c].message # m) =>
            Cardinality({copy \in QueuedCopies : copy.message = m}) = 1

PositionIn(q, copy) == CHOOSE i \in DOMAIN queues[q] : queues[q][i] = copy

\* What a consumer is sent from one queue comes in the order of the queue, and
\* is in the queue, however many handlers publish and register meanwhile.
StreamInQueueOrder ==
    \A c \in Client : \A i, j \in DOMAIN stream[c] :
        LET q == bindings[stream[c][i].binding].queue
            r == bindings[stream[c][j].binding].queue
        IN  /\ \E k \in DOMAIN queues[q] : queues[q][k] = stream[c][i]
            /\ i < j /\ q = r =>
                   PositionIn(q, stream[c][i]) <= PositionIn(q, stream[c][j])

Sent(c) == {stream[c][i] : i \in DOMAIN stream[c]}

\* As long as no two registrations have overlapped, the table holds exactly the
\* registrations that were confirmed, within its limit, ...
TableIsSubscriptions ==
    ~overlapped =>
        /\ consumer_count <= MAX_CONNECTIONS
        /\ {consumers[i] : i \in 0 .. (consumer_count - 1)} = subscribed

\* ... and a message that was enqueued reaches every client whose registration
\* for that queue was complete by then, unless the client has left, or a send to it
\* came back short: the code goes on, and the client has lost its place.
EveryConsumerServed ==
    \A d \in due :
        ~overlapped /\ Running /\ mutex = NULL /\ peer[d.client] = "open"
                /\ d.client \notin cut
            => d.copy \in Sent(d.client)

\* A publish comes to its end: no handler waits forever for the mutex or inside
\* a send, as long as connected clients read.
PublishEnds ==
    \A c \in Client :
        pc[c] = "publish" ~> (pc[c] = "idle" \/ ~Running)

-----------------------------------------------------------------------------
(***************************************************************************)
(* Statements of the sources that the code does not keep.                  *)
(***************************************************************************)
\* broker_route_message: "Free the original message if no routing happened".
\* It does, and broker_publish frees the same clone again.
NoDoubleFree == ~double_free

=============================================================================
