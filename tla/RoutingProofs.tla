--------------------------- MODULE RoutingProofs ---------------------------
(***************************************************************************)
(* Theorems about the broker's message path, for any number of queues,     *)
(* exchanges, bindings, clients and messages.                              *)
(***************************************************************************)
EXTENDS Routing, TopicProofs, FiniteSetTheorems, TLAPS

-----------------------------------------------------------------------------
(***************************************************************************)
(* The base of every proof: types, what the registry refers to, who holds  *)
(* the mutex, and whose message is whose.                                  *)
(***************************************************************************)
Entry == [queue : QueueName \union {NULL}, client : Client]

Locals ==
    [queue : QueueName \union {NULL}, index : Nat, message : Message \union {NULL},
     binding : Nat \ {0}, routed : Nat]

\* The registry, and the queues up to their capacity.
RegistryTypes ==
    /\ queues \in [QueueName -> Seq(Copy) \union {NULL}]
    /\ \A q \in QueueName : queues[q] # NULL => Len(queues[q]) <= Capacity
    /\ exchanges \in [ExchangeName -> ExchangeType \union {NULL}]
    /\ bindings \in Seq(Binding) /\ Len(bindings) <= MAX_BINDINGS

\* The table of consumers, and what clients are sent.
ClientTypes ==
    /\ peer \in [Client -> {"absent", "open", "closed"}]
    /\ is_consumer \in [Client -> BOOLEAN]
    /\ consumers \in [Client -> Entry]
    /\ consumer_count \in Nat
    /\ stream \in [Client -> Seq(Copy)]
    /\ unread \in [Client -> 0 .. SendBuffer] /\ cut \subseteq Client
    /\ subscribed \subseteq [queue : QueueName, client : Client]

\* The handlers and the messages.
HandlerTypes ==
    /\ pc \in [Client -> {"absent", "idle", "name", "index", "count",
                          "publish", "route", "forward"}]
    /\ loc \in [Client -> Locals]
    /\ mutex \in Client \union {NULL}
    /\ content \in [Message -> Content \union {NULL}]
    /\ heap \in Heap

Flags ==
    /\ started \in BOOLEAN /\ alive \in BOOLEAN /\ double_free \in BOOLEAN
    /\ overrun \in BOOLEAN /\ overlapped \in BOOLEAN

\* A binding is between an exchange and a queue that exist.
BoundExist ==
    \A i \in DOMAIN bindings :
        bindings[i].exchange \in CreatedExchanges /\ bindings[i].queue \in CreatedQueues

Publishing(c) == pc[c] \in {"publish", "route", "forward"}

Inside(c) == pc[c] \in {"route", "forward"}

\* The holder of the mutex is the one handler inside broker_route_message.
Exclusion == \A c \in Client : Inside(c) <=> mutex = c

\* A handler has a message as long as it publishes, that message was sent with
\* something, and no other handler has it. One that registers has a queue.
Carrying ==
    /\ \A c \in Client :
         /\ Publishing(c) => loc[c].message \in Message /\ content[loc[c].message] # NULL
         /\ ~Publishing(c) => loc[c].message = NULL
         /\ pc[c] \in {"name", "index", "count"} => loc[c].queue \in QueueName
    /\ \A c, d \in Client :
         loc[c].message = loc[d].message /\ loc[c].message # NULL => c = d

Base ==
    RegistryTypes /\ ClientTypes /\ HandlerTypes /\ Flags /\ BoundExist /\ Exclusion /\ Carrying

\* An entry of the table with one field written is an entry.
LEMMA EntryQueueWritten ==
  ASSUME NEW e \in Entry, NEW q \in QueueName
  PROVE  [e EXCEPT !.queue = q] \in Entry
  BY DEF Entry

\* Writing the client's index into an entry of the table gives an entry.
LEMMA EntryClientWritten ==
  ASSUME NEW e \in Entry, NEW c \in Client
  PROVE  [e EXCEPT !.client = c] \in Entry
  BY DEF Entry

\* What a step makes of the locals of handler c: register_check, ...
LEMMA LocalsChecked ==
  ASSUME loc \in [Client -> Locals], NEW c \in Client, NEW q \in QueueName, NEW i \in Nat,
         loc' = [loc EXCEPT ![c].queue = q, ![c].index = i]
  PROVE  /\ loc' \in [Client -> Locals]
         /\ \A d \in Client \ {c} : loc'[d] = loc[d]
         /\ loc'[c].queue = q /\ loc'[c].index = i /\ loc'[c].message = loc[c].message
         /\ loc'[c].binding = loc[c].binding /\ loc'[c].routed = loc[c].routed
<1>1. loc' \in [Client -> Locals]
  BY DEF Locals
<1>2. \A d \in Client \ {c} : loc'[d] = loc[d]
  OBVIOUS
<1>3. loc[c] \in Locals /\ loc'[c] = [loc[c] EXCEPT !.queue = q, !.index = i]
  OBVIOUS
<1>4. loc'[c].queue = q /\ loc'[c].index = i
  BY <1>3 DEF Locals
<1>5. /\ loc'[c].message = loc[c].message
      /\ loc'[c].binding = loc[c].binding /\ loc'[c].routed = loc[c].routed
  BY <1>3 DEF Locals
<1> QED  BY <1>1, <1>2, <1>4, <1>5

\* ... broker_publish, ...
LEMMA LocalsPublished ==
  ASSUME loc \in [Client -> Locals], NEW c \in Client, NEW m \in Message,
         loc' = [loc EXCEPT ![c].message = m]
  PROVE  /\ loc' \in [Client -> Locals]
         /\ \A d \in Client \ {c} : loc'[d] = loc[d]
         /\ loc'[c].queue = loc[c].queue /\ loc'[c].index = loc[c].index
         /\ loc'[c].message = m
         /\ loc'[c].binding = loc[c].binding /\ loc'[c].routed = loc[c].routed
<1>1. loc' \in [Client -> Locals]
  BY DEF Locals
<1>2. \A d \in Client \ {c} : loc'[d] = loc[d]
  OBVIOUS
<1>3. /\ loc'[c].queue = loc[c].queue /\ loc'[c].index = loc[c].index
      /\ loc'[c].message = m
      /\ loc'[c].binding = loc[c].binding /\ loc'[c].routed = loc[c].routed
  BY DEF Locals
<1> QED  BY <1>1, <1>2, <1>3

\* ... the end of a forwarding loop, ...
LEMMA LocalsForwarded ==
  ASSUME loc \in [Client -> Locals], NEW c \in Client,
         loc' = [loc EXCEPT ![c].binding = @ + 1, ![c].index = 0]
  PROVE  /\ loc' \in [Client -> Locals]
         /\ \A d \in Client \ {c} : loc'[d] = loc[d]
         /\ loc'[c].queue = loc[c].queue /\ loc'[c].index = 0
         /\ loc'[c].message = loc[c].message
         /\ loc'[c].binding = loc[c].binding + 1 /\ loc'[c].routed = loc[c].routed
<1>2. \A d \in Client \ {c} : loc'[d] = loc[d]
  OBVIOUS
<1>3. loc[c] \in Locals /\ loc'[c] = [loc[c] EXCEPT !.binding = loc[c].binding + 1, !.index = 0]
  OBVIOUS
<1>4. loc'[c].binding = loc[c].binding + 1 /\ loc'[c].index = 0
  BY <1>3 DEF Locals
<1>5. /\ loc'[c].queue = loc[c].queue /\ loc'[c].message = loc[c].message
      /\ loc'[c].routed = loc[c].routed
  BY <1>3 DEF Locals
<1>6. loc'[c] \in Locals
  <2>1. loc[c].binding + 1 \in Nat \ {0}
    BY <1>3 DEF Locals
  <2> DEFINE b == loc[c].binding + 1
  <2>2. b \in Nat \ {0} /\ loc'[c] = [loc[c] EXCEPT !.binding = b, !.index = 0]
    BY <1>3, <2>1
  <2> HIDE DEF b
  <2> QED  BY <1>3, <2>2 DEF Locals
<1>7. loc' = [loc EXCEPT ![c] = loc'[c]]
  OBVIOUS
<1>8. loc' \in [Client -> Locals]
  BY <1>6, <1>7
<1> QED  BY <1>2, <1>4, <1>5, <1>8

\* ... and a queue that has taken a clone.
LEMMA LocalsRouted ==
  ASSUME loc \in [Client -> Locals], NEW c \in Client, NEW b \in Nat \ {0},
         loc' = [loc EXCEPT ![c].binding = b, ![c].index = 0, ![c].routed = @ + 1]
  PROVE  /\ loc' \in [Client -> Locals]
         /\ \A d \in Client \ {c} : loc'[d] = loc[d]
         /\ loc'[c].queue = loc[c].queue /\ loc'[c].index = 0
         /\ loc'[c].message = loc[c].message
         /\ loc'[c].binding = b /\ loc'[c].routed = loc[c].routed + 1
<1>1. loc' \in [Client -> Locals]
  BY DEF Locals
<1>2. \A d \in Client \ {c} : loc'[d] = loc[d]
  OBVIOUS
<1>3. /\ loc[c] \in Locals
      /\ loc'[c] = [loc[c] EXCEPT !.binding = b, !.index = 0, !.routed = loc[c].routed + 1]
  OBVIOUS
<1>4. loc'[c].binding = b /\ loc'[c].index = 0 /\ loc'[c].routed = loc[c].routed + 1
  BY <1>3 DEF Locals
<1>5. loc'[c].queue = loc[c].queue /\ loc'[c].message = loc[c].message
  BY <1>3 DEF Locals
<1> QED  BY <1>1, <1>2, <1>4, <1>5

\* The buffers that broker_publish allocates.
LEMMA HeapReceived ==
  ASSUME heap \in Heap, NEW m \in Message,
         \/ heap' = [heap EXCEPT !.received = @ \union {m}, !.original = @ \union {m}]
         \/ heap' = [heap EXCEPT !.received = @ \union {m}]
  PROVE  heap' \in Heap /\ heap'.copies = heap.copies
<1>1. heap' \in Heap
  BY DEF Heap
<1> QED  BY <1>1 DEF Heap

\* The types and the lock discipline hold in the beginning.
LEMMA InitBase == Init => Base
<1> SUFFICES ASSUME Init PROVE Base
  OBVIOUS
<1> USE LimitsAssumption, NullAssumption DEF Init
<1>1. RegistryTypes
  BY DEF RegistryTypes
<1>2. 0 \in Client /\ 0 \in 0 .. SendBuffer
  BY DEF Client
<1>3. ClientTypes
  BY <1>2 DEF ClientTypes, EmptyEntry, Entry
<1>4. HandlerTypes
  BY DEF HandlerTypes, NoLocals, Locals, Heap
<1>5. Flags
  BY DEF Flags
<1>6. BoundExist
  BY DEF BoundExist
<1>7. Exclusion
  BY DEF Exclusion, Inside
<1>8. Carrying
  BY DEF Carrying, Publishing, NoLocals
<1> QED  BY <1>1, <1>3, <1>4, <1>5, <1>6, <1>7, <1>8 DEF Base

\* What the operations on the registry leave alone.
LEMMA SetupBase == Base /\ Setup => Base'
<1> SUFFICES ASSUME Base, Setup PROVE Base'
  OBVIOUS
<1> USE LimitsAssumption, NullAssumption, ArgsAssumption
<1>1. ClientTypes' /\ HandlerTypes' /\ Exclusion' /\ Carrying'
  BY DEF Base, Setup, table, frames, ghosts, ClientTypes, HandlerTypes, Exclusion, Carrying,
         Inside, Publishing
<1>2. Flags'
  BY DEF Base, Flags, Setup, table, frames, ghosts, broker_create_queue,
         broker_create_exchange, broker_bind_queue, broker_start
<1>3. ASSUME NEW q \in QueueName, broker_create_queue(q)
      PROVE  RegistryTypes' /\ BoundExist'
  BY <1>3 DEF broker_create_queue, Base, RegistryTypes, BoundExist, CreatedQueues,
              CreatedExchanges
<1>4. ASSUME NEW x \in ExchangeArgs, broker_create_exchange(x)
      PROVE  RegistryTypes' /\ BoundExist'
  BY <1>4 DEF broker_create_exchange, Base, RegistryTypes, BoundExist, CreatedQueues,
              CreatedExchanges
<1>5. ASSUME NEW b \in BindingArgs, broker_bind_queue(b)
      PROVE  RegistryTypes' /\ BoundExist'
  BY <1>5 DEF broker_bind_queue, Base, RegistryTypes, BoundExist, CreatedQueues,
              CreatedExchanges
<1>6. CASE broker_start
  BY <1>1, <1>2, <1>6 DEF broker_start, Base, RegistryTypes, BoundExist, CreatedQueues,
                          CreatedExchanges
<1> QED  BY <1>1, <1>2, <1>3, <1>4, <1>5, <1>6 DEF Setup, Base

\* Clients that come and go.
LEMMA ClientsBase ==
  ASSUME Base, NEW c \in Client, accept(c) \/ client_close(c) \/ client_read(c)
  PROVE  Base'
<1> USE LimitsAssumption, NullAssumption
<1>1. RegistryTypes' /\ BoundExist' /\ Flags'
  BY DEF Base, RegistryTypes, BoundExist, Flags, CreatedQueues, CreatedExchanges, registry,
         ghosts, accept, client_close, client_read
<1>2. ClientTypes'
  <2>1. peer' \in [Client -> {"absent", "open", "closed"}]
    BY DEF Base, ClientTypes, accept, client_close, client_read
  <2>2. unread' \in [Client -> 0 .. SendBuffer]
    BY DEF Base, ClientTypes, frames, accept, client_close, client_read
  <2> QED
    BY <2>1, <2>2 DEF Base, ClientTypes, table, frames, ghosts, accept, client_close,
                      client_read
<1>3. HandlerTypes'
  BY DEF Base, HandlerTypes, accept, client_close, client_read
<1>4. Exclusion' /\ Carrying'
  BY DEF Base, HandlerTypes, Exclusion, Carrying, Inside, Publishing, accept, client_close,
         client_read
<1> QED  BY <1>1, <1>2, <1>3, <1>4 DEF Base

\* The four steps of a registration.
Registers(c) ==
    \/ \E q \in QueueName : register_check(c, q)
    \/ register_name(c)
    \/ register_index(c)
    \/ register_count(c)

\* A registration, which takes no lock, keeps them.
LEMMA RegistersBase ==
  ASSUME Base, NEW c \in Client, Registers(c)
  PROVE  Base'
<1> USE LimitsAssumption, NullAssumption
<1>1. RegistryTypes' /\ BoundExist'
  BY DEF Base, RegistryTypes, BoundExist, CreatedQueues, CreatedExchanges, registry,
         Registers, register_check, register_name, register_index, register_count
<1>2. Flags'
  <2>1. overlapped' \in BOOLEAN
    BY DEF Base, Flags, ghosts, Registers, register_check, register_name, register_index,
           register_count
  <2>2. overrun' \in BOOLEAN
    BY DEF Base, Flags, WriteEntry, Registers, register_check, register_name,
           register_index, register_count
  <2> QED  BY <2>1, <2>2 DEF Base, Flags, registry, Registers, register_check,
                             register_name, register_index, register_count
<1>3. \A i \in IndexRead(c) : i \in Nat
  BY DEF Base, ClientTypes, HandlerTypes, Locals, IndexRead
<1>4. ASSUME NEW q \in QueueName, register_check(c, q)
      PROVE  ClientTypes' /\ HandlerTypes' /\ Exclusion' /\ Carrying'
  <2>1. ClientTypes'
    BY <1>4 DEF register_check, Base, ClientTypes, table, frames
  <2>2. /\ loc' \in [Client -> Locals] /\ \A d \in Client \ {c} : loc'[d] = loc[d]
        /\ loc'[c].queue = q /\ loc'[c].message = loc[c].message
    <3>1. loc \in [Client -> Locals] /\ consumer_count \in Nat
      BY DEF Base, ClientTypes, HandlerTypes
    <3>2. loc' = [loc EXCEPT ![c].queue = q, ![c].index = consumer_count]
      BY <1>4 DEF register_check
    <3> QED  BY <3>1, <3>2, LocalsChecked
  <2>3. HandlerTypes'
    BY <1>4, <2>2 DEF register_check, Base, HandlerTypes
  <2>4. \A d \in Client : /\ loc'[d].message = loc[d].message
                          /\ d # c => loc'[d].queue = loc[d].queue
    BY <2>2
  <2>5. Exclusion' /\ Carrying'
    BY <1>4, <2>2, <2>4 DEF register_check, Base, HandlerTypes, Exclusion, Carrying,
                            Inside, Publishing
  <2> QED  BY <2>1, <2>3, <2>5
<1>5. CASE register_name(c)
  <2>1. PICK i \in Nat : /\ WriteEntry(i, [consumers[i] EXCEPT !.queue = loc[c].queue])
                         /\ loc' = [loc EXCEPT ![c].index = i]
    BY <1>3, <1>5 DEF register_name
  <2>2. ClientTypes'
    <3>1. i < MAX_CONNECTIONS => i \in Client
      BY DEF Client
    <3>2. i \in Client => [consumers[i] EXCEPT !.queue = loc[c].queue] \in Entry
      BY <1>5, EntryQueueWritten DEF register_name, Base, ClientTypes, Carrying
    <3>3. consumers' \in [Client -> Entry]
      BY <2>1, <3>1, <3>2 DEF WriteEntry, Base, ClientTypes
    <3> QED  BY <1>5, <3>3 DEF register_name, Base, ClientTypes, frames, ghosts
  <2>3. HandlerTypes'
    <3>1. loc' \in [Client -> Locals]
      BY <2>1 DEF Base, HandlerTypes, Locals
    <3> QED  BY <1>5, <3>1 DEF register_name, Base, HandlerTypes
  <2>4. \A d \in Client : loc'[d].message = loc[d].message /\ loc'[d].queue = loc[d].queue
    BY <2>1 DEF Base, HandlerTypes, Locals
  <2>5. Exclusion' /\ Carrying'
    BY <1>5, <2>4 DEF register_name, Base, HandlerTypes, Exclusion, Carrying, Inside, Publishing
  <2> QED  BY <1>1, <1>2, <2>2, <2>3, <2>5 DEF Base
<1>6. CASE register_index(c)
  <2>1. PICK i \in Nat : /\ WriteEntry(i, [consumers[i] EXCEPT !.client = c])
                         /\ loc' = [loc EXCEPT ![c].index = i]
    BY <1>3, <1>6 DEF register_index
  <2>2. ClientTypes'
    <3>1. i < MAX_CONNECTIONS => i \in Client
      BY DEF Client
    <3>2. i \in Client => [consumers[i] EXCEPT !.client = c] \in Entry
      BY EntryClientWritten DEF Base, ClientTypes, Carrying
    <3>3. consumers' \in [Client -> Entry]
      BY <2>1, <3>1, <3>2 DEF WriteEntry, Base, ClientTypes
    <3> QED  BY <1>6, <3>3 DEF register_index, Base, ClientTypes, frames, ghosts
  <2>3. HandlerTypes'
    <3>1. loc' \in [Client -> Locals]
      BY <2>1 DEF Base, HandlerTypes, Locals
    <3> QED  BY <1>6, <3>1 DEF register_index, Base, HandlerTypes
  <2>4. \A d \in Client : loc'[d].message = loc[d].message /\ loc'[d].queue = loc[d].queue
    BY <2>1 DEF Base, HandlerTypes, Locals
  <2>5. Exclusion' /\ Carrying'
    BY <1>6, <2>4 DEF register_index, Base, HandlerTypes, Exclusion, Carrying, Inside, Publishing
  <2> QED  BY <1>1, <1>2, <2>2, <2>3, <2>5 DEF Base
<1>7. CASE register_count(c)
  <2>1. ClientTypes'
    <3>1. consumer_count' \in Nat
      BY <1>3, <1>7 DEF register_count
    <3>2. is_consumer' \in [Client -> BOOLEAN]
      BY <1>7 DEF register_count, Base, ClientTypes
    <3>3. subscribed' \subseteq [queue : QueueName, client : Client]
      BY <1>7 DEF register_count, Base, ClientTypes, Carrying
    <3> QED  BY <1>7, <3>1, <3>2, <3>3 DEF register_count, Base, ClientTypes, frames
  <2>2. HandlerTypes'
    BY <1>7 DEF register_count, Base, HandlerTypes, Locals, NoLocals
  <2>3. Exclusion' /\ Carrying'
    BY <1>7 DEF register_count, Base, HandlerTypes, Locals, NoLocals, Exclusion, Carrying,
                Inside, Publishing
  <2> QED  BY <1>1, <1>2, <2>1, <2>2, <2>3 DEF Base
<1> QED  BY <1>1, <1>2, <1>4, <1>5, <1>6, <1>7 DEF Registers, Base

\* A message that is published and routed.
LEMMA PublishesBase ==
  ASSUME Base, NEW c \in Client,
         \/ \E m \in Message, x \in ExchangeName, k \in RoutingKey : broker_publish(c, m, x, k)
         \/ route_begin(c)
  PROVE  Base'
<1> USE LimitsAssumption, NullAssumption
<1>1. RegistryTypes' /\ BoundExist' /\ Flags' /\ ClientTypes'
  BY DEF Base, RegistryTypes, BoundExist, Flags, ClientTypes, CreatedQueues, CreatedExchanges,
         registry, table, frames, ghosts, broker_publish, route_begin
<1>2. ASSUME NEW m \in Message, NEW x \in ExchangeName, NEW k \in RoutingKey,
             broker_publish(c, m, x, k)
      PROVE  Base'
  <2> loc \in [Client -> Locals] /\ heap \in Heap
    BY DEF Base, HandlerTypes
  <2>1. content' \in [Message -> Content \union {NULL}] /\ content'[m] # NULL
    <3>1. [exchange |-> x, routing_key |-> k] \in Content
      BY DEF Content
    <3>2. content' = [content EXCEPT ![m] = [exchange |-> x, routing_key |-> k]]
      BY <1>2 DEF broker_publish
    <3> QED  BY <3>1, <3>2 DEF Base, HandlerTypes
  <2>2. \/ /\ heap' = [heap EXCEPT !.received = @ \union {m}, !.original = @ \union {m}]
           /\ pc' = [pc EXCEPT ![c] = "publish"] /\ loc' = [loc EXCEPT ![c].message = m]
        \/ /\ heap' = [heap EXCEPT !.received = @ \union {m}]
           /\ pc' = pc /\ loc' = loc
    BY <1>2 DEF broker_publish
  <2>3. heap' \in Heap
    BY <2>2, HeapReceived
  <2>4. HandlerTypes'
    <3>1. loc' \in [Client -> Locals]
      BY <2>2, LocalsPublished
    <3> QED  BY <1>2, <2>1, <2>2, <2>3, <3>1 DEF broker_publish, Base, HandlerTypes
  <2>5. /\ \A d \in Client \ {c} : loc'[d] = loc[d]
        /\ loc'[c].queue = loc[c].queue
    BY <2>2, LocalsPublished
  <2>6. \/ pc' = pc /\ loc' = loc
        \/ pc' = [pc EXCEPT ![c] = "publish"] /\ loc'[c].message = m
    BY <2>2, LocalsPublished
  <2>7. pc[c] = "idle" /\ \A d \in Client : loc[d].message # m
    BY <1>2 DEF broker_publish, Base, HandlerTypes, Carrying
  <2>8. Exclusion'
    BY <1>2, <2>6, <2>7 DEF broker_publish, Base, HandlerTypes, Exclusion, Inside
  <2>9. \A n \in Message : content[n] # NULL => content'[n] # NULL
    BY <1>2, <2>1 DEF broker_publish, Base, HandlerTypes
  <2>10. Carrying'
    BY <2>1, <2>5, <2>6, <2>7, <2>9 DEF Base, HandlerTypes, Carrying, Publishing
  <2> QED  BY <1>1, <2>4, <2>8, <2>10 DEF Base
<1>3. CASE route_begin(c)
  <2>1. HandlerTypes'
    BY <1>3 DEF route_begin, TakesMutex, Base, HandlerTypes
  <2>2. Exclusion' /\ Carrying'
    BY <1>3 DEF route_begin, TakesMutex, Base, HandlerTypes, Exclusion, Carrying, Inside,
                Publishing
  <2> QED  BY <1>1, <2>1, <2>2 DEF Base
<1> QED  BY <1>2, <1>3

\* The end of a publish.
LEMMA PublishEndBase ==
  ASSUME Base, NEW c \in Client, publish_end(c)
  PROVE  Base'
<1> USE LimitsAssumption, NullAssumption
<1>1. RegistryTypes' /\ BoundExist' /\ ClientTypes'
  BY DEF Base, RegistryTypes, BoundExist, ClientTypes, CreatedQueues, CreatedExchanges,
         registry, table, frames, ghosts, publish_end
<1>2. Flags'
  BY DEF Base, Flags, registry, ghosts, publish_end
<1>3. HandlerTypes'
  <2>1. heap' \in Heap
    BY DEF Base, HandlerTypes, Heap, publish_end
  <2>2. NoLocals \in Locals
    BY DEF NoLocals, Locals
  <2> QED  BY <2>1, <2>2 DEF Base, HandlerTypes, publish_end, ReleasesMutex
<1>4. Exclusion'
  BY DEF Base, HandlerTypes, Exclusion, Inside, publish_end, ReleasesMutex
<1>5. Carrying'
  BY DEF Base, HandlerTypes, Carrying, Publishing, NoLocals, publish_end
<1> QED  BY <1>1, <1>2, <1>3, <1>4, <1>5 DEF Base

\* The locals of a handler that routes change in these three fields.
Moves(c, index, binding, routed) ==
    /\ loc' \in [Client -> Locals]
    /\ \A d \in Client \ {c} : loc'[d] = loc[d]
    /\ loc'[c].queue = loc[c].queue /\ loc'[c].message = loc[c].message
    /\ loc'[c].index = index /\ loc'[c].binding = binding /\ loc'[c].routed = routed

CopyFor(c, i) == [message |-> loc[c].message, binding |-> i]

\* The queue of binding i takes the clone that handler c has made, ...
Takes(c, i) ==
    /\ Len(queues[bindings[i].queue]) < Capacity
    /\ queues' = [queues EXCEPT ![bindings[i].queue] = Append(@, CopyFor(c, i))]
    /\ heap' = [heap EXCEPT !.copies = @ \union {CopyFor(c, i)}]
    /\ due' = due \union
         {[client |-> d, copy |-> CopyFor(c, i)] : d \in Subscribers(bindings[i].queue)}
    /\ pc' = [pc EXCEPT ![c] = "forward"]
    /\ Moves(c, 0, i, loc[c].routed + 1)

\* ... or the handler goes on without it.
Skips(c, i) ==
    /\ UNCHANGED <<queues, heap, due, pc>>
    /\ Moves(c, loc[c].index, i + 1, loc[c].routed)

\* The two outcomes of a turn of the loop over the bindings.
LEMMA RouteBindingStep ==
  ASSUME Base, NEW c \in Client, route_binding(c)
  PROVE  /\ Running /\ pc[c] = "route" /\ mutex = c
         /\ loc[c].message \in Message /\ content[loc[c].message] # NULL
         /\ \E i \in DOMAIN bindings :
              /\ i \in Nat /\ i >= loc[c].binding
              /\ Matches(bindings[i], loc[c].message)
              /\ bindings[i].queue \in CreatedQueues
              /\ CopyFor(c, i) \in Copy
              /\ Takes(c, i) \/ Skips(c, i)
         /\ UNCHANGED <<exchanges, bindings, started, alive, peer, table, mutex, content,
                        frames, double_free, overrun, subscribed, overlapped>>
<1> USE LimitsAssumption, NullAssumption
<1>1. /\ Running /\ pc[c] = "route" /\ mutex = c
      /\ loc[c].message \in Message /\ content[loc[c].message] # NULL
  BY DEF route_binding, Base, Exclusion, Inside, Carrying, Publishing
<1>2. UNCHANGED <<exchanges, bindings, started, alive, peer, table, mutex, content,
                  frames, double_free, overrun, subscribed, overlapped>>
  BY DEF route_binding
<1>3. PICK i \in Ahead(c) :
        \/ /\ Accepts(bindings[i].queue)
           /\ queues' = [queues EXCEPT ![bindings[i].queue] = Append(@, CopyFor(c, i))]
           /\ heap' = [heap EXCEPT !.copies = @ \union {CopyFor(c, i)}]
           /\ due' = due \union {[client |-> d, copy |-> CopyFor(c, i)] :
                                   d \in Subscribers(bindings[i].queue)}
           /\ pc' = [pc EXCEPT ![c] = "forward"]
           /\ loc' = [loc EXCEPT ![c].binding = i, ![c].index = 0, ![c].routed = @ + 1]
        \/ /\ loc' = [loc EXCEPT ![c].binding = i + 1]
           /\ UNCHANGED <<queues, heap, due, pc>>
  BY DEF route_binding, FreeClone, CopyFor
<1>4. loc \in [Client -> Locals] /\ loc[c] \in Locals /\ bindings \in Seq(Binding)
  BY DEF Base, HandlerTypes, RegistryTypes
<1>5. /\ i \in Nat \ {0} /\ i >= loc[c].binding /\ i \in DOMAIN bindings
      /\ i <= Len(bindings) /\ Matches(bindings[i], loc[c].message)
  BY <1>4 DEF Ahead, Locals
<1>6. bindings[i].queue \in CreatedQueues
  BY <1>5 DEF Base, BoundExist
<1>7. CopyFor(c, i) \in Copy
  <2>1. i \in 1 .. MAX_BINDINGS
    BY <1>5 DEF Base, RegistryTypes
  <2> QED  BY <1>1, <2>1 DEF CopyFor, Copy
<1>8. ASSUME Accepts(bindings[i].queue),
             loc' = [loc EXCEPT ![c].binding = i, ![c].index = 0, ![c].routed = @ + 1]
      PROVE  /\ Len(queues[bindings[i].queue]) < Capacity
             /\ Moves(c, 0, i, loc[c].routed + 1)
  <2>1. Moves(c, 0, i, loc[c].routed + 1)
    BY <1>4, <1>5, <1>8, LocalsRouted DEF Moves
  <2>2. /\ bindings[i].queue \in QueueName
        /\ queues[bindings[i].queue] \in Seq(Copy)
        /\ Len(queues[bindings[i].queue]) <= Capacity
    BY <1>6 DEF CreatedQueues, Base, RegistryTypes
  <2> QED  BY <1>8, <2>1, <2>2 DEF Accepts
<1>9. ASSUME loc' = [loc EXCEPT ![c].binding = i + 1]
      PROVE  Moves(c, loc[c].index, i + 1, loc[c].routed)
  <2> DEFINE b == i + 1
  <2>1. b \in Nat \ {0} /\ loc' = [loc EXCEPT ![c].binding = b]
    BY <1>5, <1>9
  <2> HIDE DEF b
  <2>2. loc' \in [Client -> Locals]
    BY <1>4, <2>1 DEF Locals
  <2>3. \A d \in Client \ {c} : loc'[d] = loc[d]
    BY <1>4, <2>1
  <2>4. /\ loc'[c].queue = loc[c].queue /\ loc'[c].message = loc[c].message
        /\ loc'[c].index = loc[c].index /\ loc'[c].binding = b /\ loc'[c].routed = loc[c].routed
    BY <1>4, <2>1 DEF Locals
  <2> QED  BY <2>2, <2>3, <2>4 DEF Moves, b
<1>10. Takes(c, i) \/ Skips(c, i)
  BY <1>3, <1>8, <1>9 DEF Takes, Skips
<1> QED  BY <1>1, <1>2, <1>5, <1>6, <1>7, <1>10

\* A turn of the loop over the bindings keeps them.
LEMMA RouteBindingBase ==
  ASSUME Base, NEW c \in Client, route_binding(c)
  PROVE  Base'
<1> USE LimitsAssumption, NullAssumption
<1>1. PICK i \in DOMAIN bindings :
        /\ i \in Nat /\ bindings[i].queue \in CreatedQueues /\ CopyFor(c, i) \in Copy
        /\ Takes(c, i) \/ Skips(c, i)
  BY RouteBindingStep
<1>2. /\ pc[c] = "route"
      /\ UNCHANGED <<exchanges, bindings, started, alive, peer, table, mutex, content,
                     frames, double_free, overrun, subscribed, overlapped>>
  BY RouteBindingStep
<1>3. ClientTypes' /\ Flags'
  BY <1>2 DEF Base, ClientTypes, Flags, table, frames
<1>4. ASSUME NEW b, NEW n, NEW k, Moves(c, k, b, n), pc'[c] \in {"route", "forward"},
             \A d \in Client \ {c} : pc'[d] = pc[d]
      PROVE  Exclusion' /\ Carrying'
  <2>1. \A d \in Client : /\ loc'[d].message = loc[d].message
                          /\ loc'[d].queue = loc[d].queue
    BY <1>4 DEF Moves
  <2>2. Exclusion'
    BY <1>2, <1>4 DEF Base, Exclusion, Inside
  <2>3. Carrying'
    BY <1>2, <1>4, <2>1 DEF Base, Carrying, Publishing
  <2> QED  BY <2>2, <2>3
<1>5. CASE Takes(c, i)
  <2> DEFINE q == bindings[i].queue
             copy == CopyFor(c, i)
  <2>1. q \in QueueName /\ queues[q] # NULL /\ queues[q] \in Seq(Copy)
    BY <1>1 DEF CreatedQueues, Base, RegistryTypes
  <2> HIDE DEF q, copy
  <2>2. queues' = [queues EXCEPT ![q] = Append(@, copy)] /\ Len(queues[q]) < Capacity
    BY <1>5 DEF Takes, q, copy
  <2>3. /\ Append(queues[q], copy) \in Seq(Copy)
        /\ Len(Append(queues[q], copy)) = Len(queues[q]) + 1
    BY <1>1, <2>1 DEF copy
  <2>4. RegistryTypes'
    <3>1. queues' \in [QueueName -> Seq(Copy) \union {NULL}]
      BY <2>1, <2>2, <2>3 DEF Base, RegistryTypes
    <3>2. \A r \in QueueName : queues'[r] # NULL => Len(queues'[r]) <= Capacity
      BY <2>1, <2>2, <2>3 DEF Base, RegistryTypes
    <3> QED  BY <1>2, <3>1, <3>2 DEF Base, RegistryTypes
  <2>5. CreatedQueues' = CreatedQueues
    BY <2>1, <2>2, <2>3 DEF Base, RegistryTypes, CreatedQueues
  <2>6. BoundExist'
    BY <1>2, <2>5 DEF Base, BoundExist, CreatedExchanges
  <2>7. HandlerTypes'
    <3>1. heap' \in Heap
      BY <1>1, <1>5 DEF Takes, Base, HandlerTypes, Heap
    <3> QED  BY <1>2, <1>5, <3>1 DEF Takes, Moves, Base, HandlerTypes
  <2>8. Exclusion' /\ Carrying'
    <3>1. pc'[c] = "forward" /\ \A d \in Client \ {c} : pc'[d] = pc[d]
      BY <1>5 DEF Takes, Base, HandlerTypes
    <3> QED  BY <1>4, <1>5, <3>1 DEF Takes
  <2> QED  BY <1>3, <2>4, <2>6, <2>7, <2>8 DEF Base
<1>6. CASE Skips(c, i)
  <2>1. RegistryTypes' /\ BoundExist'
    BY <1>2, <1>6 DEF Skips, Base, RegistryTypes, BoundExist, CreatedQueues, CreatedExchanges
  <2>2. HandlerTypes'
    BY <1>2, <1>6 DEF Skips, Moves, Base, HandlerTypes
  <2>3. Exclusion' /\ Carrying'
    BY <1>2, <1>4, <1>6 DEF Skips
  <2> QED  BY <1>3, <2>1, <2>2, <2>3 DEF Base
<1> QED  BY <1>1, <1>5, <1>6

\* The outcomes of a turn of the forwarding loop: the entry is sent the copy, or is
\* passed over, ...
Serves(c) ==
    /\ loc[c].index < consumer_count /\ loc[c].index \in Client
    /\ \/ IsTarget(c) /\ send_message_data(EntryFor(c).client, CopyFor(c, loc[c].binding))
       \/ ~IsTarget(c) /\ UNCHANGED <<frames, alive>>
    /\ Moves(c, loc[c].index + 1, loc[c].binding, loc[c].routed)
    /\ UNCHANGED <<pc, overrun>>

\* ... or lies outside the array, ...
Overruns(c) ==
    /\ overrun' = TRUE
    /\ UNCHANGED <<frames, alive, loc, pc>>

\* ... or the loop is over.
Served(c) ==
    /\ loc[c].index >= consumer_count
    /\ pc' = [pc EXCEPT ![c] = "route"]
    /\ Moves(c, 0, loc[c].binding + 1, loc[c].routed)
    /\ UNCHANGED <<frames, alive, overrun>>

\* A turn of the forwarding loop has one of these outcomes, and happens under the mutex.
LEMMA ForwardStep ==
  ASSUME Base, NEW c \in Client, forward_message_to_consumers(c)
  PROVE  /\ Running /\ pc[c] = "forward" /\ mutex = c
         /\ loc[c].message \in Message /\ content[loc[c].message] # NULL
         /\ Serves(c) \/ Overruns(c) \/ Served(c)
         /\ UNCHANGED <<registry, peer, table, mutex, content, heap, double_free, ghosts>>
<1> USE LimitsAssumption, NullAssumption
<1>1. /\ Running /\ pc[c] = "forward" /\ mutex = c
      /\ loc[c].message \in Message /\ content[loc[c].message] # NULL
  BY DEF forward_message_to_consumers, Base, Exclusion, Inside, Carrying, Publishing
<1>2. UNCHANGED <<registry, peer, table, mutex, content, heap, double_free, ghosts>>
  BY DEF forward_message_to_consumers
<1>3. loc \in [Client -> Locals] /\ loc[c] \in Locals /\ consumer_count \in Nat
  BY DEF Base, HandlerTypes, ClientTypes
<1>4. loc[c].index \in Nat /\ loc[c].binding \in Nat \ {0}
  BY <1>3 DEF Locals
<1>5. loc[c].index < MAX_CONNECTIONS => loc[c].index \in Client
  BY <1>4 DEF Client
<1>6. ASSUME loc' = [loc EXCEPT ![c].index = @ + 1]
      PROVE  Moves(c, loc[c].index + 1, loc[c].binding, loc[c].routed)
  <2>1. loc' \in [Client -> Locals]
    <3> DEFINE k == loc[c].index + 1
    <3>1. k \in Nat /\ loc' = [loc EXCEPT ![c].index = k]
      BY <1>4, <1>6
    <3> HIDE DEF k
    <3> QED  BY <1>3, <3>1 DEF Locals
  <2>2. \A d \in Client \ {c} : loc'[d] = loc[d]
    BY <1>3, <1>6
  <2>3. /\ loc'[c].queue = loc[c].queue /\ loc'[c].message = loc[c].message
        /\ loc'[c].index = loc[c].index + 1 /\ loc'[c].binding = loc[c].binding
        /\ loc'[c].routed = loc[c].routed
    BY <1>3, <1>6 DEF Locals
  <2> QED  BY <2>1, <2>2, <2>3 DEF Moves
<1>7. ASSUME loc' = [loc EXCEPT ![c].binding = @ + 1, ![c].index = 0]
      PROVE  Moves(c, 0, loc[c].binding + 1, loc[c].routed)
  BY <1>3, <1>7, LocalsForwarded DEF Moves
<1>8. \/ /\ InTable(c) /\ loc[c].index < MAX_CONNECTIONS
         /\ \/ IsTarget(c) /\ send_message_data(EntryFor(c).client, CopyFor(c, loc[c].binding))
            \/ ~IsTarget(c) /\ UNCHANGED <<frames, alive>>
         /\ loc' = [loc EXCEPT ![c].index = @ + 1]
         /\ UNCHANGED <<pc, overrun>>
      \/ Overruns(c)
      \/ /\ ~InTable(c)
         /\ pc' = [pc EXCEPT ![c] = "route"]
         /\ loc' = [loc EXCEPT ![c].binding = @ + 1, ![c].index = 0]
         /\ UNCHANGED <<frames, alive, overrun>>
  BY DEF forward_message_to_consumers, Overruns, CopyFor
<1>9. Serves(c) \/ Overruns(c) \/ Served(c)
  BY <1>3, <1>4, <1>5, <1>6, <1>7, <1>8 DEF InTable, Serves, Served
<1> QED  BY <1>1, <1>2, <1>9

\* It keeps the types and the lock discipline.
LEMMA ForwardBase ==
  ASSUME Base, NEW c \in Client, forward_message_to_consumers(c),
         loc[c].binding \in DOMAIN bindings
  PROVE  Base'
<1> USE LimitsAssumption, NullAssumption
<1>1. /\ pc[c] = "forward" /\ loc[c].message \in Message
      /\ UNCHANGED <<registry, peer, table, mutex, content, heap, double_free, ghosts>>
  BY ForwardStep
<1>2. RegistryTypes' /\ BoundExist'
  BY <1>1 DEF registry, Base, RegistryTypes, BoundExist, CreatedQueues, CreatedExchanges
<1>3. CopyFor(c, loc[c].binding) \in Copy
  <2>1. loc[c].binding \in 1 .. MAX_BINDINGS
    BY DEF Base, RegistryTypes
  <2> QED  BY <1>1, <2>1 DEF CopyFor, Copy
<1>4. CASE Serves(c)
  <2>1. EntryFor(c).client \in Client
    BY <1>4 DEF Serves, EntryFor, Base, ClientTypes, Entry
  <2> DEFINE d == EntryFor(c).client
             copy == CopyFor(c, loc[c].binding)
  <2>2. \/ send_message_data(d, copy)
        \/ UNCHANGED <<frames, alive>>
    BY <1>4 DEF Serves
  <2>3. d \in Client /\ copy \in Copy
    BY <1>3, <2>1
  <2> HIDE DEF d, copy
  <2>4. stream' \in [Client -> Seq(Copy)]
    <3>1. stream \in [Client -> Seq(Copy)] /\ Append(stream[d], copy) \in Seq(Copy)
      BY <2>3 DEF Base, ClientTypes
    <3> QED  BY <2>2, <2>3, <3>1 DEF send_message_data, frames
  <2>5. unread' \in [Client -> 0 .. SendBuffer]
    BY <2>2, <2>3 DEF send_message_data, frames, Base, ClientTypes
  <2>6. alive' \in BOOLEAN
    BY <2>2 DEF send_message_data, Base, Flags
  <2>12. cut' \subseteq Client
    BY <2>2, <2>3 DEF send_message_data, frames, Base, ClientTypes
  <2>7. ClientTypes'
    BY <1>1, <2>4, <2>5, <2>12 DEF table, ghosts, Base, ClientTypes
  <2>8. Flags'
    BY <1>1, <1>4, <2>6 DEF Serves, registry, ghosts, Base, Flags
  <2>9. HandlerTypes'
    BY <1>1, <1>4 DEF Serves, Moves, Base, HandlerTypes
  <2>10. \A e \in Client : loc'[e].message = loc[e].message /\ loc'[e].queue = loc[e].queue
    BY <1>4 DEF Serves, Moves
  <2>11. Exclusion' /\ Carrying'
    BY <1>1, <1>4, <2>10 DEF Serves, Base, Exclusion, Carrying, Inside, Publishing
  <2> QED  BY <1>2, <2>7, <2>8, <2>9, <2>11 DEF Base
<1>5. CASE Overruns(c)
  <2>1. ClientTypes' /\ HandlerTypes'
    BY <1>1, <1>5 DEF Overruns, frames, table, ghosts, Base, ClientTypes, HandlerTypes
  <2>2. Flags'
    BY <1>1, <1>5 DEF Overruns, registry, ghosts, Base, Flags
  <2>3. Exclusion' /\ Carrying'
    BY <1>1, <1>5 DEF Overruns, Base, Exclusion, Carrying, Inside, Publishing
  <2> QED  BY <1>2, <2>1, <2>2, <2>3 DEF Base
<1>6. CASE Served(c)
  <2>1. ClientTypes'
    BY <1>1, <1>6 DEF Served, frames, table, ghosts, Base, ClientTypes
  <2>2. HandlerTypes'
    BY <1>1, <1>6 DEF Served, Moves, Base, HandlerTypes
  <2>3. Flags'
    BY <1>1, <1>6 DEF Served, registry, ghosts, Base, Flags
  <2>4. \A e \in Client : loc'[e].message = loc[e].message /\ loc'[e].queue = loc[e].queue
    BY <1>6 DEF Served, Moves
  <2>5. Exclusion' /\ Carrying'
    BY <1>1, <1>6, <2>4 DEF Served, Base, HandlerTypes, Exclusion, Carrying, Inside,
                            Publishing
  <2> QED  BY <1>2, <2>1, <2>2, <2>3, <2>5 DEF Base
<1> QED  BY <1>4, <1>5, <1>6, ForwardStep

\* A handler that forwards is at a binding.
AtBinding == \A c \in Client : pc[c] = "forward" => loc[c].binding \in DOMAIN bindings

\* A handler that forwards is at a binding that it has found.
LEMMA NextAtBinding == Base /\ AtBinding /\ [Next]_vars => AtBinding'
<1> SUFFICES ASSUME Base, AtBinding, [Next]_vars PROVE AtBinding'
  OBVIOUS
<1> USE LimitsAssumption, NullAssumption
<1>1. loc \in [Client -> Locals] /\ bindings \in Seq(Binding)
  BY DEF Base, HandlerTypes, RegistryTypes
<1>2. CASE UNCHANGED vars
  BY <1>2 DEF vars, registry, AtBinding
<1>3. CASE Setup
  <2>1. DOMAIN bindings \subseteq DOMAIN bindings'
    BY <1>1, <1>3, ArgsAssumption
       DEF Setup, broker_create_queue, broker_create_exchange, broker_bind_queue, broker_start
  <2> QED  BY <1>3, <2>1 DEF Setup, AtBinding
<1>4. ASSUME NEW c \in Client, accept(c) \/ client_close(c) \/ client_read(c)
      PROVE  AtBinding'
  BY <1>4 DEF accept, client_close, client_read, registry, AtBinding, Base, HandlerTypes
<1>5. ASSUME NEW c \in Client, Registers(c)
      PROVE  AtBinding'
  <2>1. /\ pc'[c] # "forward" /\ \A d \in Client \ {c} : pc'[d] = pc[d]
        /\ bindings' = bindings
    BY <1>5 DEF Registers, register_check, register_name, register_index, register_count,
                registry, Base, HandlerTypes
  <2>2. \A d \in Client \ {c} : loc'[d] = loc[d]
    BY <1>1, <1>5 DEF Registers, register_check, register_name, register_index, register_count
  <2> QED  BY <2>1, <2>2 DEF AtBinding
<1>6. ASSUME NEW c \in Client, NEW m \in Message, NEW x \in ExchangeName,
             NEW k \in RoutingKey, broker_publish(c, m, x, k)
      PROVE  AtBinding'
  <2>1. /\ pc'[c] # "forward" /\ \A d \in Client \ {c} : pc'[d] = pc[d]
        /\ bindings' = bindings
    BY <1>6 DEF broker_publish, registry, Base, HandlerTypes
  <2>2. \A d \in Client \ {c} : loc'[d] = loc[d]
    BY <1>1, <1>6 DEF broker_publish
  <2> QED  BY <2>1, <2>2 DEF AtBinding
<1>7. ASSUME NEW c \in Client, route_begin(c) \/ publish_end(c)
      PROVE  AtBinding'
  <2>1. /\ pc'[c] # "forward" /\ \A d \in Client \ {c} : pc'[d] = pc[d]
        /\ bindings' = bindings
    BY <1>7 DEF route_begin, publish_end, registry, Base, HandlerTypes
  <2>2. \A d \in Client \ {c} : loc'[d] = loc[d]
    BY <1>1, <1>7 DEF route_begin, publish_end
  <2> QED  BY <2>1, <2>2 DEF AtBinding
<1>8. ASSUME NEW c \in Client, route_binding(c)
      PROVE  AtBinding'
  <2>1. PICK i \in DOMAIN bindings : Takes(c, i) \/ Skips(c, i)
    BY <1>8, RouteBindingStep
  <2>2. pc[c] = "route" /\ bindings' = bindings
    BY <1>8, RouteBindingStep
  <2>3. \A d \in Client \ {c} : pc'[d] = pc[d] /\ loc'[d] = loc[d]
    BY <2>1 DEF Takes, Skips, Moves, Base, HandlerTypes
  <2>4. pc'[c] = "forward" => loc'[c].binding = i
    BY <2>1, <2>2 DEF Takes, Skips, Moves, Base, HandlerTypes
  <2> QED  BY <2>2, <2>3, <2>4 DEF AtBinding
<1>9. ASSUME NEW c \in Client, forward_message_to_consumers(c)
      PROVE  AtBinding'
  <2>1. /\ Serves(c) \/ Overruns(c) \/ Served(c)
        /\ pc[c] = "forward" /\ bindings' = bindings
    BY <1>9, ForwardStep DEF registry
  <2>2. \A d \in Client \ {c} : pc'[d] = pc[d] /\ loc'[d] = loc[d]
    BY <2>1 DEF Serves, Overruns, Served, Moves, Base, HandlerTypes
  <2>3. pc'[c] = "forward" => loc'[c].binding = loc[c].binding
    BY <2>1 DEF Serves, Overruns, Served, Moves, Base, HandlerTypes
  <2> QED  BY <2>1, <2>2, <2>3 DEF AtBinding
<1> QED
  BY <1>2, <1>3, <1>4, <1>5, <1>6, <1>7, <1>8, <1>9 DEF Next, Handler, Registers

\* The base holds in every state.
LEMMA AlwaysBase == Spec => [](Base /\ AtBinding)
<1>1. Init => Base /\ AtBinding
  BY InitBase DEF Init, AtBinding
<1>2. Base /\ AtBinding /\ [Next]_vars => (Base /\ AtBinding)'
  <2> SUFFICES ASSUME Base, AtBinding, [Next]_vars PROVE Base'
    BY NextAtBinding
  <2>1. CASE UNCHANGED vars
    BY <2>1 DEF vars, registry, table, frames, ghosts, Base, RegistryTypes, ClientTypes,
                HandlerTypes, Flags, BoundExist, Exclusion, Carrying, CreatedQueues,
                CreatedExchanges, Inside, Publishing
  <2>2. CASE Setup
    BY <2>2, SetupBase
  <2>3. ASSUME NEW c \in Client, accept(c) \/ client_close(c) \/ client_read(c)
        PROVE  Base'
    BY <2>3, ClientsBase
  <2>4. ASSUME NEW c \in Client, Registers(c)
        PROVE  Base'
    BY <2>4, RegistersBase
  <2>5. ASSUME NEW c \in Client,
               \/ \E m \in Message, x \in ExchangeName, k \in RoutingKey :
                    broker_publish(c, m, x, k)
               \/ route_begin(c)
        PROVE  Base'
    BY <2>5, PublishesBase
  <2>6. ASSUME NEW c \in Client, route_binding(c)
        PROVE  Base'
    BY <2>6, RouteBindingBase
  <2>7. ASSUME NEW c \in Client, forward_message_to_consumers(c)
        PROVE  Base'
    <3>1. loc[c].binding \in DOMAIN bindings
      BY <2>7, ForwardStep DEF AtBinding
    <3> QED  BY <2>7, <3>1, ForwardBase
  <2>8. ASSUME NEW c \in Client, publish_end(c)
        PROVE  Base'
    BY <2>8, PublishEndBase
  <2> QED
    BY <2>1, <2>2, <2>3, <2>4, <2>5, <2>6, <2>7, <2>8 DEF Next, Handler, Registers
<1> QED  BY <1>1, <1>2, PTL DEF Spec

\* Every variable keeps its type, the registry stays within its limits, and no
\* queue exceeds its capacity.
THEOREM TypeCorrect == Spec => []TypeOK
<1>1. Base => TypeOK
  <2> SUFFICES ASSUME Base PROVE TypeOK
    OBVIOUS
  <2> USE LimitsAssumption, NullAssumption
  <2>1. \A q \in QueueName : queues[q] # NULL =>
          /\ Len(queues[q]) <= Capacity
          /\ \A i \in DOMAIN queues[q] : queues[q][i] \in Copy
    BY DEF Base, RegistryTypes
  <2>2. /\ exchanges \in [ExchangeName -> ExchangeType \union {NULL}]
        /\ Len(bindings) <= MAX_BINDINGS /\ \A i \in DOMAIN bindings : bindings[i] \in Binding
    BY DEF Base, RegistryTypes
  <2>3. /\ started \in BOOLEAN /\ alive \in BOOLEAN
        /\ double_free \in BOOLEAN /\ overrun \in BOOLEAN /\ overlapped \in BOOLEAN
    BY DEF Base, Flags
  <2>4. /\ peer \in [Client -> {"absent", "open", "closed"}]
        /\ is_consumer \in [Client -> BOOLEAN]
        /\ consumers \in [Client -> [queue : QueueName \union {NULL}, client : Client]]
        /\ consumer_count \in Nat
        /\ \A c \in Client : unread[c] \in 0 .. SendBuffer
        /\ cut \subseteq Client
    BY DEF Base, ClientTypes, Entry
  <2>5. loc \in [Client -> [queue : QueueName \union {NULL}, index : Nat,
                           message : Message \union {NULL}, binding : Nat, routed : Nat]]
    <3>1. Locals \subseteq [queue : QueueName \union {NULL}, index : Nat,
                           message : Message \union {NULL}, binding : Nat, routed : Nat]
      BY DEF Locals
    <3> QED  BY <3>1 DEF Base, HandlerTypes
  <2>6. /\ mutex \in Client \union {NULL}
        /\ pc \in [Client -> {"absent", "idle", "name", "index", "count",
                              "publish", "route", "forward"}]
        /\ heap \in Heap
    BY DEF Base, HandlerTypes
  <2> QED  BY <2>1, <2>2, <2>3, <2>4, <2>5, <2>6 DEF TypeOK
<1> QED  BY <1>1, AlwaysBase, PTL

-----------------------------------------------------------------------------
(***************************************************************************)
(* What a step does to the queues. Only a clone that is taken changes one; *)
(* bindings, exchanges and the contents of messages are written once.      *)
(***************************************************************************)
WrittenOnce ==
    /\ CreatedQueues \subseteq CreatedQueues'
    /\ DOMAIN bindings \subseteq DOMAIN bindings'
    /\ \A i \in DOMAIN bindings : bindings'[i] = bindings[i]
    /\ \A x \in CreatedExchanges : exchanges'[x] = exchanges[x]
    /\ \A m \in Message : content[m] # NULL => content'[m] = content[m]

\* No queue is changed; one that is new is empty.
QueuesKept ==
    /\ \A q \in CreatedQueues : queues'[q] = queues[q]
    /\ \A q \in CreatedQueues' : q \notin CreatedQueues => queues'[q] = <<>>
    /\ heap'.copies = heap.copies

SameHandler(c) ==
    /\ pc'[c] = pc[c] /\ loc'[c].message = loc[c].message
    /\ loc'[c].binding = loc[c].binding /\ loc'[c].routed = loc[c].routed

\* Where a handler gets in a step in which no queue takes a clone.
Advances(c) ==
    \/ /\ ~Publishing(c)'
       /\ \/ ~Publishing(c) /\ loc'[c].routed \in {0, loc[c].routed}
          \/ pc[c] = "route" /\ loc'[c].routed = 0
    \/ SameHandler(c)
    \/ /\ ~Publishing(c) /\ pc'[c] = "publish" /\ loc'[c].routed = loc[c].routed
       /\ loc'[c].message \in Message /\ content[loc'[c].message] = NULL
    \/ /\ loc'[c].message = loc[c].message /\ loc'[c].routed = loc[c].routed
       /\ \/ pc[c] = "publish" /\ pc'[c] = "route"
          \/ pc[c] = "route" /\ pc'[c] = "route" /\ loc'[c].binding > loc[c].binding
          \/ pc[c] = "forward" /\ pc'[c] = "route" /\ loc'[c].binding = loc[c].binding + 1

\* Queue of binding i takes a copy of the message of handler c.
TakesOne(c, i) ==
    /\ i \in DOMAIN bindings /\ i \in Nat /\ i >= loc[c].binding
    /\ pc[c] = "route" /\ mutex = c
    /\ loc[c].message \in Message /\ content[loc[c].message] # NULL
    /\ Matches(bindings[i], loc[c].message)
    /\ bindings[i].queue \in CreatedQueues
    /\ CopyFor(c, i) \in Copy
    /\ Takes(c, i)
    /\ UNCHANGED <<exchanges, bindings, started, alive, peer, table, mutex, content,
                   frames, double_free, overrun, subscribed, overlapped>>

\* A step leaves all queues alone, or adds one copy to one queue under the mutex.
LEMMA QueuesStep ==
  ASSUME Base, AtBinding, [Next]_vars
  PROVE  /\ WrittenOnce
         /\ \/ QueuesKept /\ \A c \in Client : Advances(c)
            \/ \E c \in Client, i \in DOMAIN bindings : TakesOne(c, i)
<1> USE LimitsAssumption, NullAssumption
<1> DEFINE Quiet == QueuesKept /\ \A c \in Client : Advances(c)
<1>1. /\ loc \in [Client -> Locals] /\ bindings \in Seq(Binding)
      /\ pc \in [Client -> {"absent", "idle", "name", "index", "count",
                            "publish", "route", "forward"}]
  BY DEF Base, HandlerTypes, RegistryTypes
<1>2. ASSUME UNCHANGED <<queues, exchanges, bindings, content>> PROVE WrittenOnce
  BY <1>2 DEF WrittenOnce, CreatedQueues
<1>3. ASSUME UNCHANGED <<queues, heap>> PROVE QueuesKept
  BY <1>3 DEF QueuesKept, CreatedQueues
<1>4. ASSUME UNCHANGED <<pc, loc>> PROVE \A c \in Client : Advances(c)
  BY <1>4 DEF Advances, SameHandler
<1>5. CASE UNCHANGED vars
  BY <1>2, <1>3, <1>4, <1>5 DEF vars, registry
<1>6. CASE Setup
  <2>1. \A c \in Client : Advances(c)
    BY <1>4, <1>6 DEF Setup
  <2>2. heap' = heap /\ content' = content
    BY <1>6 DEF Setup
  <2>3. ASSUME NEW q \in QueueName, broker_create_queue(q)
        PROVE  WrittenOnce /\ QueuesKept
    BY <2>2, <2>3 DEF broker_create_queue, WrittenOnce, QueuesKept, CreatedQueues, Base,
                      RegistryTypes
  <2>4. ASSUME NEW x \in ExchangeArgs, broker_create_exchange(x)
        PROVE  WrittenOnce /\ QueuesKept
    BY <1>3, <2>2, <2>4, ArgsAssumption
       DEF broker_create_exchange, WrittenOnce, CreatedQueues, CreatedExchanges, Base,
           RegistryTypes
  <2>5. ASSUME NEW b \in BindingArgs, broker_bind_queue(b)
        PROVE  WrittenOnce /\ QueuesKept
    BY <1>1, <1>3, <2>2, <2>5, ArgsAssumption
       DEF broker_bind_queue, WrittenOnce, CreatedQueues
  <2>6. CASE broker_start
    BY <1>2, <1>3, <2>1, <2>2, <2>6 DEF broker_start
  <2> QED  BY <1>6, <2>1, <2>3, <2>4, <2>5, <2>6 DEF Setup
<1>7. ASSUME NEW c \in Client, accept(c) \/ client_close(c) \/ client_read(c)
      PROVE  WrittenOnce /\ Quiet
  <2>1. UNCHANGED <<queues, exchanges, bindings, content, heap, loc>>
    BY <1>7 DEF accept, client_close, client_read, registry
  <2>2. \A d \in Client : Advances(d)
    BY <1>1, <1>7, <2>1 DEF accept, client_close, client_read, Advances, SameHandler, Publishing
  <2> QED  BY <1>2, <1>3, <2>1, <2>2
<1>8. ASSUME NEW c \in Client, Registers(c)
      PROVE  WrittenOnce /\ Quiet
  <2>1. UNCHANGED <<queues, exchanges, bindings, content, heap>>
    BY <1>8 DEF Registers, register_check, register_name, register_index, register_count,
                registry
  <2>2. /\ ~Publishing(c) /\ ~Publishing(c)'
        /\ \A d \in Client \ {c} : pc'[d] = pc[d]
    BY <1>1, <1>8 DEF Registers, register_check, register_name, register_index,
                      register_count, Publishing
  <2>3. \A d \in Client \ {c} : loc'[d] = loc[d]
    BY <1>1, <1>8 DEF Registers, register_check, register_name, register_index, register_count
  <2>4. loc'[c].routed \in {0, loc[c].routed}
    <3>1. CASE \E q \in QueueName : register_check(c, q)
      <4>1. PICK q \in QueueName :
              loc' = [loc EXCEPT ![c].queue = q, ![c].index = consumer_count]
        BY <3>1 DEF register_check
      <4> QED  BY <1>1, <4>1, LocalsChecked DEF Base, ClientTypes
    <3>2. CASE register_name(c) \/ register_index(c)
      <4>1. PICK k : loc' = [loc EXCEPT ![c].index = k]
        BY <3>2 DEF register_name, register_index
      <4> QED  BY <1>1, <4>1 DEF Locals
    <3>3. CASE register_count(c)
      BY <1>1, <3>3 DEF register_count, NoLocals
    <3> QED  BY <1>8, <3>1, <3>2, <3>3 DEF Registers
  <2>5. \A d \in Client : Advances(d)
    BY <2>2, <2>3, <2>4 DEF Advances, SameHandler
  <2> QED  BY <1>2, <1>3, <2>1, <2>5
<1>9. ASSUME NEW c \in Client, NEW m \in Message, NEW x \in ExchangeName,
             NEW k \in RoutingKey, broker_publish(c, m, x, k)
      PROVE  WrittenOnce /\ Quiet
  <2>1. /\ queues' = queues /\ exchanges' = exchanges /\ bindings' = bindings
        /\ content[m] = NULL /\ \A n \in Message \ {m} : content'[n] = content[n]
    BY <1>9 DEF broker_publish, registry, Base, HandlerTypes
  <2>2. heap'.copies = heap.copies
    BY <1>9, HeapReceived DEF broker_publish, Base, HandlerTypes
  <2>3. \/ UNCHANGED <<pc, loc>>
        \/ pc' = [pc EXCEPT ![c] = "publish"] /\ loc' = [loc EXCEPT ![c].message = m]
    BY <1>9 DEF broker_publish
  <2>4. CASE UNCHANGED <<pc, loc>>
    BY <1>4, <2>1, <2>2, <2>4 DEF WrittenOnce, QueuesKept, CreatedQueues
  <2>5. CASE pc' = [pc EXCEPT ![c] = "publish"] /\ loc' = [loc EXCEPT ![c].message = m]
    <3>1. /\ loc'[c].message = m /\ loc'[c].routed = loc[c].routed
          /\ \A d \in Client \ {c} : loc'[d] = loc[d]
      BY <1>1, <2>5, LocalsPublished
    <3>2. ~Publishing(c) /\ pc'[c] = "publish" /\ \A d \in Client \ {c} : pc'[d] = pc[d]
      BY <1>1, <1>9, <2>5 DEF broker_publish, Publishing
    <3>3. \A d \in Client : Advances(d)
      BY <2>1, <3>1, <3>2 DEF Advances, SameHandler
    <3> QED  BY <2>1, <2>2, <3>3 DEF WrittenOnce, QueuesKept, CreatedQueues
  <2> QED  BY <2>3, <2>4, <2>5
<1>10. ASSUME NEW c \in Client, route_begin(c)
       PROVE  WrittenOnce /\ Quiet
  <2>1. UNCHANGED <<queues, exchanges, bindings, content, heap, loc>>
    BY <1>10 DEF route_begin, registry
  <2>2. \A d \in Client : Advances(d)
    BY <1>1, <1>10, <2>1 DEF route_begin, Advances, SameHandler
  <2> QED  BY <1>2, <1>3, <2>1, <2>2
<1>11. ASSUME NEW c \in Client, publish_end(c)
       PROVE  WrittenOnce /\ Quiet
  <2>1. UNCHANGED <<queues, exchanges, bindings, content>>
    BY <1>11 DEF publish_end, registry
  <2>2. heap'.copies = heap.copies
    BY <1>11 DEF publish_end, Base, HandlerTypes, Heap
  <2>3. /\ pc[c] = "route" /\ ~Publishing(c)' /\ loc'[c].routed = 0
        /\ \A d \in Client \ {c} : pc'[d] = pc[d] /\ loc'[d] = loc[d]
    BY <1>1, <1>11 DEF publish_end, Publishing, NoLocals
  <2>4. \A d \in Client : Advances(d)
    BY <2>3 DEF Advances, SameHandler
  <2> QED  BY <1>2, <2>1, <2>2, <2>4 DEF QueuesKept, CreatedQueues
<1>12. ASSUME NEW c \in Client, route_binding(c)
       PROVE  WrittenOnce /\ (Quiet \/ \E i \in DOMAIN bindings : TakesOne(c, i))
  <2>1. PICK i \in DOMAIN bindings :
          /\ i \in Nat /\ i >= loc[c].binding
          /\ Matches(bindings[i], loc[c].message)
          /\ bindings[i].queue \in CreatedQueues
          /\ CopyFor(c, i) \in Copy
          /\ Takes(c, i) \/ Skips(c, i)
    BY <1>12, RouteBindingStep
  <2>2. /\ pc[c] = "route" /\ mutex = c
        /\ loc[c].message \in Message /\ content[loc[c].message] # NULL
        /\ UNCHANGED <<exchanges, bindings, started, alive, peer, table, mutex, content,
                       frames, double_free, overrun, subscribed, overlapped>>
    BY <1>12, RouteBindingStep
  <2>3. CASE Takes(c, i)
    <3>1. TakesOne(c, i)
      BY <2>1, <2>2, <2>3 DEF TakesOne
    <3>2. CreatedQueues \subseteq CreatedQueues'
      <4> DEFINE q == bindings[i].queue
                 new == Append(queues[q], CopyFor(c, i))
      <4>1. q \in QueueName /\ new \in Seq(Copy)
        BY <2>1 DEF CreatedQueues, Base, RegistryTypes
      <4>2. queues' = [queues EXCEPT ![q] = new]
        BY <2>3 DEF Takes
      <4> HIDE DEF q, new
      <4> QED  BY <4>1, <4>2 DEF CreatedQueues, Base, RegistryTypes
    <3> QED  BY <2>2, <3>1, <3>2 DEF WrittenOnce
  <2>4. CASE Skips(c, i)
    <3>1. \A d \in Client : Advances(d)
      <4>1. loc'[c].binding > loc[c].binding
        BY <1>1, <2>1, <2>4 DEF Skips, Moves, Locals
      <4> QED  BY <2>2, <2>4, <4>1 DEF Skips, Moves, Advances, SameHandler
    <3> QED  BY <1>2, <1>3, <2>2, <2>4, <3>1 DEF Skips
  <2> QED  BY <2>1, <2>3, <2>4
<1>13. ASSUME NEW c \in Client, forward_message_to_consumers(c)
       PROVE  WrittenOnce /\ Quiet
  <2>1. /\ pc[c] = "forward" /\ (Serves(c) \/ Overruns(c) \/ Served(c))
        /\ UNCHANGED <<queues, exchanges, bindings, content, heap>>
    BY <1>13, ForwardStep DEF registry
  <2>2. \A d \in Client : Advances(d)
    <3>1. CASE Serves(c)
      BY <3>1 DEF Serves, Moves, Advances, SameHandler
    <3>2. CASE Overruns(c)
      BY <3>2 DEF Overruns, Advances, SameHandler
    <3>3. CASE Served(c)
      <4>1. pc'[c] = "route" /\ \A d \in Client \ {c} : pc'[d] = pc[d]
        BY <1>1, <3>3 DEF Served
      <4> QED  BY <2>1, <3>3, <4>1 DEF Served, Moves, Advances, SameHandler
    <3> QED  BY <2>1, <3>1, <3>2, <3>3
  <2> QED  BY <1>2, <1>3, <2>1, <2>2
<1>14. CASE \E c \in Client :
              \/ accept(c) \/ client_close(c) \/ client_read(c) \/ Registers(c)
              \/ \E m \in Message, x \in ExchangeName, k \in RoutingKey :
                   broker_publish(c, m, x, k)
              \/ route_begin(c) \/ publish_end(c) \/ forward_message_to_consumers(c)
  <2> HIDE DEF Quiet
  <2>1. WrittenOnce /\ Quiet
    <3> PICK c \in Client :
              \/ accept(c) \/ client_close(c) \/ client_read(c) \/ Registers(c)
              \/ \E m \in Message, x \in ExchangeName, k \in RoutingKey :
                   broker_publish(c, m, x, k)
              \/ route_begin(c) \/ publish_end(c) \/ forward_message_to_consumers(c)
      BY <1>14
    <3>1. CASE accept(c) \/ client_close(c) \/ client_read(c)
      BY <1>7, <3>1
    <3>2. CASE \E m \in Message, x \in ExchangeName, k \in RoutingKey :
                 broker_publish(c, m, x, k)
      BY <1>9, <3>2
    <3> QED  BY <1>8, <1>10, <1>11, <1>13, <3>1, <3>2
  <2> QED  BY <2>1 DEF Quiet
<1>15. CASE \E c \in Client : route_binding(c)
  BY <1>12, <1>15
<1> HIDE DEF Quiet
<1> QED
  BY <1>5, <1>6, <1>14, <1>15 DEF Next, Handler, Registers

\* The queue of binding i after it has taken the clone of handler c.
GrowsBy(q, copy) ==
    /\ q \in CreatedQueues /\ CreatedQueues' = CreatedQueues
    /\ \A r \in CreatedQueues : r # q => queues'[r] = queues[r]
    /\ Len(queues[q]) \in Nat /\ Len(queues'[q]) = Len(queues[q]) + 1
    /\ DOMAIN queues[q] = 1 .. Len(queues[q])
    /\ DOMAIN queues'[q] = 1 .. (Len(queues[q]) + 1)
    /\ \A k \in 1 .. Len(queues[q]) : queues'[q][k] = queues[q][k]
    /\ queues'[q][Len(queues[q]) + 1] = copy

\* That copy is added at the end of the queue.
LEMMA TakenGrows ==
  ASSUME Base, NEW c \in Client, NEW i \in DOMAIN bindings, TakesOne(c, i)
  PROVE  GrowsBy(bindings[i].queue, CopyFor(c, i))
<1> DEFINE q == bindings[i].queue
           copy == CopyFor(c, i)
<1>1. q \in QueueName /\ q \in CreatedQueues /\ queues[q] \in Seq(Copy) /\ copy \in Copy
  BY DEF TakesOne, CreatedQueues, Base, RegistryTypes
<1>2. queues' = [queues EXCEPT ![q] = Append(@, copy)]
  BY DEF TakesOne, Takes
<1> HIDE DEF q, copy
<1>3. queues'[q] = Append(queues[q], copy) /\ \A r \in QueueName : r # q => queues'[r] = queues[r]
  BY <1>1, <1>2 DEF Base, RegistryTypes
<1>4. Append(queues[q], copy) \in Seq(Copy)
  BY <1>1
<1>5. CreatedQueues' = CreatedQueues
  BY <1>1, <1>3, <1>4, NullAssumption DEF CreatedQueues
<1>6. /\ Len(queues[q]) \in Nat /\ DOMAIN queues[q] = 1 .. Len(queues[q])
      /\ Len(queues'[q]) = Len(queues[q]) + 1
      /\ DOMAIN queues'[q] = 1 .. (Len(queues[q]) + 1)
  BY <1>1, <1>3, <1>4
<1>7. /\ \A k \in 1 .. Len(queues[q]) : queues'[q][k] = queues[q][k]
      /\ queues'[q][Len(queues[q]) + 1] = copy
  BY <1>1, <1>3
<1>8. \A r \in CreatedQueues : r # q => queues'[r] = queues[r]
  BY <1>3 DEF CreatedQueues
<1>9. GrowsBy(q, copy)
  BY <1>1, <1>5, <1>6, <1>7, <1>8 DEF GrowsBy
<1> QED  BY <1>9 DEF q, copy

-----------------------------------------------------------------------------
(***************************************************************************)
(* What the queues hold.                                                   *)
(***************************************************************************)
\* Every copy is in the queue of its binding, which its message matches.
Sound ==
    \A q \in CreatedQueues : \A i \in DOMAIN queues[q] :
        /\ queues[q][i].binding \in DOMAIN bindings
        /\ queues[q][i].message \in Message
        /\ content[queues[q][i].message] # NULL
        /\ bindings[queues[q][i].binding].queue = q
        /\ Matches(bindings[queues[q][i].binding], queues[q][i].message)

\* A message that has not been routed yet is in no queue.
Fresh ==
    \A c \in Client : pc[c] = "publish" =>
        \A q \in CreatedQueues : \A i \in DOMAIN queues[q] :
            queues[q][i].message # loc[c].message

\* The copies of a message that is being routed are the last ones of their
\* queues, and are for bindings that the loop has visited.
InProgress ==
    \A c \in Client : Inside(c) =>
        \A q \in CreatedQueues : \A i \in DOMAIN queues[q] :
            queues[q][i].message = loc[c].message =>
                /\ queues[q][i].binding <= loc[c].binding
                /\ pc[c] = "route" => queues[q][i].binding < loc[c].binding
                /\ \A j \in DOMAIN queues[q] : i < j => queues[q][j].message = loc[c].message

\* A handler forwards the copy at the tail of the queue.
AtTail ==
    \A c \in Client : pc[c] = "forward" =>
        LET q == bindings[loc[c].binding].queue
        IN  /\ q \in CreatedQueues
            /\ Len(queues[q]) \in DOMAIN queues[q]
            /\ queues[q][Len(queues[q])] = CopyFor(c, loc[c].binding)

\* No queue holds a copy twice.
Unique ==
    \A q \in CreatedQueues : \A i, j \in DOMAIN queues[q] :
        queues[q][i] = queues[q][j] => i = j

QueueInv ==
    Sound /\ Fresh /\ InProgress /\ AtTail /\ Unique /\ SameOrderEverywhere /\ CopiesOwned

\* A message keeps matching a binding.
LEMMA MatchesKept ==
  ASSUME Base, WrittenOnce, NEW i \in DOMAIN bindings, NEW m \in Message, content[m] # NULL,
         Matches(bindings[i], m)
  PROVE  Matches(bindings[i], m)'
<1>1. bindings'[i] = bindings[i] /\ content'[m] = content[m]
  BY DEF WrittenOnce
<1>2. exchanges'[bindings[i].exchange] = exchanges[bindings[i].exchange]
  BY DEF WrittenOnce, Base, BoundExist
<1> QED  BY <1>1, <1>2 DEF Matches

\* What is left of each part of the invariant when no queue changes.
LEMMA QueuesKeptInv ==
  ASSUME Base, Base', AtBinding, QueueInv, WrittenOnce, QueuesKept,
         \A c \in Client : Advances(c)
  PROVE  QueueInv'
<1>1. /\ \A q \in CreatedQueues' : DOMAIN queues'[q] # {} =>
           q \in CreatedQueues /\ queues'[q] = queues[q]
      /\ \A q \in CreatedQueues : q \in CreatedQueues' /\ queues'[q] = queues[q]
  BY DEF QueuesKept, WrittenOnce
<1>2. Sound'
  <2> SUFFICES ASSUME NEW q \in CreatedQueues', NEW i \in DOMAIN queues'[q]
               PROVE  /\ queues'[q][i].binding \in DOMAIN bindings'
                      /\ queues'[q][i].message \in Message
                      /\ content'[queues'[q][i].message] # NULL
                      /\ bindings'[queues'[q][i].binding].queue = q
                      /\ Matches(bindings[queues[q][i].binding], queues[q][i].message)'
    BY DEF Sound
  <2>1. q \in CreatedQueues /\ queues'[q] = queues[q] /\ i \in DOMAIN queues[q]
    BY <1>1
  <2>2. PICK b \in DOMAIN bindings, m \in Message :
          /\ queues[q][i].binding = b /\ queues[q][i].message = m
          /\ content[m] # NULL /\ bindings[b].queue = q /\ Matches(bindings[b], m)
    BY <2>1 DEF QueueInv, Sound
  <2>3. queues'[q][i].binding = b /\ queues'[q][i].message = m
    BY <2>1, <2>2
  <2>4. b \in DOMAIN bindings' /\ bindings'[b] = bindings[b] /\ content'[m] = content[m]
    BY <2>2 DEF WrittenOnce
  <2>5. Matches(bindings[b], m)'
    BY <2>2, MatchesKept
  <2>6. Matches(bindings[queues[q][i].binding], queues[q][i].message)'
    BY <2>3, <2>5 DEF Matches
  <2> QED  BY <2>2, <2>3, <2>4, <2>6
<1>3. Fresh'
  <2> SUFFICES ASSUME NEW c \in Client, pc'[c] = "publish",
                      NEW q \in CreatedQueues', NEW i \in DOMAIN queues'[q]
               PROVE  queues'[q][i].message # loc'[c].message
    BY DEF Fresh
  <2>1. q \in CreatedQueues /\ queues'[q] = queues[q] /\ i \in DOMAIN queues[q]
    BY <1>1
  <2>2. Advances(c)
    OBVIOUS
  <2>3. \/ pc[c] = "publish" /\ loc'[c].message = loc[c].message
        \/ content[loc'[c].message] = NULL
    BY <2>2 DEF Advances, SameHandler, Publishing
  <2> QED  BY <2>1, <2>3 DEF QueueInv, Sound, Fresh
<1>4. InProgress'
  <2> SUFFICES ASSUME NEW c \in Client, Inside(c)', NEW q \in CreatedQueues',
                      NEW i \in DOMAIN queues'[q], queues'[q][i].message = loc'[c].message
               PROVE  /\ queues'[q][i].binding <= loc'[c].binding
                      /\ pc'[c] = "route" => queues'[q][i].binding < loc'[c].binding
                      /\ \A j \in DOMAIN queues'[q] :
                           i < j => queues'[q][j].message = loc'[c].message
    BY DEF InProgress
  <2>1. q \in CreatedQueues /\ queues'[q] = queues[q] /\ i \in DOMAIN queues[q]
    BY <1>1
  <2>2. Advances(c)
    OBVIOUS
  <2>3. /\ loc'[c].message = loc[c].message
        /\ \/ Inside(c) /\ pc'[c] = pc[c] /\ loc'[c].binding = loc[c].binding
           \/ pc[c] = "publish"
           \/ pc[c] = "route" /\ pc'[c] = "route" /\ loc'[c].binding > loc[c].binding
           \/ pc[c] = "forward" /\ pc'[c] = "route" /\ loc'[c].binding = loc[c].binding + 1
    BY <2>2 DEF Advances, SameHandler, Inside, Publishing
  <2>4. pc[c] # "publish"
    BY <2>1, <2>3 DEF QueueInv, Fresh
  <2>5. Inside(c) /\ queues[q][i].message = loc[c].message
    BY <2>1, <2>3, <2>4 DEF Inside
  <2>6. /\ queues[q][i].binding <= loc[c].binding
        /\ pc[c] = "route" => queues[q][i].binding < loc[c].binding
        /\ \A j \in DOMAIN queues[q] : i < j => queues[q][j].message = loc[c].message
    BY <2>1, <2>5 DEF QueueInv, InProgress
  <2>7. queues[q][i].binding \in Nat /\ loc[c].binding \in Nat /\ loc'[c].binding \in Int
    <3>1. queues[q][i].binding \in DOMAIN bindings
      BY <2>1 DEF QueueInv, Sound
    <3>2. bindings \in Seq(Binding) /\ loc[c] \in Locals /\ loc'[c] \in Locals
      BY DEF Base, RegistryTypes, HandlerTypes
    <3> QED  BY <3>1, <3>2 DEF Locals
  <2> QED  BY <2>1, <2>3, <2>4, <2>6, <2>7
<1>5. AtTail'
  <2> SUFFICES ASSUME NEW c \in Client, pc'[c] = "forward"
               PROVE  LET q == bindings'[loc'[c].binding].queue
                      IN  /\ q \in CreatedQueues'
                          /\ Len(queues'[q]) \in DOMAIN queues'[q]
                          /\ queues'[q][Len(queues'[q])] = CopyFor(c, loc[c].binding)'
    BY DEF AtTail
  <2>1. Advances(c)
    OBVIOUS
  <2>2. /\ pc[c] = "forward" /\ loc'[c].message = loc[c].message
        /\ loc'[c].binding = loc[c].binding
    BY <2>1 DEF Advances, SameHandler, Publishing
  <2>3. bindings'[loc[c].binding] = bindings[loc[c].binding]
    BY <2>2 DEF WrittenOnce, AtBinding
  <2> QED  BY <1>1, <2>2, <2>3 DEF QueueInv, AtTail, CopyFor
<1>6. Unique'
  BY <1>1 DEF QueueInv, Unique
<1>7. SameOrderEverywhere'
  BY <1>1 DEF QueueInv, SameOrderEverywhere, HasAt, Holds, CreatedQueues
<1>8. CopiesOwned'
  <2>1. QueuedCopies' = QueuedCopies
    BY <1>1 DEF QueuedCopies
  <2> QED  BY <2>1 DEF QueueInv, CopiesOwned, QueuesKept
<1> QED  BY <1>2, <1>3, <1>4, <1>5, <1>6, <1>7, <1>8 DEF QueueInv

\* What is left of it when a queue takes a clone, which goes to its tail.
LEMMA QueueTakesInv ==
  ASSUME Base, Base', AtBinding, QueueInv, WrittenOnce,
         NEW c \in Client, NEW i \in DOMAIN bindings, TakesOne(c, i)
  PROVE  QueueInv'
<1>1. PICK q \in CreatedQueues, copy \in Copy :
        /\ q = bindings[i].queue /\ copy = CopyFor(c, i)
        /\ copy.message = loc[c].message /\ copy.binding = i
        /\ GrowsBy(q, copy)
  BY TakenGrows DEF TakesOne, CopyFor
<1>2. PICK n \in Nat : n = Len(queues[q]) + 1
  BY <1>1 DEF GrowsBy
<1>3. /\ CreatedQueues' = CreatedQueues
      /\ \A r \in CreatedQueues : r # q => queues'[r] = queues[r]
      /\ DOMAIN queues[q] = 1 .. (n - 1) /\ DOMAIN queues'[q] = 1 .. n
      /\ Len(queues'[q]) = n /\ n \in DOMAIN queues'[q]
      /\ \A k \in DOMAIN queues[q] : queues'[q][k] = queues[q][k]
      /\ queues'[q][n] = copy
  BY <1>1, <1>2 DEF GrowsBy
<1>4. \A r \in CreatedQueues : \A k \in DOMAIN queues'[r] :
        \/ r = q /\ k = n /\ queues'[r][k] = copy
        \/ k \in DOMAIN queues[r] /\ queues'[r][k] = queues[r][k] /\ (r = q => k < n)
  BY <1>3
<1>5. \A r \in CreatedQueues : DOMAIN queues[r] \subseteq Nat
  BY DEF CreatedQueues, Base, RegistryTypes
<1>6. /\ pc[c] = "route" /\ pc'[c] = "forward" /\ mutex = c
      /\ loc'[c].message = copy.message /\ loc'[c].binding = i
      /\ \A d \in Client \ {c} : pc'[d] = pc[d] /\ loc'[d] = loc[d]
  BY <1>1 DEF TakesOne, Takes, Moves, Base, HandlerTypes
<1>7. /\ bindings' = bindings /\ exchanges' = exchanges /\ content' = content
      /\ i \in Nat /\ i >= loc[c].binding /\ loc[c].binding \in Nat
      /\ copy.message \in Message /\ content[copy.message] # NULL
      /\ Matches(bindings[i], copy.message)
  <2>1. loc[c] \in Locals
    BY DEF Base, HandlerTypes
  <2> QED  BY <1>1, <2>1 DEF TakesOne, Locals
<1>8. \A d \in Client : Inside(d)' => d = c
  BY <1>6 DEF TakesOne, Base, Exclusion, Inside
<1>9. \A r \in CreatedQueues : \A k \in DOMAIN queues[r] :
        queues[r][k].message = copy.message =>
            /\ queues[r][k].binding < i /\ queues[r][k] # copy
            /\ \A j \in DOMAIN queues[r] : k < j => queues[r][j].message = copy.message
  <2> SUFFICES ASSUME NEW r \in CreatedQueues, NEW k \in DOMAIN queues[r],
                      queues[r][k].message = copy.message
               PROVE  /\ queues[r][k].binding < i /\ queues[r][k] # copy
                      /\ \A j \in DOMAIN queues[r] : k < j => queues[r][j].message = copy.message
    OBVIOUS
  <2>1. /\ queues[r][k].binding < loc[c].binding
        /\ \A j \in DOMAIN queues[r] : k < j => queues[r][j].message = copy.message
    BY <1>1, <1>6 DEF QueueInv, InProgress, Inside
  <2>2. queues[r][k].binding \in Nat
    BY DEF QueueInv, Sound, Base, RegistryTypes
  <2> QED  BY <1>1, <1>7, <2>1, <2>2
<1>10. Sound'
  <2> SUFFICES ASSUME NEW r \in CreatedQueues, NEW k \in DOMAIN queues'[r]
               PROVE  /\ queues'[r][k].binding \in DOMAIN bindings
                      /\ queues'[r][k].message \in Message
                      /\ content[queues'[r][k].message] # NULL
                      /\ bindings[queues'[r][k].binding].queue = r
                      /\ Matches(bindings[queues[r][k].binding], queues[r][k].message)'
    BY <1>3, <1>7 DEF Sound
  <2>1. \A e, m : Matches(bindings[e], m)' <=> Matches(bindings[e], m)
    BY <1>7 DEF Matches
  <2>2. CASE r = q /\ k = n /\ queues'[r][k] = copy
    BY <1>1, <1>7, <2>2 DEF Matches
  <2>3. CASE k \in DOMAIN queues[r] /\ queues'[r][k] = queues[r][k]
    BY <1>7, <2>3 DEF QueueInv, Sound, Matches
  <2> QED  BY <1>4, <2>2, <2>3
<1>11. Fresh'
  <2> SUFFICES ASSUME NEW d \in Client, pc'[d] = "publish",
                      NEW r \in CreatedQueues, NEW k \in DOMAIN queues'[r]
               PROVE  queues'[r][k].message # loc'[d].message
    BY <1>3 DEF Fresh
  <2>1. d # c /\ pc[d] = "publish" /\ loc'[d] = loc[d]
    BY <1>6
  <2>2. loc[d].message # copy.message
    BY <1>1, <1>7, <2>1, NullAssumption DEF Base, Carrying
  <2> QED  BY <1>4, <2>1, <2>2 DEF QueueInv, Fresh
<1>12. InProgress'
  <2> SUFFICES ASSUME NEW r \in CreatedQueues, NEW k \in DOMAIN queues'[r],
                      queues'[r][k].message = copy.message
               PROVE  /\ queues'[r][k].binding <= i
                      /\ \A j \in DOMAIN queues'[r] :
                           k < j => queues'[r][j].message = copy.message
    BY <1>3, <1>6, <1>8 DEF InProgress
  <2>1. CASE r = q /\ k = n /\ queues'[r][k] = copy
    BY <1>1, <1>3, <1>7, <2>1
  <2>2. CASE k \in DOMAIN queues[r] /\ queues'[r][k] = queues[r][k]
    <3>1. queues[r][k].binding \in Nat
      BY <2>2 DEF QueueInv, Sound, Base, RegistryTypes
    <3>2. queues'[r][k].binding <= i
      BY <1>7, <1>9, <2>2, <3>1
    <3> QED  BY <1>4, <1>9, <2>2, <3>2
  <2> QED  BY <1>4, <2>1, <2>2
<1>13. AtTail'
  <2>1. \A d \in Client : pc'[d] = "forward" => d = c
    BY <1>8 DEF Inside
  <2>2. CopyFor(c, i)' = copy
    BY <1>1, <1>6 DEF CopyFor
  <2> QED  BY <1>1, <1>3, <1>6, <1>7, <2>1, <2>2 DEF AtTail, CopyFor
<1>14. Unique'
  <2> SUFFICES ASSUME NEW r \in CreatedQueues, NEW k \in DOMAIN queues'[r],
                      NEW l \in DOMAIN queues'[r], queues'[r][k] = queues'[r][l]
               PROVE  k = l
    BY <1>3 DEF Unique
  <2> QED  BY <1>4, <1>9 DEF QueueInv, Unique
<1>15. SameOrderEverywhere'
  <2> SUFFICES ASSUME NEW r \in CreatedQueues, NEW t \in CreatedQueues,
                      NEW x \in DOMAIN queues'[r], NEW y \in DOMAIN queues'[r],
                      NEW k \in DOMAIN queues'[t], NEW l \in DOMAIN queues'[t],
                      x < y, queues'[r][x].message # queues'[r][y].message,
                      queues'[t][k].message = queues'[r][y].message,
                      queues'[t][l].message = queues'[r][x].message
               PROVE  l < k
    BY <1>3 DEF SameOrderEverywhere, HasAt, Holds
  <2>1. x \in Nat /\ y \in Nat /\ k \in Nat /\ l \in Nat
    BY <1>3, <1>4, <1>5
  <2>2. \A e \in CreatedQueues : \A u \in DOMAIN queues'[e] : e = q => u <= n
    BY <1>3
  <2>3. x \in DOMAIN queues[r] /\ queues'[r][x] = queues[r][x]
    BY <1>4, <2>1, <2>2
  <2>4. ASSUME r = q, y = n, queues'[r][y] = copy
        PROVE  l < k
    \* The message that comes later is the one being routed: in queue t it is at the
    \* tail, and whatever follows its first copy there is a copy of it too.
    <3>1. queues'[t][l].message # copy.message /\ queues'[t][k].message = copy.message
      BY <2>4
    <3>2. l \in DOMAIN queues[t] /\ queues'[t][l] = queues[t][l] /\ (t = q => l < n)
      BY <1>4, <3>1
    <3>3. CASE t = q /\ k = n
      BY <3>2, <3>3
    <3>4. CASE k \in DOMAIN queues[t] /\ queues'[t][k] = queues[t][k]
      <4>1. ~(k < l) /\ k # l
        BY <1>9, <3>1, <3>2, <3>4
      <4> QED  BY <2>1, <4>1
    <3> QED  BY <1>4, <3>3, <3>4
  <2>5. ASSUME y \in DOMAIN queues[r], queues'[r][y] = queues[r][y]
        PROVE  l < k
    \* Both were in queue r before. The earlier one is not being routed, since the
    \* later one follows it, so that queue t had it before, too.
    <3>1. queues[r][x].message # copy.message
      BY <1>9, <2>3, <2>5
    <3>2. l \in DOMAIN queues[t] /\ queues'[t][l] = queues[t][l] /\ (t = q => l < n)
      BY <1>4, <2>3, <3>1
    <3>3. CASE t = q /\ k = n
      BY <3>2, <3>3
    <3>4. CASE k \in DOMAIN queues[t] /\ queues'[t][k] = queues[t][k]
      BY <2>3, <2>5, <3>2, <3>4 DEF QueueInv, SameOrderEverywhere, HasAt, Holds, CreatedQueues
    <3> QED  BY <1>4, <3>3, <3>4
  <2> QED  BY <1>4, <2>4, <2>5
<1>16. CopiesOwned'
  <2>1. QueuedCopies' = QueuedCopies \union {copy}
    <3>1. \A e \in QueuedCopies' : e \in QueuedCopies \/ e = copy
      BY <1>3, <1>4 DEF QueuedCopies
    <3>2. \A e \in QueuedCopies : e \in QueuedCopies'
      <4> SUFFICES ASSUME NEW r \in CreatedQueues, NEW k \in DOMAIN queues[r]
                   PROVE  queues[r][k] \in QueuedCopies'
        BY DEF QueuedCopies
      <4>1. k \in DOMAIN queues'[r] /\ queues'[r][k] = queues[r][k]
        BY <1>2, <1>3
      <4> QED  BY <1>3, <4>1 DEF QueuedCopies
    <3>3. copy \in QueuedCopies'
      BY <1>3 DEF QueuedCopies
    <3> QED  BY <3>1, <3>2, <3>3
  <2>2. heap'.copies = heap.copies \union {copy}
    BY <1>1 DEF TakesOne, Takes, Base, HandlerTypes, Heap
  <2> QED  BY <2>1, <2>2 DEF QueueInv, CopiesOwned
<1> QED  BY <1>10, <1>11, <1>12, <1>13, <1>14, <1>15, <1>16 DEF QueueInv

\* The invariant of the queues always holds.
LEMMA AlwaysQueueInv == Spec => []QueueInv
<1>1. Init => QueueInv
  <2> SUFFICES ASSUME Init PROVE QueueInv
    OBVIOUS
  <2>1. CreatedQueues = {} /\ heap.copies = {} /\ \A c \in Client : pc[c] = "absent"
    BY DEF Init, CreatedQueues
  <2> QED
    BY <2>1 DEF QueueInv, Sound, Fresh, InProgress, AtTail, Unique, SameOrderEverywhere,
                CopiesOwned, QueuedCopies, Inside
<1>2. Base /\ AtBinding /\ Base' /\ QueueInv /\ [Next]_vars => QueueInv'
  BY QueuesStep, QueuesKeptInv, QueueTakesInv
<1> QED  BY <1>1, <1>2, AlwaysBase, PTL DEF Spec

\* All queues agree on the order of the messages they share, however many
\* handlers publish at once: broker_route_message holds the mutex from the first
\* queue to the last.
THEOREM QueuesAgreeOnOrder == Spec => []SameOrderEverywhere
<1>1. QueueInv => SameOrderEverywhere
  BY DEF QueueInv
<1> QED  BY <1>1, AlwaysQueueInv, PTL

\* A clone made for a queue is allocated exactly as long as the queue holds it:
\* the ones that queue_try_enqueue refuses have been freed.
THEOREM CopiesAreOwned == Spec => []CopiesOwned
<1>1. QueueInv => CopiesOwned
  BY DEF QueueInv
<1> QED  BY <1>1, AlwaysQueueInv, PTL

\* No message is in a queue that the rules of its exchange do not send it to, even
\* though the registry, the message and the queue are read at different times.
THEOREM NothingIsMisrouted == Spec => []NeverMisrouted
<1>1. Base /\ QueueInv => NeverMisrouted
  <2> SUFFICES ASSUME Base, QueueInv, NEW q \in CreatedQueues, NEW i \in DOMAIN queues[q]
               PROVE  LET b == bindings[queues[q][i].binding]
                          m == content[queues[q][i].message]
                      IN  /\ b.queue = q /\ b.exchange = m.exchange
                          /\ exchanges[b.exchange] = "DIRECT" => b.routing_key = m.routing_key
                          /\ exchanges[b.exchange] = "TOPIC" =>
                                 b.routing_key # NULL /\ TopicRule(b.routing_key, m.routing_key)
    BY DEF NeverMisrouted
  <2>1. PICK b \in Binding, m \in Message :
          /\ b = bindings[queues[q][i].binding] /\ m = queues[q][i].message
          /\ content[m] # NULL /\ b.queue = q /\ Matches(b, m)
    BY DEF QueueInv, Sound, Base, RegistryTypes
  <2>2. content[m] \in Content /\ content[m].routing_key \in Seq(STRING)
    BY <2>1, KeyAssumption DEF Base, HandlerTypes, Content
  <2>3. b.routing_key # NULL => b.routing_key \in Seq(STRING)
    BY KeyAssumption DEF Binding
  <2>4. b.exchange = content[m].exchange
    BY <2>1 DEF Matches
  <2>5. exchanges[b.exchange] = "DIRECT" => b.routing_key = content[m].routing_key
    BY <2>1 DEF Matches
  <2>6. exchanges[b.exchange] = "TOPIC" =>
          b.routing_key # NULL /\ match_topic(b.routing_key, content[m].routing_key)
    BY <2>1 DEF Matches
  <2>7. exchanges[b.exchange] = "TOPIC" =>
          b.routing_key # NULL /\ TopicRule(b.routing_key, content[m].routing_key)
    BY <2>2, <2>3, <2>6, MatchesFollowTheRule
  <2> QED  BY <2>1, <2>4, <2>5, <2>7
<1> QED  BY <1>1, AlwaysBase, AlwaysQueueInv, PTL

\* For a pattern of a topic binding that is one wildcard, or has none, match_topic
\* decides as the rule in its comment, whatever keys and patterns there are.
THEOREM SupportedTopicsAreExact == Spec => []TopicMatchesAreExact
<1>1. Base => TopicMatchesAreExact
  <2> SUFFICES ASSUME Base, NEW i \in DOMAIN bindings, bindings[i].routing_key # NULL,
                      Supported(bindings[i].routing_key), NEW k \in RoutingKey
               PROVE  match_topic(bindings[i].routing_key, k)
                        <=> TopicRule(bindings[i].routing_key, k)
    BY DEF TopicMatchesAreExact
  <2>1. bindings[i].routing_key \in Seq(STRING) /\ k \in Seq(STRING)
    <3>1. bindings[i] \in Binding
      BY DEF Base, RegistryTypes
    <3>2. bindings[i].routing_key \in RoutingKey
      BY <3>1 DEF Binding
    <3> QED  BY <3>2, KeyAssumption
  <2> QED  BY <2>1, SupportedMatchesAreExact
<1> QED  BY <1>1, AlwaysBase, PTL

-----------------------------------------------------------------------------
(***************************************************************************)
(* What clients are sent.                                                  *)
(***************************************************************************)
\* Handler c sends the copy it forwards to client d.
SendsTo(c, d) ==
    /\ pc[c] = "forward" /\ pc'[c] = "forward"
    /\ stream' = [stream EXCEPT ![d] = Append(@, CopyFor(c, loc[c].binding))]
    /\ UNCHANGED <<queues, bindings>>

\* A step leaves the streams alone, or one handler sends to one client.
LEMMA StreamStep ==
  ASSUME Base, [Next]_vars
  PROVE  stream' = stream \/ \E c, d \in Client : SendsTo(c, d)
<1>1. ASSUME NEW c \in Client, forward_message_to_consumers(c)
      PROVE  stream' = stream \/ \E d \in Client : SendsTo(c, d)
  <2>1. /\ pc[c] = "forward" /\ (Serves(c) \/ Overruns(c) \/ Served(c))
        /\ UNCHANGED <<queues, bindings>>
    BY <1>1, ForwardStep DEF registry
  <2>2. CASE Serves(c)
    <3>1. EntryFor(c).client \in Client
      BY <2>2 DEF Serves, EntryFor, Base, ClientTypes, Entry
    <3>2. stream' = stream \/ SendsTo(c, EntryFor(c).client)
      BY <2>1, <2>2 DEF Serves, SendsTo, send_message_data, frames
    <3> QED  BY <3>1, <3>2
  <2>3. CASE Overruns(c) \/ Served(c)
    BY <2>3 DEF Overruns, Served, frames
  <2> QED  BY <2>1, <2>2, <2>3
<1>2. CASE UNCHANGED vars \/ Setup
  BY <1>2 DEF vars, Setup, frames
<1>3. ASSUME NEW c \in Client,
             \/ accept(c) \/ client_close(c) \/ client_read(c)
             \/ Registers(c) \/ route_begin(c) \/ route_binding(c) \/ publish_end(c)
      PROVE  stream' = stream
  BY <1>3 DEF accept, client_close, client_read, Registers, register_check, register_name,
              register_index, register_count, route_begin, route_binding, publish_end, frames
<1>4. ASSUME NEW c \in Client, NEW m \in Message, NEW x \in ExchangeName,
             NEW k \in RoutingKey, broker_publish(c, m, x, k)
      PROVE  stream' = stream
  BY <1>4 DEF broker_publish, frames
<1> QED  BY <1>1, <1>2, <1>3, <1>4 DEF Next, Handler, Registers

QueueOf(copy) == bindings[copy.binding].queue

\* Everything sent is in its queue, and what comes later in a stream does not
\* come earlier in the queue.
StreamInv ==
    \A c \in Client : \A i \in DOMAIN stream[c] :
        /\ stream[c][i].binding \in DOMAIN bindings
        /\ \E k \in DOMAIN queues[QueueOf(stream[c][i])] :
             queues[QueueOf(stream[c][i])][k] = stream[c][i]
        /\ \A j \in DOMAIN stream[c] :
             i < j /\ QueueOf(stream[c][i]) = QueueOf(stream[c][j]) =>
                 \A k, l \in DOMAIN queues[QueueOf(stream[c][i])] :
                     /\ queues[QueueOf(stream[c][i])][k] = stream[c][i]
                     /\ queues[QueueOf(stream[c][i])][l] = stream[c][j]
                     => k <= l

\* What is sent follows, in its queue, all that was sent to the client before.
LEMMA StreamSent ==
  ASSUME Base, AtBinding, QueueInv, StreamInv, NEW c \in Client, NEW d \in Client, SendsTo(c, d)
  PROVE  StreamInv'
<1>1. PICK copy : copy = CopyFor(c, loc[c].binding)
  OBVIOUS
<1>2. PICK q \in CreatedQueues :
        /\ q = QueueOf(copy) /\ copy.binding \in DOMAIN bindings
        /\ Len(queues[q]) \in DOMAIN queues[q] /\ queues[q][Len(queues[q])] = copy
  BY <1>1 DEF SendsTo, AtBinding, QueueInv, AtTail, QueueOf, CopyFor
<1>3. queues[q] \in Seq(Copy) /\ \A k \in DOMAIN queues[q] : k <= Len(queues[q])
  BY DEF CreatedQueues, Base, RegistryTypes
<1>4. \A k \in DOMAIN queues[q] : queues[q][k] = copy => k = Len(queues[q])
  BY <1>2 DEF QueueInv, Unique
<1>5. queues' = queues /\ bindings' = bindings
  BY DEF SendsTo
<1>6. /\ \A e \in Client \ {d} : stream'[e] = stream[e]
      /\ stream'[d] = Append(stream[d], copy) /\ stream[d] \in Seq(Copy) /\ copy \in Copy
  BY <1>1, <1>2, <1>3 DEF SendsTo, Base, ClientTypes
<1>7. PICK n \in Nat : n = Len(stream[d]) + 1
  BY <1>6
<1>8. /\ DOMAIN stream[d] = 1 .. (n - 1) /\ DOMAIN stream'[d] = 1 .. n
      /\ \A k \in DOMAIN stream[d] : stream'[d][k] = stream[d][k]
      /\ stream'[d][n] = copy
  BY <1>6, <1>7
<1>9. \A e \in Client : \A i \in DOMAIN stream'[e] :
        \/ e = d /\ i = n /\ stream'[e][i] = copy
        \/ i \in DOMAIN stream[e] /\ stream'[e][i] = stream[e][i] /\ (e = d => i < n)
  BY <1>6, <1>8
<1>10. \A e \in Client : \A i \in DOMAIN stream'[e] : e = d => i <= n /\ i \in Nat
  BY <1>8
<1> SUFFICES ASSUME NEW e \in Client, NEW i \in DOMAIN stream'[e]
             PROVE  /\ stream'[e][i].binding \in DOMAIN bindings'
                    /\ \E k \in DOMAIN queues'[QueueOf(stream[e][i])'] :
                         queues'[QueueOf(stream[e][i])'][k] = stream'[e][i]
                    /\ \A j \in DOMAIN stream'[e] :
                         i < j /\ QueueOf(stream[e][i])' = QueueOf(stream[e][j])' =>
                             \A k, l \in DOMAIN queues'[QueueOf(stream[e][i])'] :
                                 /\ queues'[QueueOf(stream[e][i])'][k] = stream'[e][i]
                                 /\ queues'[QueueOf(stream[e][i])'][l] = stream'[e][j]
                                 => k <= l
  BY DEF StreamInv
<1> \A j \in DOMAIN stream'[e] : QueueOf(stream[e][j])' = QueueOf(stream'[e][j])
  BY <1>5 DEF QueueOf
<1> SUFFICES /\ stream'[e][i].binding \in DOMAIN bindings
             /\ \E k \in DOMAIN queues[QueueOf(stream'[e][i])] :
                  queues[QueueOf(stream'[e][i])][k] = stream'[e][i]
             /\ \A j \in DOMAIN stream'[e] :
                  i < j /\ QueueOf(stream'[e][i]) = QueueOf(stream'[e][j]) =>
                      \A k, l \in DOMAIN queues[QueueOf(stream'[e][i])] :
                          /\ queues[QueueOf(stream'[e][i])][k] = stream'[e][i]
                          /\ queues[QueueOf(stream'[e][i])][l] = stream'[e][j]
                          => k <= l
  BY <1>5
<1>11. CASE e = d /\ i = n /\ stream'[e][i] = copy
  <2>1. \A j \in DOMAIN stream'[e] : ~(i < j)
    BY <1>10, <1>11
  <2> QED  BY <1>2, <1>11, <2>1
<1>12. CASE i \in DOMAIN stream[e] /\ stream'[e][i] = stream[e][i]
  <2>1. /\ stream'[e][i].binding \in DOMAIN bindings
        /\ \E k \in DOMAIN queues[QueueOf(stream'[e][i])] :
             queues[QueueOf(stream'[e][i])][k] = stream'[e][i]
    BY <1>12 DEF StreamInv
  <2>2. ASSUME NEW j \in DOMAIN stream'[e], i < j,
               QueueOf(stream'[e][i]) = QueueOf(stream'[e][j]),
               NEW k \in DOMAIN queues[QueueOf(stream'[e][i])],
               NEW l \in DOMAIN queues[QueueOf(stream'[e][i])],
               queues[QueueOf(stream'[e][i])][k] = stream'[e][i],
               queues[QueueOf(stream'[e][i])][l] = stream'[e][j]
        PROVE  k <= l
    <3>1. CASE stream'[e][j] = copy
      BY <1>2, <1>3, <1>4, <2>2, <3>1
    <3>2. CASE j \in DOMAIN stream[e] /\ stream'[e][j] = stream[e][j]
      BY <1>12, <2>2, <3>2 DEF StreamInv
    <3> QED  BY <1>9, <3>1, <3>2
  <2> QED  BY <2>1, <2>2
<1> QED  BY <1>9, <1>11, <1>12

\* As long as nothing is sent, queues only grow at their tails, by a copy that
\* nobody was sent.
LEMMA StreamKept ==
  ASSUME Base, AtBinding, QueueInv, StreamInv, [Next]_vars, stream' = stream
  PROVE  StreamInv'
<1>1. WrittenOnce
  BY QueuesStep
<1> SUFFICES ASSUME NEW e \in Client, NEW i \in DOMAIN stream[e]
             PROVE  /\ stream[e][i].binding \in DOMAIN bindings'
                    /\ \E k \in DOMAIN queues'[QueueOf(stream[e][i])'] :
                         queues'[QueueOf(stream[e][i])'][k] = stream[e][i]
                    /\ \A j \in DOMAIN stream[e] :
                         i < j /\ QueueOf(stream[e][i])' = QueueOf(stream[e][j])' =>
                             \A k, l \in DOMAIN queues'[QueueOf(stream[e][i])'] :
                                 /\ queues'[QueueOf(stream[e][i])'][k] = stream[e][i]
                                 /\ queues'[QueueOf(stream[e][i])'][l] = stream[e][j]
                                 => k <= l
  BY DEF StreamInv
<1>2. \A j \in DOMAIN stream[e] :
        /\ stream[e][j].binding \in DOMAIN bindings
        /\ stream[e][j].binding \in DOMAIN bindings'
        /\ QueueOf(stream[e][j])' = QueueOf(stream[e][j])
        /\ QueueOf(stream[e][j]) \in CreatedQueues
  BY <1>1 DEF StreamInv, WrittenOnce, QueueOf, Base, BoundExist
<1>3. PICK q \in CreatedQueues : q = QueueOf(stream[e][i])
  BY <1>2
<1>4. /\ \E k \in DOMAIN queues[q] : queues[q][k] = stream[e][i]
      /\ \A j \in DOMAIN stream[e] : i < j /\ q = QueueOf(stream[e][j]) =>
           /\ \E k \in DOMAIN queues[q] : queues[q][k] = stream[e][j]
           /\ \A k, l \in DOMAIN queues[q] :
                queues[q][k] = stream[e][i] /\ queues[q][l] = stream[e][j] => k <= l
  BY <1>3 DEF StreamInv
<1>5. CASE QueuesKept
  <2>1. queues'[q] = queues[q]
    BY <1>5 DEF QueuesKept
  <2> QED  BY <1>2, <1>3, <1>4, <2>1
<1>6. CASE \E c \in Client, b \in DOMAIN bindings : TakesOne(c, b)
  <2>1. PICK c \in Client, b \in DOMAIN bindings : TakesOne(c, b)
    BY <1>6
  <2>2. PICK r, copy : /\ r = bindings[b].queue /\ copy = CopyFor(c, b)
                       /\ copy.binding = b /\ copy.message = loc[c].message
                       /\ GrowsBy(r, copy)
    BY <2>1, TakenGrows DEF CopyFor
  <2>3. \A k \in DOMAIN queues[q] : queues[q][k] # copy
    <3>1. \A k \in DOMAIN queues[q] : queues[q][k].message = loc[c].message =>
            queues[q][k].binding < loc[c].binding
      BY <2>1 DEF TakesOne, QueueInv, InProgress, Inside
    <3>2. b \in Nat /\ b >= loc[c].binding /\ loc[c].binding \in Nat
      BY <2>1 DEF TakesOne, Base, HandlerTypes, Locals
    <3> QED  BY <2>2, <3>1, <3>2
  <2>4. /\ \A k \in DOMAIN queues[q] : k \in DOMAIN queues'[q] /\ queues'[q][k] = queues[q][k]
        /\ \A k \in DOMAIN queues'[q] :
             k \in DOMAIN queues[q] \/ queues'[q][k] = copy
    <3>1. CASE r = q
      BY <2>2, <3>1 DEF GrowsBy
    <3>2. CASE r # q
      BY <2>2, <3>2 DEF GrowsBy
    <3> QED  BY <3>1, <3>2
  <2> QED  BY <1>2, <1>3, <1>4, <2>3, <2>4
<1> QED  BY <1>5, <1>6, QueuesStep

\* The invariant of the streams always holds.
LEMMA AlwaysStreamInv == Spec => []StreamInv
<1>1. Init => StreamInv
  BY DEF Init, StreamInv
<1>2. Base /\ AtBinding /\ QueueInv /\ StreamInv /\ [Next]_vars => StreamInv'
  BY StreamStep, StreamSent, StreamKept
<1> QED  BY <1>1, <1>2, AlwaysBase, AlwaysQueueInv, PTL DEF Spec

\* What a consumer is sent from one queue is in that queue, and comes in the order
\* of the queue, however many handlers publish and register meanwhile.
THEOREM StreamsFollowTheirQueues == Spec => []StreamInQueueOrder
<1>1. StreamInv => StreamInQueueOrder
  <2> SUFFICES ASSUME StreamInv, NEW c \in Client, NEW i \in DOMAIN stream[c],
                      NEW j \in DOMAIN stream[c]
               PROVE  LET q == bindings[stream[c][i].binding].queue
                          r == bindings[stream[c][j].binding].queue
                      IN  /\ \E k \in DOMAIN queues[q] : queues[q][k] = stream[c][i]
                          /\ i < j /\ q = r =>
                                 PositionIn(q, stream[c][i]) <= PositionIn(q, stream[c][j])
    BY DEF StreamInQueueOrder
  <2> DEFINE q == QueueOf(stream[c][i])
  <2>1. \E k \in DOMAIN queues[q] : queues[q][k] = stream[c][i]
    BY DEF StreamInv
  <2>2. ASSUME i < j, q = QueueOf(stream[c][j])
        PROVE  PositionIn(q, stream[c][i]) <= PositionIn(q, stream[c][j])
    <3>1. \E k \in DOMAIN queues[q] : queues[q][k] = stream[c][j]
      BY <2>2 DEF StreamInv
    <3>2. /\ PositionIn(q, stream[c][i]) \in DOMAIN queues[q]
          /\ queues[q][PositionIn(q, stream[c][i])] = stream[c][i]
      BY <2>1 DEF PositionIn
    <3>3. /\ PositionIn(q, stream[c][j]) \in DOMAIN queues[q]
          /\ queues[q][PositionIn(q, stream[c][j])] = stream[c][j]
      BY <3>1 DEF PositionIn
    <3> QED  BY <2>2, <3>2, <3>3 DEF StreamInv
  <2> QED  BY <2>1, <2>2 DEF QueueOf
<1> QED  BY <1>1, AlwaysStreamInv, PTL

-----------------------------------------------------------------------------
(***************************************************************************)
(* The clone that a message is routed with.                                *)
(***************************************************************************)
CopiesOf(m) == {copy \in QueuedCopies : copy.message = m}

\* A handler counts the copies of its message.
Counted ==
    \A c \in Client :
        /\ Publishing(c) => /\ IsFiniteSet(CopiesOf(loc[c].message))
                           /\ loc[c].routed = Cardinality(CopiesOf(loc[c].message))
        /\ ~Publishing(c) => loc[c].routed = 0

\* What happens to the copies that queues hold.
LEMMA CopiesKept ==
  ASSUME QueuesKept, WrittenOnce
  PROVE  QueuedCopies' = QueuedCopies
<1>1. /\ \A q \in CreatedQueues' : DOMAIN queues'[q] # {} =>
           q \in CreatedQueues /\ queues'[q] = queues[q]
      /\ \A q \in CreatedQueues : q \in CreatedQueues' /\ queues'[q] = queues[q]
  BY DEF QueuesKept, WrittenOnce
<1> QED  BY <1>1 DEF QueuedCopies

\* A queue that takes a copy adds one to the copies that are queued.
LEMMA CopiesGrow ==
  ASSUME Base, QueueInv, NEW c \in Client, NEW i \in DOMAIN bindings, TakesOne(c, i)
  PROVE  \E copy :
           /\ copy.message = loc[c].message /\ copy \notin QueuedCopies
           /\ QueuedCopies' = QueuedCopies \union {copy}
<1>1. PICK q, copy : /\ q = bindings[i].queue /\ copy = CopyFor(c, i)
                     /\ copy.binding = i /\ copy.message = loc[c].message
                     /\ GrowsBy(q, copy)
  BY TakenGrows DEF CopyFor
<1>2. \A r \in CreatedQueues : \A k \in DOMAIN queues[r] : queues[r][k] # copy
  <2>1. \A r \in CreatedQueues : \A k \in DOMAIN queues[r] :
          queues[r][k].message = loc[c].message => queues[r][k].binding < loc[c].binding
    BY DEF TakesOne, QueueInv, InProgress, Inside
  <2>2. i \in Nat /\ i >= loc[c].binding /\ loc[c].binding \in Nat
    BY DEF TakesOne, Base, HandlerTypes, Locals
  <2> QED  BY <1>1, <2>1, <2>2
<1>3. \A e \in QueuedCopies' : e \in QueuedCopies \/ e = copy
  <2> SUFFICES ASSUME NEW r \in CreatedQueues, NEW k \in DOMAIN queues'[r]
               PROVE  queues'[r][k] \in QueuedCopies \/ queues'[r][k] = copy
    BY <1>1 DEF QueuedCopies, GrowsBy
  <2>1. CASE r = q
    <3>1. PICK n \in Nat : /\ n = Len(queues[q]) /\ DOMAIN queues[q] = 1 .. n
                           /\ DOMAIN queues'[q] = 1 .. (n + 1)
                           /\ queues'[q][n + 1] = copy
      BY <1>1 DEF GrowsBy
    <3>2. \A j \in 1 .. n : queues'[q][j] = queues[q][j]
      BY <1>1, <3>1 DEF GrowsBy
    <3>3. k \in 1 .. n \/ k = n + 1
      BY <2>1, <3>1
    <3>4. CASE k \in 1 .. n
      BY <2>1, <3>1, <3>2, <3>4 DEF QueuedCopies
    <3>5. CASE k = n + 1
      BY <2>1, <3>1, <3>5
    <3> QED  BY <3>3, <3>4, <3>5
  <2>2. CASE r # q
    BY <1>1, <2>2 DEF QueuedCopies, GrowsBy
  <2> QED  BY <2>1, <2>2
<1>4. \A e \in QueuedCopies : e \in QueuedCopies'
  <2> SUFFICES ASSUME NEW r \in CreatedQueues, NEW k \in DOMAIN queues[r]
               PROVE  queues[r][k] \in QueuedCopies'
    BY DEF QueuedCopies
  <2>1. k \in DOMAIN queues'[r] /\ queues'[r][k] = queues[r][k] /\ r \in CreatedQueues'
    <3>1. CASE r = q
      BY <1>1, <3>1 DEF GrowsBy
    <3>2. CASE r # q
      BY <1>1, <3>2 DEF GrowsBy
    <3> QED  BY <3>1, <3>2
  <2> QED  BY <2>1 DEF QueuedCopies
<1>5. copy \in QueuedCopies'
  <2>1. /\ Len(queues[q]) + 1 \in DOMAIN queues'[q] /\ q \in CreatedQueues'
        /\ queues'[q][Len(queues[q]) + 1] = copy
    BY <1>1 DEF GrowsBy
  <2> QED  BY <2>1 DEF QueuedCopies
<1>6. copy \notin QueuedCopies
  BY <1>2 DEF QueuedCopies
<1> QED  BY <1>1, <1>3, <1>4, <1>5, <1>6

\* routed counts the copies that the queues have taken.
LEMMA CountedStep ==
  ASSUME Base, Base', AtBinding, QueueInv, Counted, [Next]_vars
  PROVE  Counted'
<1> USE NullAssumption
<1>1. CASE QueuesKept /\ \A c \in Client : Advances(c)
  <2>1. QueuedCopies' = QueuedCopies
    BY <1>1, CopiesKept, QueuesStep
  <2>2. \A m : CopiesOf(m)' = CopiesOf(m)
    BY <2>1 DEF CopiesOf
  <2> SUFFICES ASSUME NEW c \in Client
               PROVE  /\ Publishing(c)' => /\ IsFiniteSet(CopiesOf(loc'[c].message))
                                           /\ loc'[c].routed = Cardinality(CopiesOf(loc'[c].message))
                      /\ ~Publishing(c)' => loc'[c].routed = 0
    BY <2>1 DEF Counted, CopiesOf
  <2>3. Advances(c)
    BY <1>1
  <2>4. CASE ~Publishing(c) /\ pc'[c] = "publish" /\ loc'[c].routed = loc[c].routed
             /\ content[loc'[c].message] = NULL
    <3>1. CopiesOf(loc'[c].message) = {}
      BY <2>4 DEF CopiesOf, QueuedCopies, QueueInv, Sound
    <3>2. loc'[c].routed = 0 /\ Publishing(c)'
      BY <2>4 DEF Counted, Publishing
    <3> QED  BY <3>1, <3>2, FS_EmptySet
  <2>5. CASE ~Publishing(c)' /\ \/ ~Publishing(c) /\ loc'[c].routed \in {0, loc[c].routed}
                                \/ pc[c] = "route" /\ loc'[c].routed = 0
    BY <2>5 DEF Counted
  <2>6. CASE /\ loc'[c].message = loc[c].message /\ loc'[c].routed = loc[c].routed
             /\ Publishing(c)' <=> Publishing(c)
    BY <2>6 DEF Counted
  <2> QED  BY <2>3, <2>4, <2>5, <2>6 DEF Advances, SameHandler, Publishing
<1>2. ASSUME NEW c \in Client, NEW i \in DOMAIN bindings, TakesOne(c, i)
      PROVE  Counted'
  <2>1. PICK copy : /\ copy.message = loc[c].message /\ copy \notin QueuedCopies
                    /\ QueuedCopies' = QueuedCopies \union {copy}
    BY <1>2, CopiesGrow
  <2>2. /\ Publishing(c) /\ Publishing(c)' /\ loc'[c].message = loc[c].message
        /\ loc'[c].routed = loc[c].routed + 1
        /\ \A d \in Client \ {c} : pc'[d] = pc[d] /\ loc'[d] = loc[d]
    BY <1>2 DEF TakesOne, Takes, Moves, Publishing, Base, HandlerTypes
  <2> SUFFICES ASSUME NEW d \in Client
               PROVE  /\ Publishing(d)' => /\ IsFiniteSet(CopiesOf(loc[d].message)')
                                           /\ loc'[d].routed = Cardinality(CopiesOf(loc[d].message)')
                      /\ ~Publishing(d)' => loc'[d].routed = 0
    BY DEF Counted
  <2>3. CASE d = c
    <3> DEFINE S == CopiesOf(loc[c].message)
    <3>1. IsFiniteSet(S) /\ loc[c].routed = Cardinality(S)
      BY <2>2 DEF Counted
    <3>2. CopiesOf(loc[c].message)' = S \union {copy} /\ copy \notin S
      BY <2>1, <2>2 DEF CopiesOf
    <3> HIDE DEF S
    <3>3. /\ IsFiniteSet(S \union {copy})
          /\ Cardinality(S \union {copy}) = Cardinality(S) + 1
      BY <3>1, <3>2, FS_AddElement
    <3> QED  BY <2>2, <2>3, <3>1, <3>2, <3>3
  <2>4. CASE d # c
    <3>1. Publishing(d) <=> Publishing(d)'
      BY <2>2, <2>4 DEF Publishing
    <3>2. Publishing(d) => loc[d].message # loc[c].message
      BY <2>2, <2>4 DEF Base, Carrying
    <3>3. Publishing(d) => CopiesOf(loc[d].message)' = CopiesOf(loc[d].message)
      BY <2>1, <2>2, <2>4, <3>2 DEF CopiesOf
    <3> QED  BY <2>2, <2>4, <3>1, <3>3 DEF Counted
  <2> QED  BY <2>3, <2>4
<1> QED  BY <1>1, <1>2, QueuesStep

\* A message stays allocated after its publish only if routed was 1.
LEMMA OriginalsStep ==
  ASSUME Base, [Next]_vars
  PROVE  /\ \A m \in heap'.original : m \in heap.original \/ \E c \in Client : loc'[c].message = m
         /\ \A c \in Client : Publishing(c) /\ ~Publishing(c)' =>
              loc[c].routed = 1 \/ loc[c].message \notin heap'.original
<1> USE NullAssumption
<1>1. pc \in [Client -> {"absent", "idle", "name", "index", "count",
                         "publish", "route", "forward"}]
      /\ loc \in [Client -> Locals] /\ heap \in Heap
  BY DEF Base, HandlerTypes
<1>2. ASSUME heap'.original = heap.original, \A c \in Client : Publishing(c) => Publishing(c)'
      PROVE  /\ \A m \in heap'.original : m \in heap.original \/ \E c \in Client : loc'[c].message = m
             /\ \A c \in Client : Publishing(c) /\ ~Publishing(c)' =>
                  loc[c].routed = 1 \/ loc[c].message \notin heap'.original
  BY <1>2
<1>3. CASE UNCHANGED vars \/ Setup
  BY <1>2, <1>3 DEF vars, Setup, Publishing
<1>4. ASSUME NEW c \in Client, accept(c) \/ client_close(c) \/ client_read(c) \/ Registers(c)
      PROVE  heap'.original = heap.original /\ \A d \in Client : Publishing(d) => Publishing(d)'
  BY <1>1, <1>4 DEF accept, client_close, client_read, Registers, register_check,
                    register_name, register_index, register_count, Publishing
<1>5. ASSUME NEW c \in Client, route_begin(c)
      PROVE  heap'.original = heap.original /\ \A d \in Client : Publishing(d) => Publishing(d)'
  BY <1>1, <1>5 DEF route_begin, Publishing
<1>6. ASSUME NEW c \in Client, route_binding(c)
      PROVE  heap'.original = heap.original /\ \A d \in Client : Publishing(d) => Publishing(d)'
  <2>1. PICK i \in DOMAIN bindings : Takes(c, i) \/ Skips(c, i)
    BY <1>6, RouteBindingStep
  <2>2. heap'.original = heap.original
    BY <1>1, <2>1 DEF Takes, Skips, Heap
  <2> QED  BY <1>1, <2>1, <2>2 DEF Takes, Skips, Publishing
<1>7. ASSUME NEW c \in Client, forward_message_to_consumers(c)
      PROVE  heap'.original = heap.original /\ \A d \in Client : Publishing(d) => Publishing(d)'
  <2>1. /\ Serves(c) \/ Overruns(c) \/ Served(c)
        /\ heap' = heap
    BY <1>7, ForwardStep
  <2> QED  BY <1>1, <2>1 DEF Serves, Overruns, Served, Publishing
<1>8. ASSUME NEW c \in Client, NEW m \in Message, NEW x \in ExchangeName,
             NEW k \in RoutingKey, broker_publish(c, m, x, k)
      PROVE  /\ \A n \in heap'.original :
                   n \in heap.original \/ \E d \in Client : loc'[d].message = n
             /\ \A d \in Client : Publishing(d) => Publishing(d)'
  <2>1. \/ /\ heap' = [heap EXCEPT !.received = @ \union {m}, !.original = @ \union {m}]
           /\ pc' = [pc EXCEPT ![c] = "publish"] /\ loc' = [loc EXCEPT ![c].message = m]
        \/ /\ heap' = [heap EXCEPT !.received = @ \union {m}]
           /\ pc' = pc /\ loc' = loc
    BY <1>8 DEF broker_publish
  <2>2. \A d \in Client : Publishing(d) => Publishing(d)'
    BY <1>1, <2>1 DEF Publishing
  <2>3. CASE heap' = [heap EXCEPT !.received = @ \union {m}, !.original = @ \union {m}]
             /\ loc' = [loc EXCEPT ![c].message = m]
    <3>1. loc'[c].message = m
      BY <1>1, <2>3, LocalsPublished
    <3>2. heap'.original = heap.original \union {m}
      BY <1>1, <2>3 DEF Heap
    <3> QED  BY <2>2, <3>1, <3>2
  <2>4. CASE heap' = [heap EXCEPT !.received = @ \union {m}]
    <3>1. heap'.original = heap.original
      BY <1>1, <2>4 DEF Heap
    <3> QED  BY <2>2, <3>1
  <2> QED  BY <2>1, <2>3, <2>4
<1>9. ASSUME NEW c \in Client, publish_end(c)
      PROVE  /\ \A m \in heap'.original : m \in heap.original
             /\ \A d \in Client : Publishing(d) /\ ~Publishing(d)' =>
                  loc[d].routed = 1 \/ loc[d].message \notin heap'.original
  <2>1. \A d \in Client \ {c} : Publishing(d) <=> Publishing(d)'
    BY <1>1, <1>9 DEF publish_end, Publishing
  <2>2. CASE loc[c].routed = 1
    BY <1>9, <2>1, <2>2 DEF publish_end, KeepsOriginal
  <2>3. CASE loc[c].routed # 1
    <3>1. heap'.original = heap.original \ {loc[c].message}
      BY <1>1, <1>9, <2>3 DEF publish_end, KeepsOriginal, Heap
    <3> QED  BY <2>1, <3>1
  <2> QED  BY <2>2, <2>3
<1>10. CASE \E c \in Client, m \in Message, x \in ExchangeName, k \in RoutingKey :
              broker_publish(c, m, x, k)
  BY <1>8, <1>10
<1>11. CASE \E c \in Client : publish_end(c)
  BY <1>9, <1>11
<1> QED
  BY <1>2, <1>3, <1>4, <1>5, <1>6, <1>7, <1>10, <1>11 DEF Next, Handler, Registers

\* When a publish has ended, the clone that it was routed with is freed, unless
\* exactly one queue has taken a copy; however many other publishes there were.
THEOREM OnlyOnceRoutedLeak == Spec => []OriginalLeaksOnlyIfRoutedOnce
<1>1. Init => Counted /\ OriginalLeaksOnlyIfRoutedOnce
  BY DEF Init, Counted, OriginalLeaksOnlyIfRoutedOnce, NoLocals, Publishing
<1>2. ASSUME Base, Base', AtBinding, QueueInv, Counted, OriginalLeaksOnlyIfRoutedOnce,
             [Next]_vars
      PROVE  OriginalLeaksOnlyIfRoutedOnce'
  <2> USE NullAssumption
  <2> SUFFICES ASSUME NEW m \in heap'.original, \A c \in Client : loc'[c].message # m
               PROVE  Cardinality(CopiesOf(m)') = 1
    BY DEF OriginalLeaksOnlyIfRoutedOnce, CopiesOf
  <2>1. m \in heap.original /\ m \in Message
    BY <1>2, OriginalsStep DEF Base, HandlerTypes, Heap
  <2>2. CASE QueuesKept /\ \A c \in Client : Advances(c)
    <3>1. CopiesOf(m)' = CopiesOf(m)
      BY <1>2, <2>2, CopiesKept, QueuesStep DEF CopiesOf
    <3>2. CASE \A c \in Client : loc[c].message # m
      BY <1>2, <2>1, <3>1, <3>2 DEF OriginalLeaksOnlyIfRoutedOnce, CopiesOf
    <3>3. ASSUME NEW c \in Client, loc[c].message = m
          PROVE  Cardinality(CopiesOf(m)) = 1
      <4>1. Publishing(c)
        BY <1>2, <2>1, <3>3 DEF Base, Carrying
      <4>2. Advances(c) /\ loc'[c].message # loc[c].message
        BY <2>2, <3>3
      <4>3. ~Publishing(c)'
        BY <4>1, <4>2 DEF Advances, SameHandler, Publishing
      <4>4. loc[c].routed = 1
        BY <1>2, <3>3, <4>1, <4>3, OriginalsStep
      <4> QED  BY <1>2, <3>3, <4>1, <4>4 DEF Counted
    <3> QED  BY <3>1, <3>2, <3>3
  <2>3. ASSUME NEW c \in Client, NEW i \in DOMAIN bindings, TakesOne(c, i)
        PROVE  Cardinality(CopiesOf(m)') = 1
    <3>1. \A d \in Client : loc'[d].message = loc[d].message
      BY <2>3 DEF TakesOne, Takes, Moves
    <3>2. PICK copy : /\ copy.message = loc[c].message
                      /\ QueuedCopies' = QueuedCopies \union {copy}
      BY <1>2, <2>3, CopiesGrow
    <3>3. CopiesOf(m)' = CopiesOf(m)
      BY <3>1, <3>2 DEF CopiesOf
    <3> QED  BY <1>2, <2>1, <3>1, <3>3 DEF OriginalLeaksOnlyIfRoutedOnce, CopiesOf
  <2> QED  BY <1>2, <2>2, <2>3, QueuesStep
<1>3. Base /\ Base' /\ AtBinding /\ QueueInv /\ Counted /\ OriginalLeaksOnlyIfRoutedOnce
        /\ [Next]_vars
      => (Counted /\ OriginalLeaksOnlyIfRoutedOnce)'
  BY <1>2, CountedStep
<1> QED  BY <1>1, <1>3, AlwaysBase, AlwaysQueueInv, PTL DEF Spec

-----------------------------------------------------------------------------
(***************************************************************************)
(* The table of consumers.                                                 *)
(***************************************************************************)
\* Registrations are written behind the entries that count, one at a time.
TableInv ==
    ~overlapped =>
        /\ \A c, d \in Registering : c = d
        /\ \A c \in Registering :
             /\ loc[c].index = consumer_count /\ consumer_count < MAX_CONNECTIONS
             /\ pc[c] \in {"index", "count"} => consumers[consumer_count].queue = loc[c].queue
             /\ pc[c] = "count" => consumers[consumer_count].client = c
        /\ consumer_count <= MAX_CONNECTIONS
        /\ {consumers[i] : i \in 0 .. (consumer_count - 1)} = subscribed

\* A step that is no registration leaves the table alone, and whoever registers.
TableKept ==
    /\ UNCHANGED <<consumers, consumer_count, subscribed, overlapped>>
    /\ Registering' = Registering
    /\ \A c \in Registering : pc'[c] = pc[c] /\ loc'[c] = loc[c]

\* Only registrations write to the table of consumers.
LEMMA TableStep ==
  ASSUME Base, [Next]_vars
  PROVE  TableKept \/ \E c \in Client : Registers(c)
<1>1. /\ loc \in [Client -> Locals]
      /\ pc \in [Client -> {"absent", "idle", "name", "index", "count",
                            "publish", "route", "forward"}]
  BY DEF Base, HandlerTypes
<1>2. ASSUME NEW c \in Client, c \notin Registering, c \notin Registering',
             \A d \in Client \ {c} : pc'[d] = pc[d] /\ loc'[d] = loc[d],
             UNCHANGED <<table, ghosts>> \/ UNCHANGED <<table, subscribed, overlapped>>
      PROVE  TableKept
  <2>1. \A d \in Client \ {c} : d \in Registering' <=> d \in Registering
    BY <1>2 DEF Registering
  <2>2. Registering' \subseteq Client /\ Registering \subseteq Client
    BY DEF Registering
  <2>3. Registering' = Registering
    BY <1>2, <2>1, <2>2
  <2> QED  BY <1>2, <2>2, <2>3 DEF TableKept, table, ghosts
<1>3. CASE UNCHANGED vars \/ Setup
  BY <1>3 DEF vars, Setup, TableKept, table, ghosts, Registering
<1>4. ASSUME NEW c \in Client, client_close(c) \/ client_read(c)
      PROVE  TableKept
  BY <1>4 DEF client_close, client_read, TableKept, table, ghosts, Registering
<1>5. ASSUME NEW c \in Client, accept(c) \/ route_begin(c) \/ publish_end(c)
      PROVE  TableKept
  <2>1. c \notin Registering /\ c \notin Registering'
    BY <1>1, <1>5 DEF accept, route_begin, publish_end, Registering
  <2>2. \A d \in Client \ {c} : pc'[d] = pc[d] /\ loc'[d] = loc[d]
    BY <1>1, <1>5 DEF accept, route_begin, publish_end
  <2>3. UNCHANGED <<table, ghosts>>
    BY <1>5 DEF accept, route_begin, publish_end
  <2> QED  BY <1>2, <2>1, <2>2, <2>3
<1>6. ASSUME NEW c \in Client, route_binding(c)
      PROVE  TableKept
  <2>1. PICK i \in DOMAIN bindings : Takes(c, i) \/ Skips(c, i)
    BY <1>6, RouteBindingStep
  <2>2. pc[c] = "route" /\ UNCHANGED <<table, subscribed, overlapped>>
    BY <1>6 DEF route_binding
  <2>3. c \notin Registering /\ c \notin Registering'
    BY <1>1, <2>1, <2>2 DEF Takes, Skips, Registering
  <2>4. \A d \in Client \ {c} : pc'[d] = pc[d] /\ loc'[d] = loc[d]
    BY <1>1, <2>1 DEF Takes, Skips, Moves
  <2> QED  BY <1>2, <2>2, <2>3, <2>4
<1>7. ASSUME NEW c \in Client, forward_message_to_consumers(c)
      PROVE  TableKept
  <2>1. /\ pc[c] = "forward" /\ (Serves(c) \/ Overruns(c) \/ Served(c))
        /\ UNCHANGED <<table, ghosts>>
    BY <1>7, ForwardStep
  <2>2. c \notin Registering /\ c \notin Registering'
    BY <1>1, <2>1 DEF Serves, Overruns, Served, Registering
  <2>3. \A d \in Client \ {c} : pc'[d] = pc[d] /\ loc'[d] = loc[d]
    BY <1>1, <2>1 DEF Serves, Overruns, Served, Moves
  <2> QED  BY <1>2, <2>1, <2>2, <2>3
<1>8. ASSUME NEW c \in Client, NEW m \in Message, NEW x \in ExchangeName,
             NEW k \in RoutingKey, broker_publish(c, m, x, k)
      PROVE  TableKept
  <2>1. c \notin Registering /\ c \notin Registering'
    BY <1>1, <1>8 DEF broker_publish, Registering
  <2>2. \A d \in Client \ {c} : pc'[d] = pc[d] /\ loc'[d] = loc[d]
    BY <1>1, <1>8 DEF broker_publish
  <2>3. UNCHANGED <<table, ghosts>>
    BY <1>8 DEF broker_publish
  <2> QED  BY <1>2, <2>1, <2>2, <2>3
<1> QED
  BY <1>3, <1>4, <1>5, <1>6, <1>7, <1>8 DEF Next, Handler, Registers

\* The entries that count stay as they are.
TableGrows ==
    /\ consumer_count' >= consumer_count
    /\ \A i \in 0 .. (consumer_count - 1) : consumers'[i] = consumers[i]

\* A registration that runs alone keeps the entries, and adds its own.
LEMMA RegistersTable ==
  ASSUME Base, TableInv, NEW c \in Client, Registers(c), ~overlapped'
  PROVE  TableInv' /\ TableGrows /\ ~overlapped
<1> USE LimitsAssumption
<1>1. /\ loc \in [Client -> Locals] /\ loc[c] \in Locals
      /\ pc \in [Client -> {"absent", "idle", "name", "index", "count",
                            "publish", "route", "forward"}]
      /\ consumers \in [Client -> Entry] /\ consumer_count \in Nat
      /\ Flags
  BY DEF Base, HandlerTypes, ClientTypes
<1>2. ~overlapped
  BY DEF Registers, register_check, register_name, register_index, register_count, ghosts
<1>3. /\ \A d, e \in Registering : d = e
      /\ \A d \in Registering :
           /\ loc[d].index = consumer_count /\ consumer_count < MAX_CONNECTIONS
           /\ pc[d] \in {"index", "count"} => consumers[consumer_count].queue = loc[d].queue
           /\ pc[d] = "count" => consumers[consumer_count].client = d
      /\ consumer_count <= MAX_CONNECTIONS
      /\ {consumers[i] : i \in 0 .. (consumer_count - 1)} = subscribed
  BY <1>2 DEF TableInv
<1>4. \A i \in 0 .. (consumer_count - 1) : i \in Client /\ i # consumer_count
  BY <1>1, <1>3 DEF Client
<1>5. c \in Registering =>
        /\ Registering = {c} /\ IndexRead(c) = {consumer_count}
        /\ consumer_count < MAX_CONNECTIONS /\ consumer_count \in Client
  <2> SUFFICES ASSUME c \in Registering
               PROVE  /\ Registering = {c} /\ IndexRead(c) = {consumer_count}
                      /\ consumer_count < MAX_CONNECTIONS /\ consumer_count \in Client
    OBVIOUS
  <2>1. loc[c].index = consumer_count /\ consumer_count < MAX_CONNECTIONS
    BY <1>3
  <2>2. Registering = {c}
    BY <1>3
  <2>3. consumer_count \in Client
    BY <1>1, <2>1 DEF Client
  <2> QED  BY <2>1, <2>2, <2>3 DEF IndexRead
<1>6. ASSUME NEW q \in QueueName, register_check(c, q)
      PROVE  TableInv' /\ TableGrows
  <2>1. Registering = {}
    BY <1>6 DEF register_check
  <2>2. loc'[c].index = consumer_count
    <3>1. loc' = [loc EXCEPT ![c].queue = q, ![c].index = consumer_count]
      BY <1>6 DEF register_check
    <3>2. loc \in [Client -> Locals] /\ consumer_count \in Nat
      BY <1>1
    <3>3. loc[c] \in Locals /\ loc'[c] = [loc[c] EXCEPT !.queue = q, !.index = consumer_count]
      BY <3>1, <3>2
    <3> QED  BY <3>3 DEF Locals
  <2>3. pc' = [pc EXCEPT ![c] = "name"] /\ UNCHANGED <<consumers, consumer_count, subscribed>>
        /\ consumer_count < MAX_CONNECTIONS
    BY <1>6 DEF register_check, table
  <2>4. \A d \in Registering' : d = c /\ pc'[d] = "name"
    BY <1>1, <2>1, <2>3 DEF Registering
  <2>5. TableInv'
    BY <1>3, <2>2, <2>3, <2>4 DEF TableInv
  <2> QED  BY <1>1, <2>3, <2>5 DEF TableGrows
<1>7. ASSUME register_name(c) \/ register_index(c)
      PROVE  TableInv' /\ TableGrows
  <2>1. c \in Registering
    BY <1>7 DEF register_name, register_index, Registering
  <2>2. UNCHANGED <<consumer_count, subscribed>>
    BY <1>7 DEF register_name, register_index, ghosts
  <2>3. \A d \in Registering' : d = c
    BY <1>1, <1>5, <1>7, <2>1 DEF register_name, register_index, Registering
  <2>4. loc' = [loc EXCEPT ![c].index = consumer_count]
    BY <1>5, <1>7, <2>1 DEF register_name, register_index
  <2>5. loc'[c].index = consumer_count /\ loc'[c].queue = loc[c].queue
    BY <1>1, <2>4 DEF Locals
  <2>6. /\ \A i \in Client : i # consumer_count => consumers'[i] = consumers[i]
        /\ pc'[c] \in {"index", "count"} /\ consumers'[consumer_count].queue = loc[c].queue
        /\ pc'[c] = "count" => consumers'[consumer_count].client = c
    <3>1. CASE register_name(c)
      <4>1. consumers' = [consumers EXCEPT ![consumer_count] =
                            [consumers[consumer_count] EXCEPT !.queue = loc[c].queue]]
        BY <1>1, <1>5, <2>1, <3>1 DEF register_name, WriteEntry
      <4>2. pc'[c] = "index"
        BY <1>1, <3>1 DEF register_name
      <4>3. consumers[consumer_count] \in Entry
        BY <1>1, <1>5, <2>1
      <4>4. consumers'[consumer_count] = [consumers[consumer_count] EXCEPT !.queue = loc[c].queue]
        BY <1>1, <1>5, <2>1, <4>1
      <4> QED  BY <1>1, <4>1, <4>2, <4>3, <4>4 DEF Entry
    <3>2. CASE register_index(c)
      <4>1. consumers' = [consumers EXCEPT ![consumer_count] =
                            [consumers[consumer_count] EXCEPT !.client = c]]
        BY <1>1, <1>5, <2>1, <3>2 DEF register_index, WriteEntry
      <4>2. pc[c] = "index" /\ pc'[c] = "count"
        BY <1>1, <3>2 DEF register_index
      <4>3. consumers[consumer_count] \in Entry
        BY <1>1, <1>5, <2>1
      <4>4. consumers'[consumer_count] = [consumers[consumer_count] EXCEPT !.client = c]
        BY <1>1, <1>5, <2>1, <4>1
      <4>5. consumers[consumer_count].queue = loc[c].queue
        BY <1>3, <2>1, <4>2
      <4> QED  BY <1>1, <4>1, <4>2, <4>3, <4>4, <4>5 DEF Entry
    <3> QED  BY <1>7, <3>1, <3>2
  <2>7. \A i \in 0 .. (consumer_count - 1) : consumers'[i] = consumers[i]
    BY <1>4, <2>6
  <2>8. TableInv'
    BY <1>3, <1>5, <2>1, <2>2, <2>3, <2>5, <2>6, <2>7 DEF TableInv
  <2> QED  BY <1>1, <2>2, <2>7, <2>8 DEF TableGrows
<1>8. ASSUME register_count(c)
      PROVE  TableInv' /\ TableGrows
  <2>1. c \in Registering /\ pc[c] = "count"
    BY <1>8 DEF register_count, Registering
  <2>2. consumers' = consumers /\ consumer_count' = consumer_count + 1
    BY <1>5, <1>8, <2>1 DEF register_count
  <2>3. Registering' = {}
    BY <1>1, <1>5, <1>8, <2>1 DEF register_count, Registering
  <2>4. consumers[consumer_count] = [queue |-> loc[c].queue, client |-> c]
    <3>1. consumers[consumer_count] \in Entry
      BY <1>1, <1>5, <2>1
    <3>2. consumers[consumer_count].queue = loc[c].queue /\ consumers[consumer_count].client = c
      BY <1>3, <2>1
    <3> QED  BY <3>1, <3>2 DEF Entry
  <2>5. {consumers[i] : i \in 0 .. ((consumer_count + 1) - 1)}
          = {consumers[i] : i \in 0 .. (consumer_count - 1)} \union {consumers[consumer_count]}
    <3>1. \A i : i \in 0 .. ((consumer_count + 1) - 1)
            <=> (i \in 0 .. (consumer_count - 1) \/ i = consumer_count)
      BY <1>1
    <3> QED  BY <3>1
  <2>6. subscribed' = subscribed \union {consumers[consumer_count]}
    BY <1>8, <2>4 DEF register_count
  <2>7. {consumers'[i] : i \in 0 .. (consumer_count' - 1)} = subscribed'
    <3>1. {consumers'[i] : i \in 0 .. (consumer_count' - 1)}
            = {consumers[i] : i \in 0 .. ((consumer_count + 1) - 1)}
      BY <2>2
    <3>2. {consumers[i] : i \in 0 .. (consumer_count - 1)} = subscribed
      BY <1>3
    <3> QED  BY <2>5, <2>6, <3>1, <3>2
  <2>8. consumer_count' <= MAX_CONNECTIONS
    BY <1>1, <1>5, <2>1, <2>2
  <2>9. TableInv'
    BY <2>3, <2>7, <2>8 DEF TableInv
  <2> QED  BY <1>1, <2>2, <2>9 DEF TableGrows
<1> QED  BY <1>2, <1>6, <1>7, <1>8 DEF Registers

\* Until registrations overlap, the table grows by what is registered.
LEMMA TableInvStep ==
  ASSUME Base, TableInv, [Next]_vars
  PROVE  TableInv' /\ (~overlapped' => TableGrows /\ ~overlapped)
<1>1. CASE TableKept
  <2>1. consumer_count \in Nat /\ consumer_count' = consumer_count
    BY <1>1 DEF TableKept, Base, ClientTypes
  <2> QED  BY <1>1, <2>1 DEF TableKept, TableInv, TableGrows
<1>2. ASSUME NEW c \in Client, Registers(c)
      PROVE  TableInv' /\ (~overlapped' => TableGrows /\ ~overlapped)
  BY <1>2, RegistersTable DEF TableInv
<1> QED  BY <1>1, <1>2, TableStep

\* The invariant of the table always holds.
LEMMA AlwaysTableInv == Spec => []TableInv
<1>1. Init => TableInv
  <2> SUFFICES ASSUME Init PROVE TableInv
    OBVIOUS
  <2>1. Registering = {}
    BY DEF Init, Registering
  <2>2. {consumers[i] : i \in 0 .. (consumer_count - 1)} = {}
    BY DEF Init
  <2> QED  BY <2>1, <2>2, LimitsAssumption DEF Init, TableInv
<1>2. Base /\ TableInv /\ [Next]_vars => TableInv'
  BY TableInvStep
<1> QED  BY <1>1, <1>2, AlwaysBase, PTL DEF Spec

\* As long as no two registrations have overlapped, the table that the handlers
\* share without a lock holds exactly the registrations that were confirmed, and
\* no more than fit, for every number of clients and of registrations.
THEOREM TableHoldsTheSubscriptions == Spec => []TableIsSubscriptions
<1>1. TableInv => TableIsSubscriptions
  BY DEF TableInv, TableIsSubscriptions
<1> QED  BY <1>1, AlwaysTableInv, PTL

\* Who is registered, or is to get a copy, is connected or was.
Present ==
    /\ \A s \in subscribed : pc[s.client] # "absent"
    /\ \A d \in due : d.client \in Client /\ pc[d.client] # "absent"

\* The handler that forwards the copy has not passed the entry of this client yet.
OnItsWay(d) ==
    \E c, k \in Client :
        /\ pc[c] = "forward" /\ d.copy = CopyFor(c, loc[c].binding)
        /\ loc[c].index <= k /\ k < consumer_count
        /\ consumers[k] = [queue |-> bindings[loc[c].binding].queue, client |-> d.client]

DueInv ==
    \A d \in due :
        ~overlapped /\ Running /\ peer[d.client] = "open" /\ d.client \notin cut =>
            d.copy \in Sent(d.client) \/ OnItsWay(d)

\* What a step does to the history of who is to get a copy.
LEMMA DueStep ==
  ASSUME Base, AtBinding, [Next]_vars
  PROVE  due' = due \/ \E c \in Client, i \in DOMAIN bindings : TakesOne(c, i)
<1>1. ASSUME NEW c \in Client, route_binding(c), due' # due
      PROVE  \E e \in Client, i \in DOMAIN bindings : TakesOne(e, i)
  BY <1>1, RouteBindingStep DEF TakesOne, Skips
<1>2. CASE UNCHANGED vars \/ Setup
  BY <1>2 DEF vars, Setup, ghosts
<1>3. ASSUME NEW c \in Client,
             \/ accept(c) \/ client_close(c) \/ client_read(c)
             \/ Registers(c) \/ route_begin(c) \/ forward_message_to_consumers(c)
             \/ publish_end(c)
      PROVE  due' = due
  BY <1>3 DEF accept, client_close, client_read, Registers, register_check, register_name,
              register_index, register_count, route_begin, forward_message_to_consumers,
              publish_end, ghosts
<1>4. ASSUME NEW c \in Client, NEW m \in Message, NEW x \in ExchangeName,
             NEW k \in RoutingKey, broker_publish(c, m, x, k)
      PROVE  due' = due
  BY <1>4 DEF broker_publish, ghosts
<1> QED  BY <1>1, <1>2, <1>3, <1>4 DEF Next, Handler, Registers

\* A slot once taken stays taken, a peer that has left does not come back, a process
\* that has ended does not go on.
LEMMA StaysPresent ==
  ASSUME Base, [Next]_vars
  PROVE  /\ \A d \in Client : pc[d] # "absent" =>
              pc'[d] # "absent" /\ (peer'[d] = "open" => peer[d] = "open")
         /\ Running' => Running
         /\ \A s \in subscribed' : s \in subscribed \/ (s.client \in Client /\ pc'[s.client] = "idle")
<1>1. /\ pc \in [Client -> {"absent", "idle", "name", "index", "count",
                            "publish", "route", "forward"}]
      /\ peer \in [Client -> {"absent", "open", "closed"}]
      /\ loc \in [Client -> Locals] /\ alive \in BOOLEAN /\ overrun \in BOOLEAN
  BY DEF Base, HandlerTypes, ClientTypes, Flags
<1> DEFINE Stays == \A d \in Client : pc[d] # "absent" =>
                      pc'[d] # "absent" /\ (peer'[d] = "open" => peer[d] = "open")
<1>2. CASE UNCHANGED vars \/ Setup
  BY <1>2 DEF vars, Setup, ghosts, Running
<1>3. ASSUME NEW c \in Client, accept(c) \/ client_close(c) \/ client_read(c) \/ route_begin(c)
                                 \/ publish_end(c)
      PROVE  Stays /\ Running /\ subscribed' = subscribed
  BY <1>1, <1>3 DEF accept, client_close, client_read, route_begin, publish_end, ghosts
<1>4. ASSUME NEW c \in Client, Registers(c)
      PROVE  /\ Stays /\ Running
             /\ \A s \in subscribed' : s \in subscribed \/ (s.client \in Client /\ pc'[s.client] = "idle")
  <2>1. Stays /\ Running
    BY <1>1, <1>4 DEF Registers, register_check, register_name, register_index, register_count
  <2>2. CASE subscribed' = subscribed
    BY <2>1, <2>2
  <2>3. CASE register_count(c)
    <3>1. subscribed' = subscribed \union {[queue |-> loc[c].queue, client |-> c]}
          /\ pc'[c] = "idle"
      BY <1>1, <2>3 DEF register_count
    <3> QED  BY <2>1, <3>1
  <2> QED  BY <1>4, <2>2, <2>3 DEF Registers, register_check, register_name, register_index, ghosts
<1>5. ASSUME NEW c \in Client, route_binding(c)
      PROVE  Stays /\ Running /\ subscribed' = subscribed
  <2>1. PICK i \in DOMAIN bindings : Takes(c, i) \/ Skips(c, i)
    BY <1>5, RouteBindingStep
  <2>2. Running /\ UNCHANGED <<peer, subscribed>>
    BY <1>5 DEF route_binding
  <2> QED  BY <1>1, <2>1, <2>2 DEF Takes, Skips
<1>6. ASSUME NEW c \in Client, forward_message_to_consumers(c)
      PROVE  Stays /\ Running /\ subscribed' = subscribed
  <2>1. Running /\ (Serves(c) \/ Overruns(c) \/ Served(c)) /\ UNCHANGED <<peer, ghosts>>
    BY <1>6, ForwardStep
  <2> QED  BY <1>1, <2>1 DEF Serves, Overruns, Served, ghosts
<1>7. ASSUME NEW c \in Client, NEW m \in Message, NEW x \in ExchangeName,
             NEW k \in RoutingKey, broker_publish(c, m, x, k)
      PROVE  Stays /\ Running /\ subscribed' = subscribed
  BY <1>1, <1>7 DEF broker_publish, ghosts
<1> QED
  BY <1>2, <1>3, <1>4, <1>5, <1>6, <1>7 DEF Next, Handler, Registers

\* Where a handler that forwards gets.
LEMMA ForwarderStep ==
  ASSUME Base, [Next]_vars, NEW e \in Client, pc[e] = "forward"
  PROVE  \/ pc'[e] = pc[e] /\ loc'[e] = loc[e]
         \/ Serves(e) \/ Overruns(e) \/ Served(e)
<1>1. /\ pc \in [Client -> {"absent", "idle", "name", "index", "count",
                            "publish", "route", "forward"}]
      /\ loc \in [Client -> Locals]
  BY DEF Base, HandlerTypes
<1>2. CASE UNCHANGED vars \/ Setup
  BY <1>2 DEF vars, Setup
<1>3. ASSUME NEW c \in Client,
             \/ accept(c) \/ client_close(c) \/ client_read(c)
             \/ Registers(c) \/ route_begin(c) \/ publish_end(c)
      PROVE  pc'[e] = pc[e] /\ loc'[e] = loc[e]
  BY <1>1, <1>3 DEF accept, client_close, client_read, Registers, register_check, register_name,
              register_index, register_count, route_begin, publish_end
<1>4. ASSUME NEW c \in Client, route_binding(c)
      PROVE  pc'[e] = pc[e] /\ loc'[e] = loc[e]
  <2>1. PICK i \in DOMAIN bindings : Takes(c, i) \/ Skips(c, i)
    BY <1>4, RouteBindingStep
  <2>2. e # c
    BY <1>4 DEF route_binding
  <2> QED  BY <1>1, <2>1, <2>2 DEF Takes, Skips, Moves
<1>5. ASSUME NEW c \in Client, forward_message_to_consumers(c)
      PROVE  \/ pc'[e] = pc[e] /\ loc'[e] = loc[e]
             \/ Serves(e) \/ Overruns(e) \/ Served(e)
  <2>1. Serves(c) \/ Overruns(c) \/ Served(c)
    BY <1>5, ForwardStep
  <2> QED  BY <1>1, <2>1 DEF Serves, Overruns, Served, Moves
<1>6. ASSUME NEW c \in Client, NEW m \in Message, NEW x \in ExchangeName,
             NEW k \in RoutingKey, broker_publish(c, m, x, k)
      PROVE  pc'[e] = pc[e] /\ loc'[e] = loc[e]
  BY <1>1, <1>6 DEF broker_publish
<1> QED  BY <1>2, <1>3, <1>4, <1>5, <1>6 DEF Next, Handler, Registers

\* Who is registered, or is to get a copy, has connected.
LEMMA PresentStep ==
  ASSUME Base, AtBinding, Present, [Next]_vars
  PROVE  Present'
<1>1. subscribed \subseteq [queue : QueueName, client : Client]
  BY DEF Base, ClientTypes
<1>2. \A s \in subscribed' : pc'[s.client] # "absent"
  BY <1>1, StaysPresent DEF Present
<1>3. CASE due' = due
  BY <1>2, <1>3, StaysPresent DEF Present
<1>4. ASSUME NEW c \in Client, NEW i \in DOMAIN bindings, TakesOne(c, i)
      PROVE  Present'
  <2>1. \A d \in due' : d \in due \/ d.client \in Subscribers(bindings[i].queue)
    BY <1>4 DEF TakesOne, Takes
  <2>2. \A k \in Subscribers(bindings[i].queue) : k \in Client /\ pc[k] # "absent"
    BY <1>1 DEF Subscribers, Present
  <2>3. \A d \in due' : d.client \in Client /\ pc[d.client] # "absent"
    BY <2>1, <2>2 DEF Present
  <2> QED  BY <1>2, <2>3, StaysPresent DEF Present
<1> QED  BY <1>3, <1>4, DueStep

\* What was sent stays sent.
LEMMA SentStays ==
  ASSUME Base, [Next]_vars, NEW d \in Client
  PROVE  Sent(d) \subseteq Sent(d)'
<1>1. stream \in [Client -> Seq(Copy)] /\ stream[d] \in Seq(Copy)
  BY DEF Base, ClientTypes
<1>2. \A i \in DOMAIN stream[d] : i \in DOMAIN stream'[d] /\ stream'[d][i] = stream[d][i]
  <2>1. CASE stream' = stream
    BY <2>1
  <2>2. ASSUME NEW c \in Client, NEW e \in Client, SendsTo(c, e)
        PROVE  \A i \in DOMAIN stream[d] : i \in DOMAIN stream'[d] /\ stream'[d][i] = stream[d][i]
    <3>1. stream'[d] = stream[d] \/ stream'[d] = Append(stream[d], CopyFor(c, loc[c].binding))
      BY <1>1, <2>2 DEF SendsTo
    <3>2. CASE stream'[d] = stream[d]
      BY <3>2
    <3>3. ASSUME NEW s \in Seq(Copy), NEW copy, stream[d] = s, stream'[d] = Append(s, copy)
          PROVE  \A i \in DOMAIN s : i \in DOMAIN Append(s, copy) /\ Append(s, copy)[i] = s[i]
      OBVIOUS
    <3> QED  BY <1>1, <3>1, <3>2, <3>3
  <2> QED  BY <2>1, <2>2, StreamStep
<1> QED  BY <1>2 DEF Sent

\* A client that has lost its place does not find it again.
LEMMA CutStays ==
  ASSUME Base, [Next]_vars
  PROVE  cut \subseteq cut'
<1>1. ASSUME NEW c \in Client, forward_message_to_consumers(c)
      PROVE  cut \subseteq cut'
  <2>1. Serves(c) \/ Overruns(c) \/ Served(c)
    BY <1>1, ForwardStep
  <2> QED  BY <2>1 DEF Serves, Overruns, Served, send_message_data, frames
<1>2. CASE UNCHANGED vars \/ Setup
  BY <1>2 DEF vars, Setup, frames
<1>3. ASSUME NEW c \in Client,
             \/ accept(c) \/ client_close(c) \/ client_read(c)
             \/ Registers(c) \/ route_begin(c) \/ route_binding(c) \/ publish_end(c)
      PROVE  cut' = cut
  BY <1>3 DEF accept, client_close, client_read, Registers, register_check, register_name,
              register_index, register_count, route_begin, route_binding, publish_end, frames
<1>4. ASSUME NEW c \in Client, NEW m \in Message, NEW x \in ExchangeName,
             NEW k \in RoutingKey, broker_publish(c, m, x, k)
      PROVE  cut' = cut
  BY <1>4 DEF broker_publish, frames
<1> QED  BY <1>1, <1>2, <1>3, <1>4 DEF Next, Handler, Registers

\* A consumer that is owed the message has been sent it or has an entry still ahead.
LEMMA DueInvStep ==
  ASSUME Base, Base', AtBinding, TableInv, Present, DueInv, [Next]_vars
  PROVE  DueInv'
<1> USE LimitsAssumption, NullAssumption
<1> SUFFICES ASSUME NEW d \in due', ~overlapped', Running', peer'[d.client] = "open",
                    d.client \notin cut'
             PROVE  d.copy \in Sent(d.client)' \/ OnItsWay(d)'
  BY DEF DueInv
<1>1. /\ pc \in [Client -> {"absent", "idle", "name", "index", "count",
                            "publish", "route", "forward"}]
      /\ loc \in [Client -> Locals] /\ stream \in [Client -> Seq(Copy)]
      /\ consumer_count \in Nat /\ consumer_count' \in Nat
  BY DEF Base, HandlerTypes, ClientTypes
<1>2. TableGrows /\ ~overlapped
  BY TableInvStep
<1>3. consumer_count <= MAX_CONNECTIONS
      /\ {consumers[i] : i \in 0 .. (consumer_count - 1)} = subscribed
  BY <1>2 DEF TableInv
<1>4. d \in due => d.client \in Client /\ (d.copy \in Sent(d.client) \/ OnItsWay(d))
  <2> SUFFICES ASSUME d \in due
               PROVE  d.client \in Client /\ (d.copy \in Sent(d.client) \/ OnItsWay(d))
    OBVIOUS
  <2>1. d.client \in Client /\ pc[d.client] # "absent"
    BY DEF Present
  <2>2. Running /\ peer[d.client] = "open"
    BY <2>1, StaysPresent
  <2>3. d.client \notin cut
    BY CutStays
  <2> QED  BY <1>2, <2>1, <2>2, <2>3 DEF DueInv
<1>5. d \in due /\ d.copy \in Sent(d.client) => d.copy \in Sent(d.client)'
  BY <1>4, SentStays
<1>6. ASSUME NEW c \in Client, NEW i \in DOMAIN bindings, TakesOne(c, i)
      PROVE  d.copy \in Sent(d.client)' \/ OnItsWay(d)'
  <2>1. CASE d \in due
    <3>1. ~OnItsWay(d)
      BY <1>6 DEF TakesOne, OnItsWay, Base, Exclusion, Inside
    <3> QED  BY <1>4, <1>5, <2>1, <3>1
  <2>2. CASE d \notin due
    <3>1. PICK k \in Subscribers(bindings[i].queue) : d = [client |-> k, copy |-> CopyFor(c, i)]
      BY <1>6, <2>2 DEF TakesOne, Takes
    <3>2. d.client = k /\ d.copy = CopyFor(c, i)
      BY <3>1
    <3>3. PICK s \in subscribed : s.queue = bindings[i].queue /\ s.client = k
      BY <3>1 DEF Subscribers
    <3>4. s = [queue |-> bindings[i].queue, client |-> k]
      BY <3>3 DEF Base, ClientTypes
    <3>5. PICK j \in 0 .. (consumer_count - 1) : consumers[j] = s
      BY <1>3, <3>3
    <3>6. j \in Client /\ 0 <= j /\ j < consumer_count
      BY <1>1, <1>3, <3>5 DEF Client
    <3>7. /\ pc'[c] = "forward" /\ loc'[c].index = 0 /\ loc'[c].binding = i
          /\ loc'[c].message = loc[c].message
          /\ bindings' = bindings /\ consumers' = consumers /\ consumer_count' = consumer_count
      BY <1>1, <1>6 DEF TakesOne, Takes, Moves, table
    <3>8. d.copy = CopyFor(c, loc[c].binding)'
      BY <3>2, <3>7 DEF CopyFor
    <3>9. /\ loc'[c].index <= j /\ j < consumer_count'
          /\ consumers'[j] = [queue |-> bindings'[loc'[c].binding].queue, client |-> d.client]
      BY <3>2, <3>4, <3>5, <3>6, <3>7
    <3>10. OnItsWay(d)'
      BY <3>6, <3>7, <3>8, <3>9 DEF OnItsWay
    <3> QED  BY <3>10
  <2> QED  BY <2>1, <2>2
<1>7. ASSUME d \in due, OnItsWay(d)
      PROVE  d.copy \in Sent(d.client)' \/ OnItsWay(d)'
  <2>1. PICK e \in Client, k \in Client :
          /\ pc[e] = "forward" /\ d.copy = CopyFor(e, loc[e].binding)
          /\ loc[e].index <= k /\ k < consumer_count
          /\ consumers[k] = [queue |-> bindings[loc[e].binding].queue, client |-> d.client]
    BY <1>7 DEF OnItsWay
  <2>2. k \in Nat /\ loc[e].index \in Nat /\ loc'[e].index \in Nat
    <3>1. k \in Nat
      BY LimitsAssumption DEF Client
    <3>2. loc \in [Client -> Locals] /\ loc' \in [Client -> Locals]
      BY DEF Base, HandlerTypes
    <3>3. loc[e] \in Locals /\ loc'[e] \in Locals
      BY <3>2
    <3> QED  BY <3>1, <3>3 DEF Locals
  <2>3. k < consumer_count' /\ consumers'[k] = consumers[k]
    BY <1>1, <1>2, <2>1, <2>2 DEF TableGrows
  <2>4. bindings'[loc[e].binding] = bindings[loc[e].binding]
    BY <2>1, QueuesStep DEF AtBinding, WrittenOnce
  <2>5. ASSUME pc'[e] = "forward", loc'[e].binding = loc[e].binding,
               loc'[e].message = loc[e].message, loc'[e].index <= k
        PROVE  OnItsWay(d)'
    <3>1. d.copy = CopyFor(e, loc[e].binding)'
      BY <2>1, <2>5 DEF CopyFor
    <3>2. consumers'[k] = [queue |-> bindings'[loc'[e].binding].queue, client |-> d.client]
      BY <2>1, <2>3, <2>4, <2>5
    <3> QED  BY <2>3, <2>5, <3>1, <3>2 DEF OnItsWay
  <2>6. CASE pc'[e] = pc[e] /\ loc'[e] = loc[e]
    BY <2>1, <2>5, <2>6
  <2>7. CASE Overruns(e)
    BY <2>7 DEF Overruns, Running
  <2>8. CASE Served(e)
    BY <1>1, <2>1, <2>2, <2>8 DEF Served
  <2>9. CASE Serves(e)
    <3>1. /\ pc'[e] = "forward" /\ loc'[e].binding = loc[e].binding
          /\ loc'[e].message = loc[e].message /\ loc'[e].index = loc[e].index + 1
      BY <2>1, <2>9 DEF Serves, Moves
    <3>2. CASE loc[e].index # k
      BY <2>1, <2>2, <2>5, <3>1, <3>2
    <3>3. CASE loc[e].index = k
      <4>1. /\ EntryFor(e).queue = bindings[loc[e].binding].queue
            /\ EntryFor(e).client = d.client
        BY <2>1, <3>3 DEF EntryFor
      <4>2. d.client \in Client /\ pc[d.client] # "absent" /\ peer[d.client] = "open"
        BY <1>7, StaysPresent DEF Present
      <4>3. IsTarget(e)
        BY <4>1, <4>2 DEF IsTarget
      <4>4. stream' = [stream EXCEPT ![d.client] = Append(@, d.copy)]
        <5>1. send_message_data(d.client, d.copy)
          BY <2>1, <2>9, <4>1, <4>3 DEF Serves
        <5> QED  BY <4>2, <5>1 DEF send_message_data
      <4>5. stream'[d.client] = Append(stream[d.client], d.copy) /\ stream[d.client] \in Seq(Copy)
        BY <1>1, <4>2, <4>4
      <4>6. /\ Len(stream[d.client]) + 1 \in DOMAIN stream'[d.client]
            /\ stream'[d.client][Len(stream[d.client]) + 1] = d.copy
        BY <4>5
      <4> QED  BY <4>6 DEF Sent
    <3> QED  BY <3>2, <3>3
  <2> QED  BY <2>1, <2>6, <2>7, <2>8, <2>9, ForwarderStep
<1> QED  BY <1>4, <1>5, <1>6, <1>7, DueStep

\* As long as no two registrations have overlapped and the process runs, a message
\* that a queue took has reached, when no publish is under way, every client that is
\* still connected, had registered for that queue before and was sent no part of a
\* frame: whatever handlers register, publish or leave while the handler forwards it.
THEOREM EveryConsumerIsServed == Spec => []EveryConsumerServed
<1>1. Init => Present /\ DueInv
  BY DEF Init, Present, DueInv
<1>2. Base /\ Base' /\ AtBinding /\ TableInv /\ Present /\ DueInv /\ [Next]_vars
      => (Present /\ DueInv)'
  BY PresentStep, DueInvStep
<1>3. Base /\ DueInv => EveryConsumerServed
  <2> SUFFICES ASSUME Base, DueInv, NEW d \in due, ~overlapped, Running, mutex = NULL,
                      peer[d.client] = "open", d.client \notin cut
               PROVE  d.copy \in Sent(d.client)
    BY DEF EveryConsumerServed
  <2>1. \A c \in Client : pc[c] # "forward"
    BY NullAssumption DEF Base, Exclusion, Inside
  <2>2. ~OnItsWay(d)
    BY <2>1 DEF OnItsWay
  <2> QED  BY <2>2 DEF DueInv
<1> QED  BY <1>1, <1>2, <1>3, AlwaysBase, AlwaysTableInv, PTL DEF Spec

=============================================================================
