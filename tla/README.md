# A verification project for rabbitmq-client

The repository holds a small message broker written in C, and a client for it:
a C connection library with a C++ wrapper. This directory models its core in
TLA+, checks the models with TLC on small instances, and proves their safety
properties with TLAPS for instances of every size.

## 1. Inventory

| Part | Source | State | Operations |
|------|--------|-------|------------|
| Queue | `src/core/queue.c` | ring `messages`/`head`/`tail`/`size`, the list `unacked_messages`, `next_delivery_tag`, a mutex, the conditions `not_empty` and `not_full` | `queue_create`, `queue_free`, `queue_enqueue`, `queue_dequeue`, `queue_try_enqueue`, `queue_try_dequeue`, `queue_ack`, `queue_reject`, `queue_process_timeouts` |
| Broker, message path | `src/core/broker.c` | queues, exchanges and bindings; the tables `client_connections` and `consumers` | `broker_create_queue`, `broker_create_exchange`, `broker_bind_queue`, `register_consumer`, `broker_publish`, `broker_route_message`, `forward_message_to_consumers`, `match_topic` |
| Broker, threads | `src/core/broker.c`, `src/broker/main.c` | `running`, slots of clients, `client_count` | `main`, `broker_start`, `broker_stop`, `broker_free`, the network thread, the event loop, a handler per client |
| Connection | `src/core/connection.c` | `status`, `running`, `socket_fd`, the receiver thread | `connection_connect`, `connection_disconnect`, `connection_send`, `connection_free`, the receiver thread |
| Wire format | `src/core/connection.c` | none | `send_message_data`, `receive_message_data` |
| C++ client | `src/wrapper/client.cpp` | the callback context: a consumer and a pointer to the promise of `get()` | `connect`, `publish`, `consume`, `get`, `ack`, `reject`, the callbacks |
| Message, log | `src/core/message.c`, `src/core/log.c` | heap blocks; the output stream | copy, free, setters; output, and `exit` on a fatal message |

How the parts interact. A client's `Connection` sends frames to the broker. The
broker's network thread accepts the connection into a slot and starts a handler
for it. The handler reads frames; a frame to the exchange `consumer` with key
`register` enters the client into the table of consumers, any other frame is
published: under the broker's mutex a copy goes into every matching queue and
is then sent to every consumer of that queue. The event loop requeues overdue
deliveries every five seconds. The client's receiver thread hands what arrives
to the callback of the C++ wrapper.

What is hard. Threads meet at five places: in a queue (mutex and conditions), at
the broker's mutex, at the tables of consumers and clients (which no lock
guards), and in a connection (where the mutex guards single accesses, but not
the join and the close). In the C++ wrapper, the context of the callback is
shared between the receiver thread and the program without any lock. Peers leave at any moment or stop reading. The ring,
the list of deliveries and the fixed tables have limits. Messages pass from
owner to owner by pointer, over error paths.

What makes each part correct:

* Queue: first in, first out with requeued messages in front; every message has
  one owner; each delivery is settled once; nobody sleeps beside work.
* Message path: a message goes to the queues its exchange sends it to and to no
  other, in one order everywhere; every registered consumer is sent it; what is
  allocated is freed once; a publish ends.
* Threads: a descriptor is in exactly one place; a handler keeps its connection
  while it runs; nothing uses the broker after it is freed; shutdown ends unless a
  publish is stuck in a send.
* Wire format: a message is made of the bytes of one frame; every way out frees
  what it holds; nothing is missed before the reader loses its place; a sender does
  not block while there is a reader that reads.
* C++ client: a message has one owner; handlers run one at a time and never after
  `disconnect`; a promise is used while its `get()` waits.
* Connection: "connected" means an open socket and one receiver; a loss is
  noticed; `disconnect` returns.

`PROJECT.json` lists the hazards, line by line.

## 2. Modules

| Module | Models | Grain of a step |
|--------|--------|-----------------|
| `QueueSpec` | what `queue.h` promises: a bounded sequence and a set of deliveries | one call |
| `Queue` | `queue.c` | one call under the mutex; a wait is left and resumed in steps of its own; a timeout pass takes one step per expired message |
| `Topic` | `match_topic`, and the rule that its comment states | operators |
| `Routing` | registry, registration, publishing, forwarding (uses `Topic`) | one access to the shared table; one binding; one send |
| `Lifecycle` | `main`, start, stop, free, network thread, event loop, life of handlers | one critical section or blocking call |
| `Connection` | `connection.c` without frames and callbacks | one critical section or blocking call |
| `Client` | `client.cpp`, on top of `Connection` (`C == INSTANCE Connection`) | a step of `Connection`; one access to the context; one call of a handler |
| `Wire` | `send_message_data` and `receive_message_data` | one call of `send` or `recv` |
| `MCQueue`, `MCRouting`, `MCLifecycle`, `MCConnection`, `MCClient`, `MCWire` | instances for TLC | |
| `QueueProofs`, `QueueRefinement` | theorems about `Queue`; the second one: owners, and that `Queue` implements `QueueSpec` | |
| `TopicProofs`, `RoutingProofs` | theorems about `match_topic` and about `Routing` | |
| `LifecycleProofs`, `ConnectionProofs`, `WireProofs` | theorems about `Lifecycle`, `Connection` and `Wire` | |
| `ClientProofs` | theorems about `Client`, which use those of `ConnectionProofs` (`CP == INSTANCE ConnectionProofs`) | |

Definitions have the names of the C functions; where a function is several
steps, the later ones add a word (`disconnect_join`). Variables have the names
of the fields. Variables that no C variable stands for are marked where they are
declared: `allocated`, `heap` and `double_free` follow memory, `fault` says that
the queue released a message it no longer owned, `subscribed`, `overlapped`,
`due`, `cut`, `raced`, `late`, `disturbed`, `first`, `intact`, `lost` and `damaged`
are histories. A history often names the one case in which a property is not kept:
the case is in the model and TLC reaches it, and the property says that there is no
other. `PROJECT.json` notes this with each hazard it concerns.

**Queue.** The ring is a function from slots to messages, the list of deliveries
a set of records (its array order is the order of the tags). `not_empty` and
`not_full` are the sets of sleeping threads; a signal removes one of them, and
`spurious_wakeup` any. A message is a heap address, so an address may come
back after it was freed. Delivery times do not decrease with the tags, so a
timeout pass expires the deliveries up to some tag, which is chosen freely. A
failing `realloc` is a choice. An integer overflow of the 64-bit tags is out of
reach and left out.

**Topic.** A key or a pattern is the sequence of the words between its dots. The
operators are checked where `Routing` uses them.

**Routing.** A client is its slot. `broker_publish` receives and clones,
`route_begin` takes the mutex, `route_binding` is one turn of the loop that
finds a matching binding, `forward_message_to_consumers` one turn of the
forwarding loop, `publish_end` the frees at the end. `register_check`, `_name`,
`_index` and `_count` are the accesses to the unlocked table; the compiler may
load `consumer_count` again for each or not, hence the choice in `IndexRead` among
the values it had since the last load. A send waits while `SendBuffer` frames are
unread; it may come back short, after which the code goes on (`cut` remembers the
client, and `Wire` has what its reader makes of the bytes); to a client that has
closed it fails, is lost, or ends the process (SIGPIPE). Since nothing in the broker
dequeues, a queue is a bounded sequence here. Names are model values; that a
registration cuts names at 63 characters is left out.

**Lifecycle.** What a handler does with a message is one stretch during which it
holds the mutex, or a registration, of which `registered` keeps the client that
entered the slot in the table of consumers. A handler may receive frames as long as
it likes, also after its client has closed, because what was sent before is still
there; so a client does no more than connect here. `stale` becomes true when a thread uses the broker after
`broker_free`; what a freed broker shows is a free choice. When main exits, all
threads are gone.

**Connection.** A socket has a number of its own, whatever number its descriptor
has: that the system may give a closed descriptor's number to a new socket is
left out. The other end is open, closed (recv returns 0), reset, or gone: a
reset is reported once, to a receiver (then it is gone) or to a sender (then recv
returns 0 from there on). `disconnect_handle` is the read of the thread's handle,
before the join that waits for it; `connect_fail` is the end of every
unsuccessful connect. The callback setters, which
clients use before they connect, are left out, as are the callbacks themselves.
`connection_free` is called when no other call is in progress.

**Client.** Every step of a call that goes to the connection is a step of
`Connection`, whose variables `Client` shares; `on_message` is the return of
`receive_message_data` with a message, and `callback_promise`, `_fulfil`, `_clear`,
`_consumer` and `_handle` are the accesses of `onMessageCallback` to the context
and its calls. The pointer to the promise may be loaded once or twice, hence the
choice in `callback_fulfil`. `place` follows a message from the callback to a
promise, to the program, or to its end. A handler may keep its message, let it
go, or throw; clearing the pointer and the end of the promise are one step when
`get()` throws (`get_throw`), as nothing the receiver does tells them apart. When a handler throws, the message is freed by its wrapper and again by
the `catch` clause, and the model stops there, as it does when a promise is used
that is not there. The program keeps two rules, which the class does not enforce:
`connect` and `disconnect` do not overlap (`Connection` covers what happens
otherwise), and the destructor comes after all other calls. Calls that a handler
makes from inside the receiver thread are left out.

**Wire.** A byte is the triple of its frame, its field and its place in the field;
the contents of names and bodies do not matter, and any bytes may be equal to the
magic: the reader accepts a true one, and may accept or refuse whatever else it finds
in its place. A reader that
takes a length from bytes that are not a length may get any number up to `MaxLength`;
that the code adds 1 to a length before it calls `malloc`, which wraps to 0 for
2^32 - 1, is left out. A word has two bytes instead of four. When a message was
returned, the reader's thread is busy with it (`handling`) until `broker_publish` or the
program's `onMessage` returns (`handle_message`), and reads nothing meanwhile. The same module
serves both directions: towards the broker, client threads send without a
lock, and the handler ends at the first frame it cannot read, without closing its
connection; towards the client, the broker's mutex keeps senders apart, and the
receiver thread goes on with the next bytes. `blocks` is the memory that
`receive_message_data` holds, and `misfreed` tells of a free that is not matched by
an allocation. `damaged` is the first frame that was cut by a short send or
mixed with another, `first` the frame whose header the reader has accepted, or 0 if
it took other bytes for one, and `lost` says that it has abandoned a frame.

## 3. Runs

Passing runs:

| Run | Properties | Instance |
|-----|-----------|----------|
| `queue` | `TypeOK`, `RingConsistent`, `UnackedInBounds`, `NoLostWakeupFull`, `Ownership`, `KeepsPromise` | 3 threads, 4 messages, capacity 2, list of deliveries of length 1 at first, 4 tags |
| `routing` | `TypeOK`, `SameOrderEverywhere`, `StreamInQueueOrder`, `EveryConsumerServed`, `OriginalLeaksOnlyIfRoutedOnce` | 3 clients, of which one registers, 2 messages, 2 queues of 2 on a fanout exchange, 1 unread frame |
| `routing_rules` | `NeverMisrouted`, `CopiesOwned`, `TopicMatchesAreExact` | 1 client, 2 messages, an exchange of each type, 2 of 8 bindings, 5 keys, queues of 1 |
| `routing_live` | `TableIsSubscriptions`, `PublishEnds` | fair handlers and readers; 2 clients, either of which may register, 2 messages, queues of 1 |
| `lifecycle` | `TypeOK`, `ConnectionsAccounted`, `HandlerHasConnection`, `LoopEndsFirst`, `EntryMeansItsClient`, `NetworkEndsLast`, `ShutdownEnds` | fair main and event loop; 3 clients, 2 slots |
| `connection` | `TypeOK`, `ConnectedIsUsable`, `OneReader`, `OnlyLostSocketsLeak`, `ResetIsNoticed`, `DisconnectEndsWithPeer` | fair calls and receivers; 2 threads, 2 sockets |
| `client` | `TypeOK`, `HandlersInTurn`, `OnlyLateMessagesDangle`, `PromiseInPlace`, `MessagesAccounted` | 2 threads, 2 connections, 2 messages |
| `wire` | `TypeOK`, `NothingHeldBetweenFrames`, `ReturnsWhatWasSent`, `NoneMissedUntilLost`, `SendReturns` | fair reader and senders; 2 senders, 2 frames, words of 2 bytes, mistaken lengths up to 1, a socket that takes 4 bytes |

What they show. `queue`: the ring, the list of deliveries and the two conditions
stay consistent; as long as no entry of a freed message is settled again
(`queue_settle`), `queue.c` implements `QueueSpec` and each message has one owner.
`routing`: however many handlers publish, all queues hold the messages in one
order, a consumer is sent them in the order of its queue and misses none unless a
send to it came back short, and
the clone that is routed leaks in one case only: when exactly one queue took a
copy of it.
`routing_rules`: no exchange sends to a queue it should not, and each copy is
freed or queued. `routing_live`: the unlocked table holds what was registered as
long as registrations do not overlap, and every publish ends if connected clients
read. `lifecycle`: no
descriptor is lost or held twice, a handler keeps its connection, an entry in the
table of consumers never comes to mean another client, and shutdown ends unless the
mutex is never free again: a publish that waits in `send` for a consumer that does not
read holds it, and `broker_stop` then waits with all others. The broker is used after it was freed only before the network thread has ended: waiting
for that thread would cure it. `connection`: as long as no disconnect overlaps with another call of its
kind, "connected" means an open socket with one reader, only sockets whose reset
was noticed leak, a reset is noticed, and a disconnect returns once the other end
has left. `client`: handlers run one at a time and never once `disconnect` has
joined the receiver; a message always has one owner; and a promise goes astray in
two races only. One is the timeout of a `get()` between the test of its pointer and
its use (`late`), the other a `get()` that begins before the pointer of the one
before was cleared, or beside another `get()` (`disturbed`). `wire`: each of the
ways out of `receive_message_data` frees what it holds. Until the reader abandons a
frame, it returns the frames as they were sent, and the broker's handler never does
anything else, since it ends there. A client that was cut off inside a frame goes on with the next bytes: it may
miss frames, and return messages that nobody sent if payload passes for a header.
Even then, where it meets the header of a frame that its sender did not cut or mix,
it returns that frame, once and in order. A sender blocks for ever only if the handler
at the other end has ended, or the reader's thread stays for ever with a message.

Why the bounds are enough. The queue wraps around, fills, blocks two producers
with a third thread left to act, and grows its list of deliveries twice; with four
messages one can be delivered, two queued and one carried by a blocked
producer. Two messages and two queues are the least with which an order can
differ; three clients are two publishers and a consumer, and two clients are
enough for two registrations to meet. A binding is tried for each type of
exchange, with a full queue and without; the keys `a`, `a.b`, `*`, `#` and `a.#`
serve as topics and as patterns, so that a wildcard stands alone and behind a
word, and is met by topics of one and of two words. Three clients for two slots
overflow the table, and a slot can be left by a client whose handler has ended. Two
sockets are a connection and its successor; with two messages a second one arrives
while the first is being handled, or after its `get()` has returned. Two frames are
the least that can be mixed, or follow one that was abandoned; a socket that takes
four bytes fills in the middle of a frame, and the two messages have a body and
none, and names of unequal lengths.

Every property that a passing run checks also has a mutant: a definition whose
name starts with `Mutant_`, which stands before the definition it distorts, and
under which TLC finds the property violated.

Runs that TLC must find violated, each stating what the sources say of the code:

| Run | Statement of the source | What happens |
|-----|------------------------|--------------|
| `queue_dequeue` | `queue.h:71` "blocks if queue is empty" | requeueing signals nobody; a consumer sleeps on |
| `queue_settle` | `queue.h:93` "0 if the delivery tag is not found" | entries of freed messages stay, and are settled again |
| `routing_free` | `broker.c:620` "Free the original message if no routing happened" | freed twice |
| `connection_disconnect` | `connection.c:218` "Stop receiver thread" | a receiver blocked in recv does not stop, and the join waits for it |

Smaller disagreements between a comment and the code were met while modelling.
The models behave as the code does; no run states the comment:

* `queue.h:99` "If requeue is 1, the message will be requeued": it is freed when the
  queue is full. In the same way a timeout pass over a full queue frees a message
  that `queue.h:72` says stays until it is acknowledged.
* `broker.c:678-679`, the rule for `*` and `#`: `match_topic` knows a wildcard
  only as the whole pattern, so `test.#` of `main.c:114` matches only itself.
* `broker.c:202` "broker_publish already frees the message": it routes a clone and
  never frees the message it was given.
* `broker.c:72` "ensure client is still connected": the test holds of a client that
  has left, whose descriptor stays in the table.
* `broker.c:34` "current client count": it counts every client that ever came.
* `connection.c:337` "close and notify": nothing is closed.
* `broker.c:152` "closing connection": the handler ends and the connection stays open.
* `broker.c:52` "consumer subscribed queue's name": two registrations at the same time
  can leave one client's index beside the other's name. `TableIsSubscriptions` says
  what holds when they do not overlap.
* `main.c:15` "graceful shutdown": the network thread and the handlers may use the
  broker after `broker_free`. `LoopEndsFirst` and `NetworkEndsLast` say what holds.
* `client.cpp:299` "wait for a message to arrive via callback": yet in a program with a
  single thread a second `get()` can lose its promise to the late clear at
  `client.cpp:122`, and a `get()` that times out can leave the receiver a pointer to
  a stack frame that is gone (`client.cpp:304`).
* `README.md:55` "Message acknowledgment (ACK) support": `Client::ack` and `reject`
  throw on every path, since nothing is entered into `m_queues`; and nothing in the
  broker dequeues, so its queues only fill up.

`CHECK_DEADLOCK FALSE` is set for all modules but the queue's: a process
may end, a connection may be freed, and the messages of an instance may be used
up. The queue's runs check for deadlock.

### Fairness

* `Queue` states no fairness: that no producer sleeps beside a free slot that
  nobody else is about to take is the invariant `NoLostWakeupFull`.
* `Routing!FairSpec`: a handler that can run again and again runs (the mutex is
  given to each waiter in the end), and a connected client reads what it is sent.
  The second is an assumption on clients: the code has no send timeout, and without
  it one idle reader blocks every publish.
* `Lifecycle!FairSpec`: main runs, and main and the event loop get the mutex if it is
  free again and again. Nothing is assumed of the network thread, the clients or the
  handlers: `accept` and `recv` may block for ever, and so may `pthread_join` on a handler
  and a publish. The first three do not matter, because `broker_stop` waits for none of
  them; the last one does, and `ShutdownEnds` has it as its condition (`[]<>MutexFree`).
* `Connection!FairSpec`: calls go on unless they wait, and a receiver goes on when
  there is something to read: a reset or an end of stream. A silent peer stays silent.
* `Wire!FairSpec`: inside `receive_message_data` a reader reads what there is, and a
  blocked sender that finds room again and again gets it (strong fairness, as two
  senders compete for the room). Nobody need begin to send, and `handle_message` is not
  fair: a publish can wait for the mutex for ever, and `onMessage` is the program's.
  `SendReturns` has the return to reading as its condition (`[]<>~handling`).
* `Client` states no fairness; its question of termination is `DisconnectEndsWithPeer`.

## 4. Proofs

TLAPS proves every invariant that a passing run checks, the action property
`NetworkEndsLast` and the refinement `KeepsPromise`: what the runs show for one
instance holds for every value of the constants that meets the assumptions.

| Module | Theorem | States |
|--------|---------|--------|
| `QueueProofs` | `TypeCorrect`, `RingIsConsistent`, `UnackedStaysInBounds`, `NoWakeupIsLost` | `TypeOK`, `RingConsistent`, `UnackedInBounds`, `NoLostWakeupFull` |
| `QueueRefinement` | `EveryMessageHasOneOwner`, `QueueKeepsPromise` | `Ownership`, `KeepsPromise` |
| `TopicProofs` | `MatchesFollowTheRule`, `SupportedMatchesAreExact` | `match_topic` against `TopicRule`, for keys of every length |
| `RoutingProofs` | `TypeCorrect`, `QueuesAgreeOnOrder`, `CopiesAreOwned`, `NothingIsMisrouted`, `SupportedTopicsAreExact` | `TypeOK`, `SameOrderEverywhere`, `CopiesOwned`, `NeverMisrouted`, `TopicMatchesAreExact` |
| | `StreamsFollowTheirQueues`, `OnlyOnceRoutedLeak`, `TableHoldsTheSubscriptions`, `EveryConsumerIsServed` | `StreamInQueueOrder`, `OriginalLeaksOnlyIfRoutedOnce`, `TableIsSubscriptions`, `EveryConsumerServed` |
| `LifecycleProofs` | `TypeCorrect`, `NoConnectionIsLost`, `HandlersHaveConnections`, `EntriesMeanTheirClients`, `EventLoopEndsFirst`, `FreedBrokerUsers` | `TypeOK`, `ConnectionsAccounted`, `HandlerHasConnection`, `EntryMeansItsClient`, `LoopEndsFirst`, `NetworkEndsLast` |
| `ConnectionProofs` | `TypeCorrect`, `ConnectedStaysUsable`, `OneReaderAtATime`, `NoOtherSocketLeaks` | `TypeOK`, `ConnectedIsUsable`, `OneReader`, `OnlyLostSocketsLeak` |
| `ClientProofs` | `ClientUsesConnection` | `Client` implements `Connection`: `Spec => C!Spec` |
| | `TypeCorrect`, `HandlersEndInTime`, `PromisesStayInPlace`, `OnlyTimeoutsDangle`, `EveryMessageIsAccountedFor` | `TypeOK`, `HandlersInTurn`, `PromiseInPlace`, `OnlyLateMessagesDangle`, `MessagesAccounted` |
| `WireProofs` | `TypeCorrect`, `EveryExitFreesWhatIsHeld`, `IntactFramesAreReturned`, `NoFrameIsMissed` | `TypeOK`, `NothingHeldBetweenFrames`, `ReturnsWhatWasSent`, `NoneMissedUntilLost` |

**Assumptions.** They are stated where the constants are declared, and TLC evaluates
them in the runs. Bounds are natural numbers; capacities, buffers and the length of
a word are not 0 (`queue_create` refuses a capacity of 0). `Thread` is finite in
`Queue`, `Connection` and `Client`, because threads are counted. `NULL` differs
from what it stands beside. `Routing` further assumes that keys are sequences of words
(`KeyAssumption`) and that the calls that set up the broker are well-typed
(`ArgsAssumption`); `Wire` that a socket takes at least the longest field of
fixed length, and that a message's fields have lengths that the socket can take
(a `send` of a field that is longer is not in the model).

**Queue.** The properties are not inductive by themselves. The invariant is `IInv ==
RingInv /\ AcksInv /\ CallsInv /\ RestInv`. `RingInv` adds to the types and to the
equation between `head`, `tail` and `size` that the `size` slots from `head`
on hold messages and not `NULL`: otherwise a dequeue could hand out a null pointer
and the list of deliveries would lose its type. `AcksInv` bounds the list and
keeps it finite. `CallsInv` says that a thread inside `queue_enqueue` carries a
message, that only such threads sleep on `not_full`, and that enough of them are
awake: the wakeup argument counts them, and each action changes the free slots
and the awake producers in step. `QueueRefinement` adds that tags are unique and
below the next one, that a queue that is not live holds nothing, and, until the
fault, that no message is twice in the ring, twice delivered, or carried twice.
The refinement mapping reads the ring from `head` on as a sequence and takes the
entries that are still `DELIVERED` as deliveries; a lemma for each move of the code says which
step of `QueueSpec` it is.

**Topic and Routing.** The naturals are well-founded, and from that
`LeastNatural` gets a least counterexample: this is how the equality of a pattern
and a topic without wildcards is reached word by word. `Base` is the invariant
for types, the lock (the holder of the mutex is the one handler inside
`broker_route_message`) and the ownership of messages. `QueueInv` says what lies in
the queues: copies for bindings that match, those of the message in
progress last and for bindings already visited, the copy that is being forwarded
at the tail. The order of any two queues follows from the fact that copies of one
message are adjacent at the end while it is being routed. `StreamInv` says the
same of what clients are sent. `Counted` equates `routed` with the number of
copies in queues, which decides what `publish_end` frees. `TableInv` describes
the one registration in progress, and `DueInv` says that a consumer who is owed a
copy was sent it, or has its entry still ahead of the loop that forwards.

**Lifecycle.** `Stages` orders the stages of main and the other threads, `OnePlace`
puts a descriptor in one slot, with the network thread, or in the backlog, and
`RoomCounted` says that `client_count` is at least the number of slots taken:
this is why the search for a slot cannot fail and lose a descriptor.

**Connection.** Without any rule for callers, sockets and receivers are counted
(`CountInv`): for every receiver that may start there is a socket, so that
numbers suffice. Until calls race, `InTurn` says what a thread relies on at each step
of `connection_connect` (`ConnectInv`) and `connection_disconnect`
(`DisconnectInv`), and what the connection is while neither is in progress (`Quiet`).

**Client.** Every step of `Client` is a step of `Connection` or leaves it alone
(`ClientUsesConnection`), so its invariant carries over. `Calling` shows that calls never race: `connect` and
`disconnect` see to it themselves, and the destructor is alone. A handler runs
inside the receiver's loop (`InLoop`); with `InTurn` there is at most one.
`PointerInv` is the core of the rest: outside the stretch between the use of the
promise and the clearing of the pointer, the context points to an empty promise or
to none. `FulfilInv` extends this to the value that was loaded before, unless a `get()`
gave up meanwhile; `OneGet` is what holds of gets that come one after the other; and
`PlaceInv` states the owner of every message without counting.

**Wire.** `Held` lists the memory that belongs to each point of
`receive_message_data`. For the contents, the invariant says that there is an offset
for each frame: a frame before the first damaged one lies in the stream, from
its offset on and field by field, or is being written there by its sender;
successive offsets differ by the size of a frame; and a reader that has accepted the
header of such a frame is inside it (`InFrame`). While it has abandoned none
(`InPlace`), the frames it has returned are the first ones, and it is at the start of the
next one or inside it (`InSequence`): so other bytes pass for a header only after that,
or once the first damaged frame has come. A step of the reader moves all offsets by the number of bytes it
took, however few.

**Only model-checked.** Liveness, since the prover has neither fairness nor `ENABLED`:
`PublishEnds`, `ShutdownEnds`, `ResetIsNoticed`, `DisconnectEndsWithPeer` and
`SendReturns`. Those and the four violations stand for the instances of section 3.

## 5. Not modelled

* Of the C++ client: the move constructor and assignment, the functions with empty
  bodies (`declareQueue`, `bindQueue`, `declareExchange`), and `ack` and `reject`,
  which throw before they change anything. What happens to a consumer that
  `consume()` replaces while it handles a message depends on the program.
* Of the connection: the callback setters, which the client calls before it connects.
* Of messages: the setters, and `strdup` in `message_create`, whose failure the code
  does not test.
* The length of names: a registration cuts a queue's name at 63 characters.
* The event loop's passes together with routing: nothing in the broker dequeues, so
  a pass never finds a delivery; `Queue` checks the passes with consumers.
* `log.c` (output), the examples (sequential programs over the client), `durable` and
  `queue_size`.

## 6. Plan

Left to prove: action properties of the queue (a tag is never given twice, a settled
delivery is not settled again until the fault). Left to model: names cut at 63
characters, and a consumer that is replaced while it handles a message.
