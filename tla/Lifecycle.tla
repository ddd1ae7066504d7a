----------------------------- MODULE Lifecycle -----------------------------
(***************************************************************************)
(* The life of a broker process: main of src/broker/main.c, which starts,  *)
(* stops and frees the broker, and the threads of src/core/broker.c, that  *)
(* is the network thread, the event loop and one handler per connected     *)
(* client. What a handler does with a message is module Routing; here it   *)
(* holds the broker's mutex for a while.                                   *)
(***************************************************************************)
EXTENDS Naturals, FiniteSets

CONSTANTS
    Client,             \* connections that clients make, one fd each
    NULL,
    MAX_CONNECTIONS

ASSUME LimitAssumption == MAX_CONNECTIONS \in Nat \ {0}
ASSUME NullAssumption == NULL \notin Client

VARIABLES
    main,           \* where main is
    running,        \* broker->running
    freed,          \* broker_free has released the broker
    evl,            \* the event loop thread
    net, pending,   \* the network thread, and its local client_fd
    fd,             \* client_connections[i].fd, NULL for -1
    flag,           \* client_connections[i].running
    handler,        \* the handler thread of a slot
    registered,     \* the client that entered a slot in the table of consumers
    client_count,
    mutex,          \* the slot whose handler holds broker->mutex, or NULL
    backlog,        \* clients that wait to be accepted
    arrived,        \* clients that have connected
    open_fds,       \* descriptors of connections the process has open
    stale           \* a thread has used the broker after it was freed

threads == <<main, evl, net, pending, handler>>
slots   == <<fd, flag, registered, client_count>>
clients == <<backlog, arrived>>
vars    == <<threads, slots, clients, running, freed, mutex, open_fds, stale>>

Slot == 0 .. (MAX_CONNECTIONS - 1)

\* When main returns, or exits, every thread is gone.
Alive == main # "exited"

MutexFree == mutex = NULL

Taken == {i \in Slot : fd[i] # NULL}

\* A thread accesses the broker.
Uses == stale' = (stale \/ freed)

-----------------------------------------------------------------------------
(***************************************************************************)
(* main, and the calls it makes.                                           *)
(***************************************************************************)
\* LOG_FATAL ends the process, so a failure goes no further. The exchanges,
\* queues and bindings that main declares next are in module Routing.
broker_create ==
    /\ main = "init"
    /\ main' \in {"created", "exited"}
    /\ UNCHANGED <<evl, net, pending, handler, slots, clients, running, freed, mutex,
                   open_fds, stale>>

\* broker_start creates two threads. Without the first, or without the second,
\* it clears running and fails, and main exits.
broker_start ==
    /\ main = "created"
    /\ \/ running' = TRUE /\ net' = "open" /\ main' = "start_loop"
       \/ running' = FALSE /\ main' = "exited" /\ UNCHANGED net
    /\ UNCHANGED <<evl, pending, handler, slots, clients, freed, mutex, open_fds, stale>>

broker_start_loop ==
    /\ main = "start_loop"
    /\ \/ evl' = "check" /\ main' = "serving" /\ UNCHANGED running
       \/ running' = FALSE /\ main' = "exited" /\ UNCHANGED evl
    /\ UNCHANGED <<net, pending, handler, slots, clients, freed, mutex, open_fds, stale>>

\* SIGINT or SIGTERM arrives, and main leaves its loop.
signal_handler ==
    /\ main = "serving"
    /\ main' = "stop"
    /\ UNCHANGED <<evl, net, pending, handler, slots, clients, running, freed, mutex,
                   open_fds, stale>>

broker_stop ==
    /\ main = "stop" /\ MutexFree
    /\ running' = FALSE
    /\ main' = "join"
    /\ UNCHANGED <<evl, net, pending, handler, slots, clients, freed, mutex, open_fds,
                   stale>>

Mutant_JoinsLoop_notAtAll == TRUE

Mutant_JoinsLoop_networkToo == evl = "done" /\ net = "done"

JoinsLoop == evl = "done"

broker_stop_join ==
    /\ main = "join"
    /\ JoinsLoop
    /\ main' = "free"
    /\ UNCHANGED <<evl, net, pending, handler, slots, clients, running, freed, mutex,
                   open_fds, stale>>

broker_free ==
    /\ main = "free" /\ MutexFree
    /\ freed' = TRUE
    /\ main' = "return"
    /\ UNCHANGED <<evl, net, pending, handler, slots, clients, running, mutex, open_fds,
                   stale>>

main_return ==
    /\ main = "return"
    /\ main' = "exited"
    /\ UNCHANGED <<evl, net, pending, handler, slots, clients, running, freed, mutex,
                   open_fds, stale>>

Main ==
    \/ broker_create
    \/ broker_start
    \/ broker_start_loop
    \/ signal_handler
    \/ broker_stop
    \/ broker_stop_join
    \/ broker_free
    \/ main_return

-----------------------------------------------------------------------------
(***************************************************************************)
(* The event loop.                                                         *)
(***************************************************************************)
\* One turn: look at running, and process the timeouts of every queue, each
\* under the mutex.
broker_event_loop ==
    /\ Alive /\ MutexFree
    /\ \/ evl = "check" /\ running /\ evl' = "timeouts"
       \/ evl = "check" /\ ~running /\ evl' = "done"
       \/ evl = "timeouts" /\ evl' = "check"
    /\ Uses
    /\ UNCHANGED <<main, net, pending, handler, slots, clients, running, freed, mutex,
                   open_fds>>

-----------------------------------------------------------------------------
(***************************************************************************)
(* The network thread.                                                     *)
(***************************************************************************)
\* socket, bind and listen; without them the thread ends and the broker goes
\* on without a network.
network_open ==
    /\ Alive
    /\ net = "open"
    /\ net' \in {"check", "done"}
    /\ UNCHANGED <<main, evl, pending, handler, slots, clients, running, freed, mutex,
                   open_fds, stale>>

\* A broker that was freed may show any value.
network_check ==
    /\ Alive
    /\ net = "check" /\ MutexFree
    /\ Uses
    /\ \/ running /\ net' = "accept"
       \/ ~running /\ net' = "closing"
       \/ freed /\ net' \in {"accept", "closing"}
    /\ UNCHANGED <<main, evl, pending, handler, slots, clients, running, freed, mutex,
                   open_fds>>

accept(c) ==
    /\ Alive
    /\ net = "accept" /\ c \in backlog
    /\ backlog' = backlog \ {c}
    /\ pending' = c
    /\ open_fds' = open_fds \union {c}
    /\ net' = "place"
    /\ UNCHANGED <<main, evl, handler, slots, arrived, running, freed, mutex, stale>>

\* accept may fail, and the loop goes on.
accept_fails ==
    /\ Alive
    /\ net = "accept"
    /\ net' = "check"
    /\ UNCHANGED <<main, evl, pending, handler, slots, clients, running, freed, mutex,
                   open_fds, stale>>

FirstFree(i) == i \notin Taken /\ \A j \in 0 .. (i - 1) : j \in Taken

Mutant_HandlerCreationFails_keepsSlot(i) ==
    /\ fd' = [fd EXCEPT ![i] = pending]
    /\ open_fds' = open_fds \ {pending}
    /\ UNCHANGED <<flag, registered, client_count, handler>>

Mutant_HandlerCreationFails_uncounts(i) ==
    /\ open_fds' = open_fds \ {pending}
    /\ flag' = [flag EXCEPT ![i] = FALSE]
    /\ client_count' = client_count - 1
    /\ UNCHANGED <<fd, registered, handler>>

\* pthread_create fails: the connection is closed and the slot is free again.
HandlerCreationFails(i) ==
    /\ open_fds' = open_fds \ {pending}
    /\ flag' = [flag EXCEPT ![i] = FALSE]
    /\ UNCHANGED <<fd, registered, client_count, handler>>

\* The connection goes to the first free slot. It is closed when client_count
\* has reached its limit; if client_count allows it and yet no slot is free, the
\* code does nothing with the connection.
network_place ==
    /\ Alive
    /\ net = "place"
    /\ \/ /\ client_count < MAX_CONNECTIONS
          /\ \E i \in Slot :
               /\ FirstFree(i)
               /\ \/ /\ fd' = [fd EXCEPT ![i] = pending]
                     /\ flag' = [flag EXCEPT ![i] = TRUE]
                     /\ handler' = [handler EXCEPT ![i] = "receive"]
                     /\ client_count' = client_count + 1
                     /\ UNCHANGED <<open_fds, registered>>
                  \/ HandlerCreationFails(i)
       \/ /\ ~(client_count < MAX_CONNECTIONS /\ Taken # Slot)
          /\ open_fds' = IF client_count < MAX_CONNECTIONS
                         THEN open_fds ELSE open_fds \ {pending}
          /\ UNCHANGED <<slots, handler>>
    /\ pending' = NULL
    /\ net' = "check"
    /\ UNCHANGED <<main, evl, clients, running, freed, mutex, stale>>

FirstTaken(i) == i \in Taken /\ \A j \in 0 .. (i - 1) : j \notin Taken

\* Closing the connections, one slot after the other: clear the flag, ...
network_stop_handler ==
    /\ Alive
    /\ net = "closing"
    /\ \E i \in Slot : FirstTaken(i) /\ flag' = [flag EXCEPT ![i] = FALSE]
    /\ net' = "join"
    /\ UNCHANGED <<main, evl, pending, handler, fd, registered, client_count, clients,
                   running, freed, mutex, open_fds, stale>>

Mutant_JoinsHandler_notAtAll(i) == TRUE

JoinsHandler(i) == handler[i] = "exited"

\* ... wait for the thread, and close the connection.
network_join_handler ==
    /\ Alive
    /\ net = "join"
    /\ \E i \in Slot :
         /\ FirstTaken(i)
         /\ JoinsHandler(i)
         /\ open_fds' = open_fds \ {fd[i]}
         /\ fd' = [fd EXCEPT ![i] = NULL]
    /\ net' = "closing"
    /\ UNCHANGED <<main, evl, pending, handler, flag, registered, client_count, clients,
                   running, freed, mutex, stale>>

Mutant_network_exit_early ==
    /\ Alive
    /\ net = "closing"
    /\ client_count' = 0
    /\ net' = "done"
    /\ UNCHANGED <<main, evl, pending, handler, fd, flag, registered, clients, running,
                   freed, mutex, open_fds, stale>>

network_exit ==
    /\ Alive
    /\ net = "closing" /\ Taken = {}
    /\ client_count' = 0
    /\ net' = "done"
    /\ UNCHANGED <<main, evl, pending, handler, fd, flag, registered, clients, running,
                   freed, mutex, open_fds, stale>>

Network ==
    \/ network_open
    \/ network_check
    \/ \E c \in Client : accept(c)
    \/ accept_fails
    \/ network_place
    \/ network_stop_handler
    \/ network_join_handler
    \/ network_exit

-----------------------------------------------------------------------------
(***************************************************************************)
(* A client's handler.                                                     *)
(***************************************************************************)
\* A frame may arrive even after the client has closed its end: it was sent before.
Receives(i) == handler[i] = "receive"

Again(i) == handler' = [handler EXCEPT ![i] = IF flag[i] THEN "receive" ELSE "exited"]

\* A message of a client that is no consumer is published under the mutex, ...
handler_publish(i) ==
    /\ Alive
    /\ Receives(i) /\ registered[i] # fd[i] /\ MutexFree
    /\ mutex' = i
    /\ handler' = [handler EXCEPT ![i] = "publish"]
    /\ Uses
    /\ UNCHANGED <<main, evl, net, pending, slots, clients, running, freed, open_fds>>

\* ... and the loop tests its flag again.
handler_next(i) ==
    /\ Alive
    /\ handler[i] = "publish"
    /\ mutex' = NULL
    /\ Again(i)
    /\ UNCHANGED <<main, evl, net, pending, slots, clients, running, freed, open_fds, stale>>

\* The client enters its slot in the table of consumers, without the mutex. When the
\* table is full (module Routing), and when a consumer sends anything else, nothing
\* is done.
handler_register(i) ==
    /\ Alive
    /\ Receives(i)
    /\ registered' \in {registered, [registered EXCEPT ![i] = fd[i]]}
    /\ Again(i)
    /\ UNCHANGED <<main, evl, net, pending, fd, flag, client_count, clients, running, freed,
                   mutex, open_fds, stale>>

Mutant_handler_exit_freesSlot(i) ==
    /\ Alive
    /\ handler[i] = "receive"
    /\ handler' = [handler EXCEPT ![i] = "exited"]
    /\ open_fds' = open_fds \ {fd[i]}
    /\ fd' = [fd EXCEPT ![i] = NULL]
    /\ client_count' = client_count - 1
    /\ UNCHANGED <<main, evl, net, pending, flag, registered, clients, running, freed, mutex,
                   stale>>

\* receive_message_data fails, as the client has closed or sent what is no
\* frame. The thread ends. The slot stays taken.
handler_exit(i) ==
    /\ Alive
    /\ handler[i] = "receive"
    /\ handler' = [handler EXCEPT ![i] = "exited"]
    /\ UNCHANGED <<main, evl, net, pending, slots, clients, running, freed, mutex, open_fds,
                   stale>>

-----------------------------------------------------------------------------
(***************************************************************************)
(* The clients. One that leaves changes nothing here by itself: its        *)
(* handler finds out in receive_message_data, when all there is was read.  *)
(***************************************************************************)
client_connect(c) ==
    /\ Alive /\ net \notin {"none", "open", "done"}
    /\ c \notin arrived
    /\ arrived' = arrived \union {c}
    /\ backlog' = backlog \union {c}
    /\ UNCHANGED <<threads, slots, running, freed, mutex, open_fds, stale>>

-----------------------------------------------------------------------------
Init ==
    /\ main = "init" /\ evl = "none" /\ net = "none" /\ pending = NULL
    /\ running = FALSE /\ freed = FALSE /\ mutex = NULL
    /\ fd = [i \in Slot |-> NULL]
    /\ flag = [i \in Slot |-> FALSE]
    /\ handler = [i \in Slot |-> "none"]
    /\ registered = [i \in Slot |-> NULL]
    /\ client_count = 0
    /\ backlog = {} /\ arrived = {}
    /\ open_fds = {}
    /\ stale = FALSE

Next ==
    \/ Main
    \/ broker_event_loop
    \/ Network
    \/ \E i \in Slot :
         \/ handler_publish(i)
         \/ handler_next(i)
         \/ handler_register(i)
         \/ handler_exit(i)
    \/ \E c \in Client : client_connect(c)

Spec == Init /\ [][Next]_vars

\* Threads run, and the event loop and main get the mutex in the end if it is free
\* again and again. No signal need arrive, no client need do anything, and a publish
\* need not end: it sends to consumers, and waits for those that do not read.
Fairness ==
    /\ WF_vars(broker_create) /\ WF_vars(broker_start) /\ WF_vars(broker_start_loop)
    /\ SF_vars(broker_stop) /\ WF_vars(broker_stop_join)
    /\ SF_vars(broker_free) /\ WF_vars(main_return)
    /\ SF_vars(broker_event_loop)

FairSpec == Spec /\ Fairness

-----------------------------------------------------------------------------
(***************************************************************************)
(* Properties.                                                             *)
(***************************************************************************)
\* Every slot, thread and counter keeps its type; client_count never passes
\* its limit.
TypeOK ==
    /\ main \in {"init", "created", "start_loop", "serving", "stop", "join", "free",
                 "return", "exited"}
    /\ evl \in {"none", "check", "timeouts", "done"}
    /\ net \in {"none", "open", "check", "accept", "place", "closing", "join", "done"}
    /\ pending \in Client \union {NULL}
    /\ running \in BOOLEAN /\ freed \in BOOLEAN /\ stale \in BOOLEAN
    /\ fd \in [Slot -> Client \union {NULL}]
    /\ flag \in [Slot -> BOOLEAN] /\ registered \in [Slot -> Client \union {NULL}]
    /\ handler \in [Slot -> {"none", "receive", "publish", "exited"}]
    /\ client_count \in 0 .. MAX_CONNECTIONS
    /\ mutex \in Slot \union {NULL}
    /\ backlog \subseteq Client /\ arrived \subseteq Client /\ open_fds \subseteq Client

\* No connection is lost: what the process has open is in a slot or in the
\* hands of the network thread. In particular, when client_count says there is
\* room, there is a free slot.
ConnectionsAccounted ==
    open_fds = {fd[i] : i \in Taken} \union ({pending} \ {NULL})

\* A handler that can still read from its connection, or publish from it, finds
\* it open and its own: it is closed only after the thread has been joined.
HandlerHasConnection ==
    \A i \in Slot : handler[i] \in {"receive", "publish"} =>
        /\ i \in Taken /\ fd[i] \in open_fds
        /\ \A j \in Slot : fd[j] = fd[i] => j = i

\* The event loop never uses a broker that was freed: broker_stop waits for it.
LoopEndsFirst == freed => evl = "done"

\* Threads that use the freed broker do so before the network thread has ended: it
\* waits for all handlers, and broker_stop, which waits for the event loop alone,
\* would be clean if it waited for the network thread as well.
NetworkEndsLast == [][stale' # stale => net # "done"]_vars

\* Once a signal has arrived, broker_stop and with it the whole shutdown come to their
\* end, unless a handler keeps the mutex for ever: its publish is stuck in send, with
\* a consumer that does not read. Handlers that wait in recv for clients which send
\* nothing, and the network thread that waits for those, do not hold the process up.
ShutdownEnds == []<>MutexFree => (main = "stop" ~> main = "exited")

\* An entry in the table of consumers names a slot and not a client, and is never
\* removed. It leads to the client that made it, whose descriptor is not used for
\* anybody else, or to an empty slot: a message is never forwarded to a connection
\* that came after the consumer's.
EntryMeansItsClient ==
    \A i \in Slot : registered[i] # NULL /\ fd[i] # NULL =>
        fd[i] = registered[i] /\ fd[i] \in open_fds

=============================================================================
