-------------------------- MODULE LifecycleProofs --------------------------
(***************************************************************************)
(* Proofs about the life of a broker process, for every number of slots    *)
(* and every set of clients.                                               *)
(***************************************************************************)
EXTENDS Lifecycle, FiniteSetTheorems, TLAPS

-----------------------------------------------------------------------------
(***************************************************************************)
(* The inductive invariant.                                                *)
(***************************************************************************)
\* How far the other threads can be at a stage of main.
Stages ==
    /\ main \in {"init", "created"} => net = "none"
    /\ main \in {"free", "return"} => evl = "done"
    /\ freed => main \in {"return", "exited"} /\ evl = "done"

\* What the network thread has in hand, and where it finds no slot taken.
Hands ==
    /\ net = "place" <=> pending # NULL
    /\ net \in {"none", "open", "done"} => Taken = {}

\* A connection has one slot, or is pending, or waits in the backlog; and one that a
\* client has yet to make is nowhere.
OnePlace ==
    /\ \A i, j \in Slot : fd[i] # NULL /\ fd[i] = fd[j] => i = j
    /\ \A i \in Slot : fd[i] # NULL => fd[i] # pending
    /\ backlog \intersect open_fds = {}
    /\ backlog \union open_fds \subseteq arrived

\* A handler that has not ended has a slot.
RunsInSlot == \A i \in Slot : handler[i] \in {"receive", "publish"} => fd[i] # NULL

\* An entry of the table is made by the connection in the slot, and until the
\* broker closes its connections no slot with an entry becomes free.
EntriesKept ==
    \A i \in Slot : registered[i] # NULL =>
        /\ fd[i] # NULL => fd[i] = registered[i]
        /\ net \notin {"closing", "join", "done"} => fd[i] # NULL

\* client_count is not reset before the slots are empty.
RoomCounted == Cardinality(Taken) <= client_count

IInv ==
    /\ TypeOK /\ Stages /\ Hands /\ OnePlace /\ RunsInSlot /\ EntriesKept
    /\ RoomCounted /\ ConnectionsAccounted

-----------------------------------------------------------------------------
(***************************************************************************)
(* Counting slots.                                                         *)
(***************************************************************************)
\* There are MAX_CONNECTIONS slots, and the taken ones are finitely many.
LEMMA SlotCount ==
    /\ IsFiniteSet(Slot) /\ Cardinality(Slot) = MAX_CONNECTIONS
    /\ IsFiniteSet(Taken) /\ Cardinality(Taken) \in Nat
  <1>1. IsFiniteSet(Slot) /\ Cardinality(Slot) = MAX_CONNECTIONS
    BY FS_Interval, LimitAssumption DEF Slot
  <1>2. QED
    BY <1>1, FS_Subset, FS_CardinalityType DEF Taken

\* When client_count says there is room, there is a free slot.
LEMMA RoomMeansSlot ==
    ASSUME TypeOK, RoomCounted, client_count < MAX_CONNECTIONS
    PROVE  Taken # Slot
  BY SlotCount, LimitAssumption DEF TypeOK, RoomCounted

\* Placing a connection takes one slot more, ...
LEMMA PlacingCounts ==
    ASSUME TypeOK, RoomCounted, NEW i \in Slot, i \notin Taken, pending # NULL,
           fd' = [fd EXCEPT ![i] = pending], client_count' = client_count + 1
    PROVE  RoomCounted'
  <1>1. Taken' = Taken \union {i}
    BY DEF Taken, TypeOK
  <1>2. Cardinality(Taken \union {i}) = Cardinality(Taken) + 1
    BY SlotCount, FS_AddElement
  <1>3. QED
    BY <1>1, <1>2, SlotCount DEF RoomCounted, TypeOK

\* ... and closing it one slot less.
LEMMA ClosingUncounts ==
    ASSUME TypeOK, RoomCounted, NEW i \in Slot, i \in Taken,
           fd' = [fd EXCEPT ![i] = NULL], client_count' = client_count
    PROVE  RoomCounted'
  <1>1. Taken' = Taken \ {i}
    BY DEF Taken, TypeOK
  <1>2. Cardinality(Taken \ {i}) = Cardinality(Taken) - 1
    BY SlotCount, FS_RemoveElement
  <1>3. QED
    BY <1>1, <1>2, SlotCount, LimitAssumption DEF RoomCounted, TypeOK

-----------------------------------------------------------------------------
(***************************************************************************)
(* Every step keeps the invariant.                                         *)
(***************************************************************************)
\* A broker process starts with nothing taken, pending or open.
LEMMA InitIInv == Init => IInv
  <1> SUFFICES ASSUME Init PROVE IInv
    OBVIOUS
  <1>1. TypeOK /\ Stages
    <2>1. 0 \in 0 .. MAX_CONNECTIONS
      BY LimitAssumption
    <2>2. TypeOK
      BY <2>1 DEF Init, TypeOK
    <2>3. Stages
      BY DEF Init, Stages
    <2>4. QED
      BY <2>2, <2>3
  <1>2. OnePlace /\ RunsInSlot /\ EntriesKept
    BY DEF Init, OnePlace, RunsInSlot, EntriesKept
  <1>3. Taken = {}
    BY DEF Init, Taken
  <1>4. Hands /\ RoomCounted /\ ConnectionsAccounted
    BY <1>3, FS_EmptySet DEF Init, Hands, RoomCounted, ConnectionsAccounted
  <1>5. QED
    BY <1>1, <1>2, <1>4 DEF IInv

\* main's own steps touch no connection: only the stages matter.
LEMMA MainIInv == IInv /\ Main => IInv'
  <1> SUFFICES ASSUME IInv, Main PROVE IInv'
    OBVIOUS
  <1>1. UNCHANGED <<pending, fd, flag, handler, registered, client_count, mutex, backlog,
                    arrived, open_fds, stale>>
    BY DEF Main, broker_create, broker_start, broker_start_loop, signal_handler, broker_stop,
           broker_stop_join, broker_free, main_return, slots, clients
  <1>2. running' \in BOOLEAN /\ freed' \in BOOLEAN
    BY DEF IInv, TypeOK, Main, broker_create, broker_start, broker_start_loop,
           signal_handler, broker_stop, broker_stop_join, broker_free, main_return
  <1>3. /\ TypeOK' /\ Stages'
        /\ net' = net \/ (net = "none" /\ net' = "open")
    <2> USE <1>1, <1>2 DEF IInv, TypeOK, Stages
    <2>1. CASE broker_create \/ signal_handler \/ main_return
      BY <2>1 DEF broker_create, signal_handler, main_return
    <2>2. CASE broker_start
      BY <2>2 DEF broker_start
    <2>3. CASE broker_start_loop
      BY <2>3 DEF broker_start_loop
    <2>4. CASE broker_stop \/ broker_stop_join
      BY <2>4 DEF broker_stop, broker_stop_join, JoinsLoop
    <2>5. CASE broker_free
      BY <2>5 DEF broker_free
    <2>6. QED
      BY <2>1, <2>2, <2>3, <2>4, <2>5 DEF Main
  <1>4. Taken' = Taken
    BY <1>1 DEF Taken
  <1>5. QED
    BY <1>1, <1>3, <1>4 DEF IInv, Hands, OnePlace, RunsInSlot, EntriesKept, RoomCounted,
           ConnectionsAccounted

\* Every step of the broker, of its threads and of the clients keeps it.
LEMMA NextIInv == IInv /\ [Next]_vars => IInv'
  <1> SUFFICES ASSUME IInv, [Next]_vars PROVE IInv'
    OBVIOUS
  <1> USE DEF IInv
  <1>1. CASE Main
    BY <1>1, MainIInv
  <1>2. CASE broker_event_loop
    <2>1. /\ UNCHANGED <<main, net, pending, handler, fd, flag, registered, client_count,
                         backlog, arrived, running, freed, mutex, open_fds>>
          /\ evl # "done"
      BY <1>2 DEF broker_event_loop, slots, clients
    <2>2. TypeOK' /\ Stages'
      BY <1>2, <2>1 DEF broker_event_loop, Uses, TypeOK, Stages
    <2>3. QED
      BY <2>1, <2>2 DEF Hands, OnePlace, RunsInSlot, EntriesKept, RoomCounted, Taken,
             ConnectionsAccounted
  <1>3. CASE network_open \/ network_check \/ accept_fails
    <2>1. /\ UNCHANGED <<main, evl, pending, handler, fd, flag, registered, client_count,
                         backlog, arrived, running, freed, mutex, open_fds>>
          /\ net \in {"open", "check", "accept"}
          /\ net' \in {"check", "accept", "closing", "done"}
          /\ net' = "done" => net = "open"
      BY <1>3 DEF network_open, network_check, accept_fails, slots, clients
    <2>2. TypeOK' /\ Stages'
      BY <1>3, <2>1 DEF network_open, network_check, accept_fails, Uses, TypeOK, Stages
    <2>3. QED
      BY <2>1, <2>2 DEF Hands, OnePlace, RunsInSlot, EntriesKept, RoomCounted, Taken,
             ConnectionsAccounted
  <1>4. ASSUME NEW c \in Client, accept(c)
        PROVE  IInv'
    <2>1. /\ UNCHANGED <<main, evl, handler, fd, flag, registered, client_count, arrived,
                         running, freed, mutex, stale>>
          /\ net = "accept" /\ net' = "place" /\ pending' = c /\ c \in backlog
          /\ backlog' = backlog \ {c} /\ open_fds' = open_fds \union {c}
          /\ pending = NULL /\ c # NULL
      BY <1>4, NullAssumption DEF accept, slots, Hands
    <2>2. TypeOK' /\ Stages' /\ Hands' /\ RunsInSlot' /\ EntriesKept' /\ RoomCounted'
      BY <2>1 DEF TypeOK, Stages, Hands, RunsInSlot, EntriesKept, RoomCounted, Taken
    <2>3. ConnectionsAccounted'
      BY <2>1 DEF ConnectionsAccounted, Taken
    <2>4. \A i \in Slot : fd[i] # NULL => fd[i] # c
      BY <2>1 DEF OnePlace, ConnectionsAccounted, Taken
    <2>5. OnePlace'
      BY <2>1, <2>4 DEF OnePlace
    <2>6. QED
      BY <2>2, <2>3, <2>5
  <1>5. CASE network_place
    <2>1. /\ UNCHANGED <<main, evl, backlog, arrived, running, freed, mutex, stale>>
          /\ net = "place" /\ net' = "check" /\ pending # NULL /\ pending' = NULL
          /\ pending \in Client /\ pending \in open_fds
      BY <1>5 DEF network_place, clients, Hands, TypeOK, ConnectionsAccounted
    <2>2. ASSUME UNCHANGED <<fd, registered, client_count, handler>>,
                 flag' \in [Slot -> BOOLEAN], open_fds' = open_fds \ {pending}
          PROVE  IInv'
      <3>1. TypeOK' /\ Stages' /\ Hands' /\ OnePlace' /\ RunsInSlot' /\ EntriesKept'
        BY <2>1, <2>2 DEF TypeOK, Stages, Hands, OnePlace, RunsInSlot, EntriesKept
      <3>2. RoomCounted' /\ ConnectionsAccounted'
        BY <2>1, <2>2 DEF RoomCounted, ConnectionsAccounted, Taken, OnePlace
      <3>3. QED
        BY <3>1, <3>2
    <2>3. ASSUME NEW i \in Slot, FirstFree(i), client_count < MAX_CONNECTIONS,
                 fd' = [fd EXCEPT ![i] = pending], flag' = [flag EXCEPT ![i] = TRUE],
                 handler' = [handler EXCEPT ![i] = "receive"],
                 client_count' = client_count + 1, UNCHANGED <<open_fds, registered>>
          PROVE  IInv'
      <3>1. i \notin Taken /\ fd[i] = NULL /\ registered[i] = NULL
        BY <2>1, <2>3 DEF FirstFree, Taken, EntriesKept
      <3>2. TypeOK' /\ Stages' /\ Hands'
        BY <2>1, <2>3, LimitAssumption DEF TypeOK, Stages, Hands
      <3>3. OnePlace' /\ RunsInSlot' /\ EntriesKept'
        BY <2>1, <2>3, <3>1 DEF TypeOK, OnePlace, RunsInSlot, EntriesKept
      <3>4. RoomCounted'
        BY <2>1, <2>3, <3>1, PlacingCounts
      <3>5. ConnectionsAccounted'
        BY <2>1, <2>3, <3>1 DEF ConnectionsAccounted, Taken, TypeOK
      <3>6. QED
        BY <3>2, <3>3, <3>4, <3>5
    <2>4. ASSUME NEW i \in Slot, HandlerCreationFails(i)
          PROVE  IInv'
      BY <2>2, <2>4 DEF HandlerCreationFails, TypeOK
    <2>5. ASSUME ~(client_count < MAX_CONNECTIONS /\ Taken # Slot),
                 open_fds' = IF client_count < MAX_CONNECTIONS
                             THEN open_fds ELSE open_fds \ {pending},
                 UNCHANGED <<slots, handler>>
          PROVE  IInv'
      <3>1. ~(client_count < MAX_CONNECTIONS)
        BY <2>5, RoomMeansSlot
      <3>2. QED
        BY <2>2, <2>5, <3>1 DEF slots, TypeOK
    <2>6. QED
      BY <1>5, <2>3, <2>4, <2>5 DEF network_place
  <1>6. CASE network_stop_handler
    <2>1. /\ UNCHANGED <<main, evl, pending, handler, fd, registered, client_count,
                         backlog, arrived, running, freed, mutex, open_fds, stale>>
          /\ net = "closing" /\ net' = "join" /\ flag' \in [Slot -> BOOLEAN]
      BY <1>6 DEF network_stop_handler, clients, TypeOK
    <2>2. QED
      BY <2>1 DEF TypeOK, Stages, Hands, OnePlace, RunsInSlot, EntriesKept, RoomCounted, Taken,
             ConnectionsAccounted
  <1>7. CASE network_join_handler
    <2>1. PICK i \in Slot : /\ FirstTaken(i) /\ JoinsHandler(i)
                            /\ open_fds' = open_fds \ {fd[i]}
                            /\ fd' = [fd EXCEPT ![i] = NULL]
      BY <1>7 DEF network_join_handler
    <2>2. /\ UNCHANGED <<main, evl, pending, handler, flag, registered, client_count,
                         backlog, arrived, running, freed, mutex, stale>>
          /\ net = "join" /\ net' = "closing"
          /\ i \in Taken /\ fd[i] # NULL /\ handler[i] = "exited" /\ pending = NULL
      BY <1>7, <2>1 DEF network_join_handler, clients, FirstTaken, JoinsHandler, Taken, Hands
    <2>3. TypeOK' /\ Stages' /\ Hands'
      BY <2>1, <2>2 DEF TypeOK, Stages, Hands
    <2>4. OnePlace' /\ RunsInSlot' /\ EntriesKept'
      BY <2>1, <2>2 DEF TypeOK, OnePlace, RunsInSlot, EntriesKept
    <2>5. RoomCounted'
      BY <2>1, <2>2, ClosingUncounts
    <2>6. ConnectionsAccounted'
      BY <2>1, <2>2 DEF ConnectionsAccounted, OnePlace, Taken, TypeOK
    <2>7. QED
      BY <2>3, <2>4, <2>5, <2>6
  <1>8. CASE network_exit
    <2>1. /\ UNCHANGED <<main, evl, pending, handler, fd, flag, registered, backlog, arrived,
                         running, freed, mutex, open_fds, stale>>
          /\ net = "closing" /\ net' = "done" /\ client_count' = 0 /\ Taken = {}
      BY <1>8 DEF network_exit, clients
    <2>2. TypeOK' /\ Stages' /\ OnePlace' /\ RunsInSlot' /\ EntriesKept'
      BY <2>1, LimitAssumption DEF TypeOK, Stages, OnePlace, RunsInSlot, EntriesKept
    <2>3. Taken' = {}
      BY <2>1 DEF Taken
    <2>4. Hands' /\ RoomCounted' /\ ConnectionsAccounted'
      BY <2>1, <2>3, FS_EmptySet DEF Hands, RoomCounted, ConnectionsAccounted
    <2>5. QED
      BY <2>2, <2>4
  <1>9. ASSUME NEW i \in Slot,
               \/ handler_publish(i) \/ handler_next(i)
               \/ handler_register(i) \/ handler_exit(i)
        PROVE  IInv'
    <2>1. /\ UNCHANGED <<main, evl, net, pending, fd, flag, client_count, backlog, arrived,
                         running, freed, open_fds>>
          /\ handler[i] \in {"receive", "publish"} /\ fd[i] # NULL
          /\ registered' \in {registered, [registered EXCEPT ![i] = fd[i]]}
      BY <1>9 DEF handler_publish, handler_next, handler_register, handler_exit, Receives,
             slots, clients, RunsInSlot
    <2>2. /\ handler' \in [Slot -> {"none", "receive", "publish", "exited"}]
          /\ mutex' \in Slot \union {NULL} /\ stale' \in BOOLEAN
          /\ \A j \in Slot : j # i => handler'[j] = handler[j]
      BY <1>9 DEF handler_publish, handler_next, handler_register, handler_exit, Again, Uses,
             TypeOK
    <2>3. TypeOK' /\ Stages' /\ Hands'
      BY <2>1, <2>2 DEF TypeOK, Stages, Hands, Taken
    <2>4. OnePlace' /\ RunsInSlot' /\ EntriesKept'
      BY <2>1, <2>2 DEF TypeOK, OnePlace, RunsInSlot, EntriesKept
    <2>5. RoomCounted' /\ ConnectionsAccounted'
      BY <2>1 DEF RoomCounted, ConnectionsAccounted, Taken
    <2>6. QED
      BY <2>3, <2>4, <2>5
  <1>10. ASSUME NEW c \in Client, client_connect(c)
         PROVE  IInv'
    <2>1. /\ UNCHANGED <<main, evl, net, pending, handler, fd, flag, registered, client_count,
                         running, freed, mutex, open_fds, stale>>
          /\ arrived' = arrived \union {c} /\ backlog' = backlog \union {c}
          /\ c \notin arrived
      BY <1>10 DEF client_connect, threads, slots
    <2>2. OnePlace'
      BY <2>1 DEF OnePlace, TypeOK
    <2>3. QED
      BY <2>1, <2>2 DEF TypeOK, Stages, Hands, RunsInSlot, EntriesKept, RoomCounted, Taken,
             ConnectionsAccounted
  <1>11. CASE UNCHANGED vars
    BY <1>11 DEF vars, threads, slots, clients, TypeOK, Stages, Hands, OnePlace, RunsInSlot,
           EntriesKept, RoomCounted, Taken, ConnectionsAccounted
  <1>12. QED
    BY <1>1, <1>2, <1>3, <1>4, <1>5, <1>6, <1>7, <1>8, <1>9, <1>10, <1>11 DEF Next, Network

\* The invariant holds in every state of every behaviour.
LEMMA AlwaysIInv == Spec => []IInv
  BY InitIInv, NextIInv, PTL DEF Spec

-----------------------------------------------------------------------------
(***************************************************************************)
(* What follows from it.                                                   *)
(***************************************************************************)
\* Every thread, slot and counter of the broker keeps its type, and client_count
\* never passes MAX_CONNECTIONS.
THEOREM TypeCorrect == Spec => []TypeOK
  <1>1. IInv => TypeOK
    BY DEF IInv
  <1>2. QED
    BY <1>1, AlwaysIInv, PTL

\* The process loses no connection it has accepted, whichever way broker_network_thread
\* handles it: a slot, a refusal, or a handler that cannot be created.
THEOREM NoConnectionIsLost == Spec => []ConnectionsAccounted
  <1>1. IInv => ConnectionsAccounted
    BY DEF IInv
  <1>2. QED
    BY <1>1, AlwaysIInv, PTL

\* A running handler has a connection that is open and nobody else's.
THEOREM HandlersHaveConnections == Spec => []HandlerHasConnection
  <1>1. IInv => HandlerHasConnection
    BY DEF IInv, RunsInSlot, OnePlace, ConnectionsAccounted, Taken, HandlerHasConnection
  <1>2. QED
    BY <1>1, AlwaysIInv, PTL

\* An entry of the table of consumers leads to the client that made it or nowhere.
THEOREM EntriesMeanTheirClients == Spec => []EntryMeansItsClient
  <1>1. IInv => EntryMeansItsClient
    BY DEF IInv, EntriesKept, ConnectionsAccounted, Taken, EntryMeansItsClient
  <1>2. QED
    BY <1>1, AlwaysIInv, PTL

\* broker_free comes after the event loop has ended.
THEOREM EventLoopEndsFirst == Spec => []LoopEndsFirst
  <1>1. IInv => LoopEndsFirst
    BY DEF IInv, Stages, LoopEndsFirst
  <1>2. QED
    BY <1>1, AlwaysIInv, PTL

\* The freed broker is used by the network thread and the handlers alone, and by none
\* of them once the network thread has ended.
THEOREM FreedBrokerUsers == Spec => NetworkEndsLast
  <1>1. ASSUME IInv, [Next]_vars, stale' # stale
        PROVE  net # "done"
    <2>1. CASE broker_event_loop
      BY <1>1, <2>1 DEF broker_event_loop, Uses, IInv, TypeOK, Stages
    <2>2. CASE network_check
      BY <2>2 DEF network_check
    <2>3. ASSUME NEW i \in Slot, handler_publish(i)
          PROVE  net # "done"
      BY <1>1, <2>3 DEF handler_publish, Receives, IInv, RunsInSlot, Hands, Taken
    <2>4. CASE UNCHANGED stale
      BY <1>1, <2>4
    <2>5. QED
      BY <1>1, <2>1, <2>2, <2>3, <2>4 DEF Next, Main, broker_create, broker_start,
             broker_start_loop, signal_handler, broker_stop, broker_stop_join, broker_free,
             main_return, Network, network_open, accept, accept_fails, network_place,
             network_stop_handler, network_join_handler, network_exit, handler_next,
             handler_register, handler_exit, client_connect, vars
  <1>2. IInv /\ [Next]_vars => [stale' # stale => net # "done"]_vars
    BY <1>1
  <1>3. QED
    BY <1>2, AlwaysIInv, PTL DEF Spec, NetworkEndsLast

=============================================================================
