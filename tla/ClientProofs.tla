---------------------------- MODULE ClientProofs ----------------------------
(***************************************************************************)
(* Proofs about the C++ client (src/wrapper/client.cpp) on its connection, *)
(* for every finite set of threads, every number of connects and every     *)
(* number of messages. What is proved of the connection alone (module      *)
(* ConnectionProofs) is used here as it stands.                            *)
(***************************************************************************)
EXTENDS Client, FiniteSetTheorems, TLAPS

CP == INSTANCE ConnectionProofs

-----------------------------------------------------------------------------
(***************************************************************************)
(* The inductive invariant.                                                *)
(***************************************************************************)
\* Calls do not race, and the destructor is alone from its start to its end.
Calling ==
    /\ ~raced
    /\ deleted => freed
    /\ \A t \in Thread :
         /\ call[t] = "delete" => freed
         /\ call[t] # "none" => pc[t] = "idle" \/ (call[t] = "destroy" /\ C!Disconnecting(t))
         /\ call[t] \in {"destroy", "delete"} =>
              \A u \in Thread : u # t => call[u] = "none" /\ pc[u] = "idle"

\* onMessageCallback runs inside the loop of the receiver thread.
InLoop == \A r \in C!Receiver : callback[r] # "none" => receiver[r] = "check"

Waiting(t) == call[t] \in {"get", "timeout"}

\* A promise is there exactly as long as its get.
StackInv == \A t \in Thread : promise[t] # NULL <=> Waiting(t)

Clearing == \E r \in C!Receiver : callback[r] = "clear"

\* The context points to a promise without a message, except while
\* onMessageCallback, which has just set it, is about to clear the pointer.
PointerInv == messagePromise # NULL /\ ~Clearing => promise[messagePromise] = Empty

\* Unless a get gave up at the wrong moment, the promise that onMessageCallback has
\* found is still there when it is used.
FulfilInv ==
    ~late => \A r \in C!Receiver :
        callback[r] = "fulfil" => messagePromise # NULL /\ promise[saw[r]] = Empty

\* Gets that do not disturb each other come one after the other.
OneGet ==
    ~disturbed =>
        /\ \A t, u \in Thread : Waiting(t) /\ Waiting(u) => t = u
        /\ \A t \in Thread : promise[t] = Empty =>
             ~Clearing /\ (call[t] = "get" => messagePromise = t)

\* The message that onMessageCallback has in hand.
Holds(r, m) == callback[r] \notin {"none", "clear"} /\ message[r] = m

\* A message is where its place says, with nobody else.
PlaceInv ==
    /\ \A m \in Message : m > arrived <=> place[m] = "none"
    /\ \A r \in C!Receiver : callback[r] # "none" => message[r] \in Message
    /\ \A m \in Message : place[m] = "callback" <=> \E r \in C!Receiver : Holds(r, m)
    /\ \A m \in Message : place[m] = "promise" <=> \E t \in Thread : promise[t] = m
    /\ \A t, u \in Thread : promise[t] \in Message /\ promise[t] = promise[u] => t = u

\* At most one receiver thread is in onMessageCallback.
OneHandler == \A r, q \in C!Receiver : callback[r] # "none" /\ callback[q] # "none" => r = q

Wrapped == TypeOK /\ StackInv /\ PointerInv /\ FulfilInv /\ OneGet /\ PlaceInv

IInv == CP!IInv /\ Calling /\ InLoop /\ Wrapped

-----------------------------------------------------------------------------
(***************************************************************************)
(* The connection inside the client is the connection of module            *)
(* Connection: it starts as one, and every step of the client is a step of *)
(* it or leaves it alone.                                                  *)
(***************************************************************************)
\* The assumptions of module Connection are met.
LEMMA ConnectionAssumptions ==
    CP!IsFiniteSet(Thread) /\ MaxSocket \in Nat /\ NULL \notin 1 .. MaxSocket
  <1>1. CP!IsFiniteSet(Thread)
    BY ThreadAssumption DEF CP!IsFiniteSet, IsFiniteSet
  <1>2. QED
    BY <1>1, BoundsAssumption, NullAssumption

\* A receiver is a receiver, and a socket a socket, under both names.
LEMMA SameNumbers == C!Receiver = CP!Receiver /\ C!Socket = CP!Socket
  BY DEF C!Receiver, C!Socket, CP!Receiver, CP!Socket

\* A call of the program into the connection is one of its calls.
LEMMA SameCalls ==
    ASSUME NEW t
    PROVE  /\ C!connection_connect(t) => CP!connection_connect(t)
           /\ C!connection_disconnect(t) => CP!connection_disconnect(t)
           /\ C!connection_send(t) => CP!connection_send(t)
           /\ C!connection_free(t) => CP!connection_free(t)
  <1>1. C!connection_connect(t) => CP!connection_connect(t)
    <2>1. C!Cardinality({u \in Thread : pc[u] = "socket"})
            = CP!Cardinality({u \in Thread : pc[u] = "socket"})
      BY DEF C!Cardinality, CP!Cardinality
    <2>2. QED
      BY <2>1 DEF C!connection_connect, CP!connection_connect, C!Calls, CP!Calls, C!Goto, CP!Goto,
                  C!Disconnecting, CP!Disconnecting, C!network, CP!network,
                  C!readers, CP!readers
  <1>2. C!connection_disconnect(t) => CP!connection_disconnect(t)
    BY DEF C!connection_disconnect, CP!connection_disconnect, C!Calls, CP!Calls, C!Goto, CP!Goto,
           C!Connecting, CP!Connecting, C!Disconnecting, CP!Disconnecting,
           C!network, CP!network, C!readers, CP!readers
  <1>3. C!connection_send(t) => CP!connection_send(t)
    BY DEF C!connection_send, CP!connection_send, C!Calls, CP!Calls, C!Goto, CP!Goto,
           C!conn, CP!conn, C!network, CP!network, C!readers, CP!readers
  <1>4. C!connection_free(t) => CP!connection_free(t)
    BY DEF C!connection_free, CP!connection_free, C!Calls, CP!Calls, C!conn, CP!conn,
           C!network, CP!network, C!readers, CP!readers, C!callers, CP!callers
  <1>5. QED
    BY <1>1, <1>2, <1>3, <1>4

\* A call that goes on goes on as in module Connection.
LEMMA SameCaller ==
    ASSUME NEW t, C!Caller(t)
    PROVE  CP!Caller(t)
  <1> USE DEF C!Goto, CP!Goto, C!Returns, CP!Returns, C!conn, CP!conn, C!network, CP!network,
              C!readers, CP!readers
  <1>1. C!connect_socket(t) => CP!connect_socket(t)
    BY DEF C!connect_socket, CP!connect_socket
  <1>2. C!connect_wait(t) => CP!connect_wait(t)
    BY DEF C!connect_wait, CP!connect_wait, C!Socket, CP!Socket
  <1>3. C!connect_spawn(t) => CP!connect_spawn(t)
    <2>1. C!NextReceiver = CP!NextReceiver
      BY DEF C!NextReceiver, CP!NextReceiver, C!Receiver, CP!Receiver, C!Cardinality, CP!Cardinality
    <2>2. QED
      BY <2>1 DEF C!connect_spawn, CP!connect_spawn
  <1>4. C!connect_fail(t) => CP!connect_fail(t)
    BY DEF C!connect_fail, CP!connect_fail
  <1>5. C!disconnect_handle(t) => CP!disconnect_handle(t)
    BY DEF C!disconnect_handle, CP!disconnect_handle
  <1>6. C!disconnect_join(t) => CP!disconnect_join(t)
    BY DEF C!disconnect_join, CP!disconnect_join, C!ReceiverJoined, CP!ReceiverJoined
  <1>7. C!disconnect_close(t) => CP!disconnect_close(t)
    BY DEF C!disconnect_close, CP!disconnect_close
  <1>8. C!disconnect_finish(t) => CP!disconnect_finish(t)
    BY DEF C!disconnect_finish, CP!disconnect_finish
  <1>9. C!send_return(t) => CP!send_return(t)
    BY DEF C!send_return, CP!send_return
  <1>10. QED
    BY <1>1, <1>2, <1>3, <1>4, <1>5, <1>6, <1>7, <1>8, <1>9 DEF C!Caller, CP!Caller

\* A receiver thread outside onMessageCallback takes the steps of module Connection.
LEMMA SameReceiver ==
    ASSUME NEW r
    PROVE  /\ C!receiver_check(r) => CP!receiver_check(r)
           /\ C!receiver_recv(r) => CP!receiver_recv(r)
           /\ C!receiver_lost(r) => CP!receiver_lost(r)
           /\ C!receiver_notify(r) => CP!receiver_notify(r)
  <1> USE DEF C!conn, CP!conn, C!network, CP!network, C!callers, CP!callers
  <1>1. C!receiver_check(r) => CP!receiver_check(r)
    BY DEF C!receiver_check, CP!receiver_check
  <1>2. C!receiver_recv(r) => CP!receiver_recv(r)
    BY DEF C!receiver_recv, CP!receiver_recv, C!Returned, CP!Returned
  <1>3. C!receiver_lost(r) => CP!receiver_lost(r)
    BY DEF C!receiver_lost, CP!receiver_lost, C!NotesLoss, CP!NotesLoss
  <1>4. C!receiver_notify(r) => CP!receiver_notify(r)
    BY DEF C!receiver_notify, CP!receiver_notify
  <1>5. QED
    BY <1>1, <1>2, <1>3, <1>4

\* The other end leaves as in module Connection.
LEMMA SamePeer ==
    ASSUME NEW s, C!peer_leaves(s)
    PROVE  CP!peer_leaves(s)
  BY DEF C!peer_leaves, CP!peer_leaves, C!conn, CP!conn, C!readers, CP!readers,
         C!callers, CP!callers

\* Hence every step of the one is a step of the other.
LEMMA SameSteps == [C!Next]_(C!vars) => [CP!Next]_(CP!vars)
  <1>1. C!vars = CP!vars /\ (UNCHANGED C!vars <=> UNCHANGED CP!vars)
    BY DEF C!vars, C!conn, C!network, C!readers, C!callers, CP!vars, CP!conn, CP!network,
           CP!readers, CP!callers
  <1>2. C!Next => CP!Next
    BY SameNumbers, SameCalls, SameCaller, SameReceiver, SamePeer DEF C!Next, CP!Next
  <1>3. QED
    BY <1>1, <1>2

\* A step of the client is a step of its connection, or leaves the connection alone.
LEMMA ConnectionSteps == [Next]_vars => [C!Next]_(C!vars)
  <1> USE DEF connection, C!vars, C!conn, C!network, C!readers, C!callers
  <1> SUFFICES ASSUME [Next]_vars
               PROVE  C!Next \/ UNCHANGED connection
    OBVIOUS
  <1>1. ASSUME NEW t \in Thread,
               connect(t) \/ disconnect(t) \/ publish(t) \/ goes_on(t)
                 \/ destroy_disconnect(t) \/ destroy_free(t)
        PROVE  C!Next
    BY <1>1 DEF connect, disconnect, publish, goes_on, destroy_disconnect, destroy_free, C!Next
  <1>2. ASSUME NEW t \in Thread,
               destroy(t) \/ destroy_delete(t) \/ consume(t) \/ get(t) \/ get_return(t)
                 \/ get_timeout(t) \/ get_throw(t)
        PROVE  UNCHANGED connection
    BY <1>2 DEF destroy, destroy_delete, consume, get, get_return, get_timeout, get_throw
  <1>3. ASSUME NEW r \in C!Receiver, receiver_goes_on(r) \/ on_message(r)
        PROVE  C!Next
    BY <1>3 DEF receiver_goes_on, on_message, C!Next
  <1>4. ASSUME NEW r \in C!Receiver, onMessageCallback(r)
        PROVE  UNCHANGED connection
    BY <1>4 DEF onMessageCallback, callback_promise, callback_fulfil, callback_clear,
                callback_consumer, callback_handle
  <1>5. ASSUME NEW s \in C!Socket, peer_leaves(s)
        PROVE  C!Next
    BY <1>5 DEF peer_leaves, C!Next
  <1>6. CASE UNCHANGED vars
    BY <1>6 DEF vars
  <1>7. QED
    BY <1>1, <1>2, <1>3, <1>4, <1>5, <1>6 DEF Next

\* The connection inside a client behaves as connection.c does for any caller: whatever
\* is proved of all callers holds inside client.cpp.
THEOREM ClientUsesConnection == Spec => C!Spec
  <1>1. Init => C!Init
    BY DEF Init
  <1>2. QED
    BY <1>1, ConnectionSteps, PTL DEF Spec, C!Spec

-----------------------------------------------------------------------------
(***************************************************************************)
(* Calls and the destructor.                                               *)
(***************************************************************************)
\* In the beginning nobody is in a call.
LEMMA InitConnection == Init => CP!IInv
  <1>1. C!Init => CP!Init
    BY DEF C!Init, CP!Init, C!Socket, CP!Socket, C!Receiver, CP!Receiver
  <1>2. CP!Init => CP!IInv
    BY ConnectionAssumptions, CP!InitIInv
  <1>3. QED
    BY <1>1, <1>2 DEF Init

\* The connection's own invariant is kept by every step of the client.
LEMMA NextConnection == CP!IInv /\ [Next]_vars => CP!IInv'
  <1>1. CP!IInv /\ [CP!Next]_(CP!vars) => CP!IInv'
    BY ConnectionAssumptions, CP!NextIInv
  <1>2. QED
    BY <1>1, ConnectionSteps, SameSteps

\* Calls overlap as the client allows, and the destructor with none.
LEMMA NextCalling ==
    ASSUME CP!IInv, TypeOK, Calling, [Next]_vars
    PROVE  Calling'
  <1>0. /\ pc \in [Thread -> CP!Label]
        /\ call \in [Thread -> {"none", "get", "timeout", "destroy", "delete"}]
    BY DEF CP!IInv, CP!TypeOK, CP!Label, TypeOK
  <1>1. CASE UNCHANGED vars
    BY <1>1 DEF vars, connection, wrapper, context, Calling, C!Disconnecting
  <1>2. ASSUME NEW t \in Thread, connect(t) \/ disconnect(t) \/ publish(t)
        PROVE  Calling'
    <2>1. Free(t) /\ UNCHANGED wrapper
      BY <1>2 DEF connect, disconnect, publish
    <2>2. ~raced'
      BY <1>2 DEF Calling, connect, disconnect, publish, Alone, C!connection_connect,
                  C!connection_disconnect, C!connection_send
    <2>3. /\ \A u \in Thread : u # t => pc'[u] = pc[u]
          /\ freed' = freed /\ deleted' = deleted /\ call' = call
      BY <1>0, <1>2, <2>1 DEF connect, disconnect, publish, C!connection_connect, C!Goto,
                  C!connection_disconnect, C!connection_send, wrapper, context
    <2>4. call[t] = "none" /\ \A u \in Thread : call[u] \notin {"destroy", "delete"}
      BY <2>1 DEF Free, Ending
    <2>5. QED
      BY <2>2, <2>3, <2>4 DEF Calling, C!Disconnecting
  <1>3. ASSUME NEW t \in Thread, goes_on(t)
        PROVE  Calling'
    <2>1. /\ \A u \in Thread : u # t => pc'[u] = pc[u]
          /\ freed' = freed /\ deleted' = deleted /\ call' = call /\ raced' = raced
          /\ pc[t] # "idle"
          /\ C!Disconnecting(t) => pc'[t] \in {"idle", "join", "close", "finish"}
      BY <1>0, <1>3 DEF goes_on, C!Caller, C!connect_socket, C!connect_wait, C!connect_spawn,
           C!connect_fail, C!disconnect_handle, C!disconnect_join, C!disconnect_close,
           C!disconnect_finish, C!send_return, C!Goto, C!Returns, wrapper, context,
           C!Disconnecting
    <2>2. QED
      BY <2>1 DEF Calling, C!Disconnecting
  <1>4. ASSUME NEW t \in Thread, destroy(t)
        PROVE  Calling'
    <2>1. /\ UNCHANGED <<raced, freed, deleted, pc>>
          /\ call' = [call EXCEPT ![t] = "destroy"]
          /\ \A u \in Thread : call[u] = "none" /\ pc[u] = "idle"
      BY <1>4 DEF destroy, Free, connection, context
    <2>2. QED
      BY <1>0, <2>1 DEF Calling
  <1>5. ASSUME NEW t \in Thread, destroy_disconnect(t)
        PROVE  Calling'
    <2>1. /\ UNCHANGED <<call, freed, deleted>>
          /\ call[t] = "destroy" /\ pc' = [pc EXCEPT ![t] = "stop"] /\ pc[t] = "idle"
          /\ raced' = (raced \/ \E u \in Thread : C!Connecting(u) \/ C!Disconnecting(u))
      BY <1>5 DEF destroy_disconnect, C!connection_disconnect, C!Calls, C!Goto, wrapper, context
    <2>2. \A u \in Thread : pc[u] = "idle"
      BY <2>1 DEF Calling
    <2>3. ~raced'
      BY <2>1, <2>2 DEF Calling, C!Connecting, C!Disconnecting
    <2>4. QED
      BY <1>0, <2>1, <2>3 DEF Calling, C!Disconnecting
  <1>6. ASSUME NEW t \in Thread, destroy_free(t)
        PROVE  Calling'
    <2>1. /\ UNCHANGED <<raced, deleted, pc>> /\ freed'
          /\ call[t] = "destroy" /\ call' = [call EXCEPT ![t] = "delete"]
          /\ \A u \in Thread : pc[u] = "idle"
      BY <1>6 DEF destroy_free, C!connection_free, C!Calls, C!callers, context
    <2>2. QED
      BY <1>0, <2>1 DEF Calling
  <1>7. ASSUME NEW t \in Thread, destroy_delete(t)
        PROVE  Calling'
    <2>1. /\ UNCHANGED <<raced, freed, pc>>
          /\ call[t] = "delete" /\ call' = [call EXCEPT ![t] = "none"]
      BY <1>7 DEF destroy_delete, connection
    <2>2. QED
      BY <1>0, <2>1 DEF Calling, C!Disconnecting
  <1>8. ASSUME NEW t \in Thread, get(t)
        PROVE  Calling'
    <2>1. /\ UNCHANGED <<raced, freed, pc, deleted>> /\ Free(t)
          /\ call' = [call EXCEPT ![t] = "get"]
      BY <1>8 DEF get, connection
    <2>2. /\ \A u \in Thread : call[u] \notin {"destroy", "delete"}
          /\ pc[t] = "idle"
      BY <2>1 DEF Free, Ending
    <2>3. QED
      BY <1>0, <2>1, <2>2 DEF Calling, C!Disconnecting
  <1>9. ASSUME NEW t \in Thread, get_return(t) \/ get_timeout(t) \/ get_throw(t)
        PROVE  Calling'
    <2>1. /\ UNCHANGED <<raced, freed, pc, deleted>>
          /\ call[t] \in {"get", "timeout"}
          /\ \E c \in {"none", "timeout"} : call' = [call EXCEPT ![t] = c]
      BY <1>9 DEF get_return, get_timeout, get_throw, connection, context
    <2>2. QED
      BY <1>0, <2>1 DEF Calling, C!Disconnecting
  <1>10. ASSUME NEW t \in Thread, consume(t)
         PROVE  Calling'
    BY <1>10 DEF consume, connection, Calling, C!Disconnecting
  <1>11. ASSUME NEW r \in C!Receiver, receiver_goes_on(r) \/ on_message(r)
         PROVE  Calling'
    <2>1. UNCHANGED <<raced, freed, pc, deleted, call>>
      BY <1>11 DEF receiver_goes_on, on_message, wrapper, context, C!receiver_check,
                   C!receiver_recv, C!receiver_lost, C!receiver_notify, C!callers
    <2>2. QED
      BY <2>1 DEF Calling, C!Disconnecting
  <1>12. ASSUME NEW r \in C!Receiver, onMessageCallback(r)
         PROVE  Calling'
    <2>1. UNCHANGED <<raced, freed, pc, deleted, call>>
      BY <1>12 DEF onMessageCallback, callback_promise, callback_fulfil, callback_clear,
                   callback_consumer, callback_handle, connection, context
    <2>2. QED
      BY <2>1 DEF Calling, C!Disconnecting
  <1>13. ASSUME NEW s \in C!Socket, peer_leaves(s)
         PROVE  Calling'
    BY <1>13 DEF peer_leaves, C!peer_leaves, C!callers, wrapper, context, Calling,
                 C!Disconnecting
  <1>14. QED
    BY <1>1, <1>2, <1>3, <1>4, <1>5, <1>6, <1>7, <1>8, <1>9, <1>10, <1>11, <1>12, <1>13
       DEF Next

-----------------------------------------------------------------------------
(***************************************************************************)
(* The receiver thread and its handlers.                                   *)
(***************************************************************************)
\* No step of a thread takes a receiver out of its loop.
LEMMA LoopKept ==
    ASSUME CP!IInv, NEW r \in C!Receiver, receiver[r] = "check", NEW t \in Thread, C!Caller(t)
    PROVE  receiver'[r] = "check"
  <1>1. receiver \in [C!Receiver -> {"none", "check", "recv", "notify", "done"}]
    BY SameNumbers DEF CP!IInv, CP!TypeOK
  <1>2. UNCHANGED receiver \/ receiver' = [receiver EXCEPT ![C!NextReceiver] = "check"]
    BY DEF C!Caller, C!connect_socket, C!connect_wait, C!connect_spawn, C!connect_fail,
         C!disconnect_handle, C!disconnect_join, C!disconnect_close, C!disconnect_finish,
         C!send_return, C!readers
  <1>3. QED
    BY <1>1, <1>2

\* onMessageCallback runs in a receiver that is in its loop.
LEMMA NextInLoop ==
    ASSUME CP!IInv, TypeOK, InLoop, [Next]_vars
    PROVE  InLoop'
  <1>0. /\ receiver \in [C!Receiver -> {"none", "check", "recv", "notify", "done"}]
        /\ callback \in [C!Receiver ->
                       {"none", "promise", "fulfil", "clear", "consumer", "handle"}]
    BY SameNumbers DEF CP!IInv, CP!TypeOK, TypeOK
  <1> SUFFICES ASSUME NEW r \in C!Receiver, callback'[r] # "none"
               PROVE  receiver'[r] = "check"
    BY DEF InLoop, C!Receiver
  <1>1. CASE UNCHANGED <<receiver, callback>>
    BY <1>1 DEF InLoop
  <1>2. ASSUME NEW t \in Thread, goes_on(t)
        PROVE  receiver'[r] = "check"
    <2>1. C!Caller(t) /\ UNCHANGED callback
      BY <1>2 DEF goes_on, wrapper, handler
    <2>2. receiver[r] = "check"
      BY <2>1 DEF InLoop
    <2>3. QED
      BY <2>1, <2>2, LoopKept
  <1>3. ASSUME NEW q \in C!Receiver, receiver_goes_on(q)
        PROVE  receiver'[r] = "check"
    <2>1. /\ C!receiver_check(q) \/ C!receiver_recv(q) \/ C!receiver_lost(q)
                     \/ C!receiver_notify(q)
          /\ UNCHANGED callback /\ callback[q] = "none"
      BY <1>3 DEF receiver_goes_on, wrapper, handler
    <2>2. receiver[r] = "check" /\ q # r
      BY <2>1 DEF InLoop
    <2>3. QED
      BY <1>0, <2>1, <2>2 DEF C!receiver_check, C!receiver_recv, C!receiver_lost,
           C!receiver_notify, C!NotesLoss
  <1>4. ASSUME NEW q \in C!Receiver, on_message(q)
        PROVE  receiver'[r] = "check"
    <2>1. /\ receiver' = [receiver EXCEPT ![q] = "check"]
          /\ callback' = [callback EXCEPT ![q] = "promise"]
      BY <1>4 DEF on_message, C!receiver_recv, Receives
    <2>2. QED
      BY <1>0, <2>1 DEF InLoop
  <1>5. ASSUME NEW q \in C!Receiver, onMessageCallback(q)
        PROVE  receiver'[r] = "check"
    <2>1. /\ UNCHANGED receiver /\ callback[q] # "none"
          /\ UNCHANGED callback \/ \E l : callback' = [callback EXCEPT ![q] = l]
      BY <1>5 DEF onMessageCallback, callback_promise, callback_fulfil, callback_clear,
                   callback_consumer, callback_handle, connection, Receives
    <2>2. QED
      BY <1>0, <2>1 DEF InLoop
  <1>6. ASSUME NEW t \in Thread,
               connect(t) \/ disconnect(t) \/ publish(t) \/ destroy_disconnect(t)
                 \/ destroy_free(t)
        PROVE  UNCHANGED <<receiver, callback>>
    BY <1>6 DEF connect, disconnect, publish, destroy_disconnect, destroy_free,
         C!connection_connect, C!connection_disconnect, C!connection_send, C!connection_free,
         C!readers, wrapper, handler
  <1>7. ASSUME NEW t \in Thread,
               destroy(t) \/ destroy_delete(t) \/ consume(t) \/ get(t) \/ get_return(t)
                 \/ get_timeout(t) \/ get_throw(t)
        PROVE  UNCHANGED <<receiver, callback>>
    BY <1>7 DEF destroy, destroy_delete, consume, get, get_return, get_timeout, get_throw,
                connection, handler
  <1>8. ASSUME NEW s \in C!Socket, peer_leaves(s)
        PROVE  UNCHANGED <<receiver, callback>>
    BY <1>8 DEF peer_leaves, C!peer_leaves, C!readers, wrapper, handler
  <1>9. UNCHANGED vars => UNCHANGED <<receiver, callback>>
    BY DEF vars, connection, wrapper, handler
  <1>10. QED
    BY <1>1, <1>2, <1>3, <1>4, <1>5, <1>6, <1>7, <1>8, <1>9 DEF Next

\* Handlers run one at a time, only while a disconnect has not joined their thread.
LEMMA Handlers ==
    ASSUME CP!IInv, Calling, InLoop
    PROVE  HandlersInTurn /\ OneHandler
  <1>1. InCallback \subseteq CP!Reading
    BY SameNumbers DEF InCallback, InLoop, CP!Reading
  <1>2. CP!InTurn
    BY DEF CP!IInv, Calling
  <1>3. CP!Reading \subseteq {receiver_thread}
    BY <1>2 DEF CP!InTurn, CP!Turns
  <1>4. freed => CP!Reading = {}
    BY <1>2 DEF CP!IInv, CP!FreedInv, CP!InTurn, CP!Quiet, CP!Busy, CP!Connecting,
                CP!Disconnecting
  <1>5. \A t \in Thread : pc[t] \in {"close", "finish"} => CP!Reading = {}
    BY <1>2 DEF CP!InTurn, CP!DisconnectInv
  <1>6. HandlersInTurn
    BY <1>1, <1>3, <1>4, <1>5 DEF HandlersInTurn, Calling
  <1>7. OneHandler
    BY <1>1, <1>3 DEF OneHandler, InCallback
  <1>8. QED
    BY <1>6, <1>7

-----------------------------------------------------------------------------
(***************************************************************************)
(* The context, the promises and the messages. A step that changes none of *)
(* them first, then one lemma for each step that does.                     *)
(***************************************************************************)
\* NULL and Empty are neither messages nor threads.
LEMMA NotAMessage ==
    NULL \notin Thread /\ NULL \notin Message /\ Empty \notin Message /\ NULL # Empty
  BY NullAssumption, BoundsAssumption DEF Message, Empty

\* Steps of the connection leave the wrapper as it is; so do the steps that only say
\* how far the destructor is, or that there is a consumer.
LEMMA WrapperKept ==
    ASSUME Wrapped,
           call' \in [Thread -> {"none", "get", "timeout", "destroy", "delete"}],
           \A t \in Thread : (call'[t] = call[t])
               \/ (~Waiting(t) /\ call'[t] \notin {"get", "timeout"}),
           consumer' \in BOOLEAN, deleted' \in BOOLEAN,
           UNCHANGED <<promise, messagePromise, handler, arrived, place, ends, history>>
    PROVE  Wrapped'
  <1>1. UNCHANGED <<promise, messagePromise, callback, message, saw, arrived, place,
                    double_free, dangling, late, disturbed>>
    BY DEF handler, ends, history
  <1>2. TypeOK'
    BY <1>1 DEF Wrapped, TypeOK, C!Receiver
  <1>3. \A t \in Thread : Waiting(t)' <=> Waiting(t)
    BY DEF Waiting
  <1>4. StackInv'
    BY <1>1, <1>3 DEF Wrapped, StackInv
  <1>5. Clearing' <=> Clearing
    BY <1>1 DEF Clearing, C!Receiver
  <1>6. PointerInv'
    BY <1>1, <1>5 DEF Wrapped, PointerInv
  <1>7. FulfilInv'
    BY <1>1 DEF Wrapped, FulfilInv, C!Receiver
  <1>8. \A t \in Thread : call'[t] = "get" => call[t] = "get"
    OBVIOUS
  <1>9. OneGet'
    BY <1>1, <1>3, <1>5, <1>8 DEF Wrapped, OneGet
  <1>10. PlaceInv'
    BY <1>1 DEF Wrapped, PlaceInv, Holds, Message, C!Receiver
  <1>11. QED
    BY <1>2, <1>4, <1>6, <1>7, <1>9, <1>10 DEF Wrapped

\* Another thread's get begins.
LEMMA GetKept ==
    ASSUME Wrapped, NEW t \in Thread, get(t)
    PROVE  Wrapped'
  <1>1. /\ Free(t)
        /\ call' = [call EXCEPT ![t] = "get"]
        /\ promise' = [promise EXCEPT ![t] = Empty]
        /\ messagePromise' = t
        /\ UNCHANGED <<consumer, deleted, callback, message, saw, arrived, place,
                       double_free, dangling, late>>
    BY DEF get, handler, ends
  <1>2. disturbed' = (\/ disturbed
                     \/ \E u \in Thread : call[u] # "none"
                     \/ \E r \in C!Receiver : callback[r] = "clear")
    BY DEF get
  <1>3. disturbed' \in BOOLEAN
    BY <1>2
  <1>4. TypeOK'
    BY <1>1, <1>3 DEF Wrapped, TypeOK, C!Receiver
  <1>5. call \in [Thread -> {"none", "get", "timeout", "destroy", "delete"}]
          /\ promise \in [Thread -> Message \union {NULL, Empty}]
    BY DEF Wrapped, TypeOK
  <1>6. StackInv'
    BY <1>1, <1>5, NotAMessage DEF Wrapped, StackInv, Waiting
  <1>7. PointerInv'
    BY <1>1, <1>5 DEF PointerInv
  <1>8. FulfilInv'
    <2> SUFFICES ASSUME ~late', NEW r \in C!Receiver, callback'[r] = "fulfil"
                 PROVE  messagePromise' # NULL /\ promise'[saw'[r]] = Empty
      BY DEF FulfilInv, C!Receiver
    <2>1. promise[saw[r]] = Empty /\ saw[r] \in Thread
      BY <1>1 DEF Wrapped, FulfilInv, TypeOK
    <2>2. QED
      BY <1>1, <1>5, <2>1, NotAMessage
  <1>9. OneGet'
    <2> SUFFICES ASSUME ~disturbed'
                 PROVE  OneGet'
      BY DEF OneGet
    <2>1. /\ \A u \in Thread : call[u] = "none"
          /\ \A r \in C!Receiver : callback[r] # "clear"
      BY <1>2
    <2>2. \A u \in Thread : u # t => ~Waiting(u)' /\ promise'[u] = NULL
      BY <1>1, <1>5, <2>1 DEF Wrapped, StackInv, Waiting
    <2>3. ~Clearing'
      BY <1>1, <2>1 DEF Clearing, C!Receiver
    <2>4. QED
      BY <1>1, <2>2, <2>3, NotAMessage DEF OneGet
  <1>10. PlaceInv'
    <2>1. \A m \in Message, u \in Thread : promise'[u] = m <=> promise[u] = m
      <3>1. promise[t] = NULL
        BY <1>1 DEF Free, Wrapped, StackInv, Waiting
      <3>2. QED
        BY <1>1, <1>5, <3>1, NotAMessage
    <2> HIDE DEF Message
    <2>2. (\A m \in Message : m > arrived <=> place[m] = "none")'
      BY <1>1 DEF Wrapped, PlaceInv, Message
    <2>3. (\A r \in C!Receiver : callback[r] # "none" => message[r] \in Message)'
      BY <1>1 DEF Wrapped, PlaceInv, Message, C!Receiver
    <2>4. (\A m \in Message : place[m] = "callback" <=> \E r \in C!Receiver : Holds(r, m))'
      BY <1>1 DEF Wrapped, PlaceInv, Message, C!Receiver, Holds
    <2>5. (\A m \in Message : place[m] = "promise" <=> \E u \in Thread : promise[u] = m)'
      BY <1>1, <2>1 DEF Wrapped, PlaceInv, Message
    <2>6. (\A v, u \in Thread : promise[v] \in Message /\ promise[v] = promise[u] => v = u)'
      BY <1>1, <2>1 DEF Wrapped, PlaceInv, Message
    <2>7. QED
      BY <2>2, <2>3, <2>4, <2>5, <2>6 DEF PlaceInv
  <1>11. QED
    BY <1>4, <1>6, <1>7, <1>8, <1>9, <1>10 DEF Wrapped

\* A get gives up, or has its message: its promise goes with its stack frame, and a
\* message that is in it goes to the program or is freed.
LEMMA PromiseGone ==
    ASSUME Wrapped, NEW t \in Thread, Waiting(t),
           call' = [call EXCEPT ![t] = "none"],
           promise' = [promise EXCEPT ![t] = NULL],
           NEW w \in {"program", "freed"},
           place' = [m \in Message |-> IF m = promise[t] THEN w ELSE place[m]],
           UNCHANGED <<consumer, deleted, handler, arrived, ends, disturbed>>
    PROVE  StackInv' /\ PlaceInv'
  <1>1. UNCHANGED <<callback, message, arrived, disturbed>>
    BY DEF handler
  <1>2. /\ call \in [Thread -> {"none", "get", "timeout", "destroy", "delete"}]
        /\ promise \in [Thread -> Message \union {NULL, Empty}]
        /\ place \in [Message -> {"none", "callback", "promise", "program", "freed"}]
    BY DEF Wrapped, TypeOK
  <1>3. StackInv'
    BY <1>2 DEF Wrapped, StackInv, Waiting
  <1>4. \A m \in Message : m = promise[t] => place[m] = "promise"
    BY DEF Wrapped, PlaceInv
  <1>5. \A m \in Message : place'[m] = IF m = promise[t] THEN w ELSE place[m]
    OBVIOUS
  <1>6. (\A m \in Message : m > arrived <=> place[m] = "none")'
    <2> SUFFICES ASSUME NEW m \in Message
                 PROVE  m > arrived <=> place'[m] = "none"
      BY <1>1 DEF Message
    <2>1. m > arrived <=> place[m] = "none"
      BY DEF Wrapped, PlaceInv
    <2>2. QED
      BY <1>4, <1>5, <2>1
  <1>7. (\A r \in C!Receiver : callback[r] # "none" => message[r] \in Message)'
    BY <1>1 DEF Wrapped, PlaceInv, Message, C!Receiver
  <1>8. (\A m \in Message : place[m] = "callback" <=> \E r \in C!Receiver : Holds(r, m))'
    <2>1. \A m \in Message : place'[m] = "callback" <=> place[m] = "callback"
      BY <1>4, <1>5
    <2>2. QED
      BY <1>1, <2>1 DEF Wrapped, PlaceInv, Message, C!Receiver, Holds
  <1>9. (\A v, u \in Thread : promise[v] \in Message /\ promise[v] = promise[u] => v = u)'
    BY <1>2, NotAMessage DEF Wrapped, PlaceInv, Message
  <1>10. (\A m \in Message : place[m] = "promise" <=> \E u \in Thread : promise[u] = m)'
    <2> SUFFICES ASSUME NEW m \in Message
                 PROVE  place'[m] = "promise" <=> \E u \in Thread : promise'[u] = m
      BY DEF Message
    <2>1. place[m] = "promise" <=> \E u \in Thread : promise[u] = m
      BY DEF Wrapped, PlaceInv
    <2>2. CASE m = promise[t]
      <3>1. \A u \in Thread : u # t => promise[u] # m
        BY <2>2 DEF Wrapped, PlaceInv
      <3>2. QED
        BY <1>2, <1>5, <2>2, <3>1, NotAMessage
    <2>3. CASE m # promise[t]
      BY <1>2, <1>5, <2>1, <2>3, NotAMessage
    <2>4. QED
      BY <2>2, <2>3
  <1>11. QED
    BY <1>3, <1>6, <1>7, <1>8, <1>9, <1>10 DEF PlaceInv

\* The message of a get goes to the program.
LEMMA GetReturnKept ==
    ASSUME Wrapped, NEW t \in Thread, get_return(t)
    PROVE  Wrapped'
  <1>1. /\ call[t] = "get" /\ promise[t] \in Message
        /\ place' = [place EXCEPT ![promise[t]] = "program"]
        /\ promise' = [promise EXCEPT ![t] = NULL]
        /\ call' = [call EXCEPT ![t] = "none"]
        /\ UNCHANGED <<messagePromise, consumer, deleted, callback, message, saw, arrived,
                       double_free, dangling, late, disturbed>>
    BY DEF get_return, context, handler, ends, history
  <1>2. /\ call \in [Thread -> {"none", "get", "timeout", "destroy", "delete"}]
        /\ promise \in [Thread -> Message \union {NULL, Empty}]
        /\ place \in [Message -> {"none", "callback", "promise", "program", "freed"}]
    BY DEF Wrapped, TypeOK
  <1>3. TypeOK'
    BY <1>1 DEF Wrapped, TypeOK, C!Receiver, Message
  <1>4. place' = [m \in Message |-> IF m = promise[t] THEN "program" ELSE place[m]]
    BY <1>1, <1>2
  <1>5. StackInv' /\ PlaceInv'
    <2>1. Waiting(t)
      BY <1>1 DEF Waiting
    <2>2. UNCHANGED <<consumer, deleted, handler, arrived, ends, disturbed>>
      BY <1>1 DEF handler, ends
    <2>3. QED
      BY <1>1, <1>4, <2>1, <2>2, PromiseGone
  <1>6. Clearing' <=> Clearing
    BY <1>1 DEF Clearing, C!Receiver
  <1>7. \A u \in Thread : promise[u] = Empty <=> promise'[u] = Empty
    BY <1>1, <1>2, NotAMessage
  <1>8. PointerInv'
    <2>1. messagePromise \in Thread \union {NULL}
      BY DEF Wrapped, TypeOK
    <2>2. QED
      BY <1>1, <1>6, <1>7, <2>1 DEF Wrapped, PointerInv
  <1>9. FulfilInv'
    <2>1. \A r \in C!Receiver : callback[r] = "fulfil" => saw[r] \in Thread
      BY DEF Wrapped, TypeOK
    <2>2. QED
      BY <1>1, <1>7, <2>1 DEF Wrapped, FulfilInv, C!Receiver
  <1>10. OneGet'
    <2>1. \A u \in Thread : Waiting(u)' => Waiting(u)
      BY <1>1, <1>2 DEF Waiting
    <2>2. \A u \in Thread : call'[u] = "get" => call[u] = "get"
      BY <1>1, <1>2
    <2>3. QED
      BY <1>1, <1>6, <1>7, <2>1, <2>2 DEF Wrapped, OneGet
  <1>11. QED
    BY <1>3, <1>5, <1>8, <1>9, <1>10 DEF Wrapped

\* wait_for returns without a message.
LEMMA GetTimeoutKept ==
    ASSUME Wrapped, NEW t \in Thread, get_timeout(t)
    PROVE  Wrapped'
  <1>1. /\ call[t] = "get"
        /\ call' = [call EXCEPT ![t] = "timeout"]
        /\ UNCHANGED <<promise, messagePromise, consumer, deleted, callback, message, saw,
                       arrived, place, double_free, dangling, late, disturbed>>
    BY DEF get_timeout, context, handler, ends, history
  <1>2. call \in [Thread -> {"none", "get", "timeout", "destroy", "delete"}]
    BY DEF Wrapped, TypeOK
  <1>3. TypeOK'
    BY <1>1 DEF Wrapped, TypeOK, C!Receiver
  <1>4. \A u \in Thread : Waiting(u)' <=> Waiting(u)
    BY <1>1, <1>2 DEF Waiting
  <1>5. Clearing' <=> Clearing
    BY <1>1 DEF Clearing, C!Receiver
  <1>6. StackInv' /\ PointerInv'
    BY <1>1, <1>4, <1>5 DEF Wrapped, StackInv, PointerInv
  <1>7. FulfilInv'
    BY <1>1 DEF Wrapped, FulfilInv, C!Receiver
  <1>8. OneGet'
    <2>1. \A u \in Thread : call'[u] = "get" => call[u] = "get"
      BY <1>1, <1>2
    <2>2. QED
      BY <1>1, <1>4, <1>5, <2>1 DEF Wrapped, OneGet
  <1>9. PlaceInv'
    BY <1>1 DEF Wrapped, PlaceInv, Holds, Message, C!Receiver
  <1>10. QED
    BY <1>3, <1>6, <1>7, <1>8, <1>9 DEF Wrapped

\* get throws, and a message that came in between is freed.
LEMMA GetThrowKept ==
    ASSUME Wrapped, NEW t \in Thread, get_throw(t)
    PROVE  Wrapped'
  <1>1. /\ call[t] = "timeout"
        /\ messagePromise' = NULL
        /\ promise' = [promise EXCEPT ![t] = NULL]
        /\ place' = [m \in Message |-> IF m = promise[t] THEN "freed" ELSE place[m]]
        /\ call' = [call EXCEPT ![t] = "none"]
        /\ UNCHANGED <<consumer, deleted, callback, message, saw, arrived, double_free,
                       dangling, disturbed>>
    BY DEF get_throw, Forgets, handler, ends
  <1>2. late' = (late \/ \E r \in C!Receiver : callback[r] = "fulfil")
    BY DEF get_throw
  <1>3. /\ call \in [Thread -> {"none", "get", "timeout", "destroy", "delete"}]
        /\ promise \in [Thread -> Message \union {NULL, Empty}]
        /\ place \in [Message -> {"none", "callback", "promise", "program", "freed"}]
    BY DEF Wrapped, TypeOK
  <1>4. late' \in BOOLEAN
    BY <1>2
  <1>5. TypeOK'
    BY <1>1, <1>4 DEF Wrapped, TypeOK, C!Receiver
  <1>6. StackInv' /\ PlaceInv'
    <2>1. Waiting(t)
      BY <1>1 DEF Waiting
    <2>2. UNCHANGED <<consumer, deleted, handler, arrived, ends, disturbed>>
      BY <1>1 DEF handler, ends
    <2>3. QED
      BY <1>1, <2>1, <2>2, PromiseGone
  <1>7. PointerInv'
    BY <1>1 DEF PointerInv
  <1>8. FulfilInv'
    BY <1>1, <1>2 DEF FulfilInv, C!Receiver
  <1>9. OneGet'
    <2>1. \A u \in Thread : Waiting(u)' => u # t /\ Waiting(u)
      BY <1>1, <1>3 DEF Waiting
    <2>2. Waiting(t)
      BY <1>1 DEF Waiting
    <2>3. ~disturbed' => \A u \in Thread : ~Waiting(u)'
      BY <1>1, <2>1, <2>2 DEF Wrapped, OneGet
    <2>4. \A u \in Thread : promise'[u] = Empty => Waiting(u)'
      BY <1>6, NotAMessage DEF StackInv
    <2>5. QED
      BY <2>3, <2>4 DEF OneGet
  <1>10. QED
    BY <1>5, <1>6, <1>7, <1>8, <1>9 DEF Wrapped

\* A message arrives at a receiver that is not in onMessageCallback; no other is.
LEMMA ArrivalKept ==
    ASSUME Wrapped, InLoop, NEW r \in C!Receiver, on_message(r)
    PROVE  Wrapped'
  <1>1. /\ receiver[r] = "recv"
        /\ arrived < MaxMessage
        /\ arrived' = arrived + 1
        /\ place' = [place EXCEPT ![arrived + 1] = "callback"]
        /\ message' = [message EXCEPT ![r] = arrived + 1]
        /\ callback' = [callback EXCEPT ![r] = "promise"]
        /\ UNCHANGED <<call, promise, messagePromise, consumer, deleted, saw, double_free,
                       dangling, late, disturbed>>
    BY DEF on_message, C!receiver_recv, Receives, context, ends, history
  <1>2. callback[r] = "none"
    BY <1>1 DEF InLoop
  <1>3. /\ promise \in [Thread -> Message \union {NULL, Empty}]
        /\ callback \in [C!Receiver ->
                       {"none", "promise", "fulfil", "clear", "consumer", "handle"}]
        /\ message \in [C!Receiver -> Message \union {NULL}]
        /\ place \in [Message -> {"none", "callback", "promise", "program", "freed"}]
    BY DEF Wrapped, TypeOK
  <1>4. PICK n \in Nat : n = arrived /\ n + 1 \in Message /\ n + 1 \in 0 .. MaxMessage
    <2>1. arrived \in 0 .. MaxMessage
      BY DEF Wrapped, TypeOK
    <2>2. QED
      BY <1>1, <2>1, BoundsAssumption DEF Message
  <1>5. TypeOK'
    <2>1. /\ callback' \in [C!Receiver ->
                       {"none", "promise", "fulfil", "clear", "consumer", "handle"}]
          /\ message' \in [C!Receiver -> Message \union {NULL}]
          /\ place' \in [Message -> {"none", "callback", "promise", "program", "freed"}]
          /\ arrived' \in 0 .. MaxMessage
      BY <1>1, <1>3, <1>4
    <2>2. \A q \in C!Receiver : callback'[q] = "fulfil" => saw'[q] # NULL
      BY <1>1, <1>3 DEF Wrapped, TypeOK
    <2>3. QED
      BY <1>1, <2>1, <2>2 DEF Wrapped, TypeOK, C!Receiver, Message
  <1>6. Clearing' <=> Clearing
    BY <1>1, <1>2, <1>3 DEF Clearing, C!Receiver
  <1>7. StackInv' /\ PointerInv' /\ OneGet'
    BY <1>1, <1>6 DEF Wrapped, StackInv, PointerInv, OneGet, Waiting
  <1>8. FulfilInv'
    BY <1>1, <1>3 DEF Wrapped, FulfilInv, C!Receiver
  <1>9. place[n + 1] = "none"
    <2>1. n + 1 > arrived
      BY <1>4
    <2>2. QED
      BY <1>4, <2>1 DEF Wrapped, PlaceInv
  <1>10. \A m \in Message : place'[m] = IF m = n + 1 THEN "callback" ELSE place[m]
    BY <1>1, <1>3, <1>4
  <1>11. (\A m \in Message : m > arrived <=> place[m] = "none")'
    <2> SUFFICES ASSUME NEW m \in Message
                 PROVE  m > n + 1 <=> place'[m] = "none"
      BY <1>1, <1>4 DEF Message
    <2>1. m > n <=> place[m] = "none"
      BY <1>4 DEF Wrapped, PlaceInv
    <2>2. m \in Nat
      BY DEF Message
    <2>3. CASE m = n + 1
      BY <1>10, <2>2, <2>3
    <2>4. CASE m # n + 1
      BY <1>10, <2>1, <2>2, <2>4
    <2>5. QED
      BY <2>3, <2>4
  <1>12. (\A q \in C!Receiver : callback[q] # "none" => message[q] \in Message)'
    BY <1>1, <1>3, <1>4 DEF Wrapped, PlaceInv, Message, C!Receiver
  <1>13. (\A m \in Message : place[m] = "callback" <=> \E q \in C!Receiver : Holds(q, m))'
    <2> SUFFICES ASSUME NEW m \in Message
                 PROVE  place'[m] = "callback" <=> \E q \in C!Receiver : Holds(q, m)'
      BY DEF Message, C!Receiver
    <2>1. place[m] = "callback" <=> \E q \in C!Receiver : Holds(q, m)
      BY DEF Wrapped, PlaceInv
    <2>2. Holds(r, m)' <=> m = n + 1
      BY <1>1, <1>3, <1>4 DEF Holds
    <2>3. ~Holds(r, m)
      BY <1>2 DEF Holds
    <2>4. \A q \in C!Receiver : q # r => (Holds(q, m)' <=> Holds(q, m))
      BY <1>1, <1>3 DEF Holds
    <2> HIDE DEF Holds
    <2>5. CASE m = n + 1
      BY <1>10, <2>2, <2>5
    <2>6. CASE m # n + 1
      BY <1>10, <2>1, <2>2, <2>3, <2>4, <2>6
    <2>7. QED
      BY <2>5, <2>6
  <1>14. (\A m \in Message : place[m] = "promise" <=> \E u \in Thread : promise[u] = m)'
    <2>1. \A m \in Message : place'[m] = "promise" <=> place[m] = "promise"
      BY <1>9, <1>10
    <2>2. QED
      BY <1>1, <2>1 DEF Wrapped, PlaceInv, Message
  <1>15. (\A v, u \in Thread : promise[v] \in Message /\ promise[v] = promise[u] => v = u)'
    BY <1>1 DEF Wrapped, PlaceInv, Message
  <1>16. PlaceInv'
    BY <1>11, <1>12, <1>13, <1>14, <1>15 DEF PlaceInv
  <1>17. QED
    BY <1>5, <1>7, <1>8, <1>16 DEF Wrapped

\* onMessageCallback looks at the pointer.
LEMMA CallbackPromiseKept ==
    ASSUME Wrapped, OneHandler, NEW r \in C!Receiver, callback_promise(r)
    PROVE  Wrapped'
  <1> DEFINE l == IF ForGet THEN "fulfil" ELSE "consumer"
  <1>1. /\ callback[r] = "promise"
        /\ saw' = [saw EXCEPT ![r] = messagePromise]
        /\ callback' = [callback EXCEPT ![r] = l]
        /\ UNCHANGED <<call, promise, messagePromise, consumer, deleted, message, arrived,
                       place, double_free, dangling, late, disturbed>>
    BY DEF callback_promise, Receives, context, ends, history
  <1>2. /\ l \in {"fulfil", "consumer"}
        /\ l = "fulfil" => messagePromise # NULL
    BY DEF ForGet
  <1> HIDE DEF l
  <1>3. /\ messagePromise \in Thread \union {NULL}
        /\ callback \in [C!Receiver ->
                       {"none", "promise", "fulfil", "clear", "consumer", "handle"}]
        /\ saw \in [C!Receiver -> Thread \union {NULL}]
    BY DEF Wrapped, TypeOK
  <1>4. TypeOK'
    <2>1. /\ callback' \in [C!Receiver ->
                       {"none", "promise", "fulfil", "clear", "consumer", "handle"}]
          /\ saw' \in [C!Receiver -> Thread \union {NULL}]
      BY <1>1, <1>2, <1>3
    <2>2. \A q \in C!Receiver : callback'[q] = "fulfil" => saw'[q] # NULL
      BY <1>1, <1>2, <1>3 DEF Wrapped, TypeOK
    <2>3. QED
      BY <1>1, <2>1, <2>2 DEF Wrapped, TypeOK, C!Receiver
  <1>5. Clearing' <=> Clearing
    BY <1>1, <1>2, <1>3 DEF Clearing, C!Receiver
  <1>6. StackInv' /\ PointerInv' /\ OneGet'
    BY <1>1, <1>5 DEF Wrapped, StackInv, PointerInv, OneGet, Waiting
  <1>7. FulfilInv'
    <2> SUFFICES ASSUME ~late', NEW q \in C!Receiver, callback'[q] = "fulfil"
                 PROVE  messagePromise' # NULL /\ promise'[saw'[q]] = Empty
      BY DEF FulfilInv, C!Receiver
    <2>1. CASE q = r
      <3>1. l = "fulfil" /\ saw'[q] = messagePromise
        BY <1>1, <1>3, <2>1
      <3>2. ~Clearing
        BY <1>1 DEF Clearing, OneHandler
      <3>3. QED
        BY <1>1, <1>2, <3>1, <3>2 DEF Wrapped, PointerInv
    <2>2. CASE q # r
      BY <1>1, <1>3, <2>2 DEF Wrapped, FulfilInv
    <2>3. QED
      BY <2>1, <2>2
  <1>8. PlaceInv'
    <2>1. \A q \in C!Receiver : callback'[q] # "none" <=> callback[q] # "none"
      BY <1>1, <1>2, <1>3
    <2>2. \A m \in Message, q \in C!Receiver : Holds(q, m)' <=> Holds(q, m)
      BY <1>1, <1>2, <1>3 DEF Holds
    <2> HIDE DEF Holds
    <2>3. QED
      BY <1>1, <2>1, <2>2 DEF Wrapped, PlaceInv, Message, C!Receiver
  <1>9. QED
    BY <1>4, <1>6, <1>7, <1>8 DEF Wrapped

\* onMessageCallback sets the promise: the message goes from it into the promise.
LEMMA FulfilKept ==
    ASSUME Wrapped, OneHandler, NEW r \in C!Receiver, callback[r] = "fulfil",
           NEW p \in Thread, promise[p] = Empty,
           promise' = [promise EXCEPT ![p] = message[r]],
           place' = [place EXCEPT ![message[r]] = "promise"],
           callback' = [callback EXCEPT ![r] = "clear"],
           UNCHANGED <<call, context, message, saw, arrived, ends, history>>
    PROVE  Wrapped'
  <1>1. UNCHANGED <<call, messagePromise, consumer, deleted, message, saw, arrived,
                    double_free, dangling, late, disturbed>>
    BY DEF context, ends, history
  <1>2. /\ promise \in [Thread -> Message \union {NULL, Empty}]
        /\ callback \in [C!Receiver ->
                       {"none", "promise", "fulfil", "clear", "consumer", "handle"}]
        /\ place \in [Message -> {"none", "callback", "promise", "program", "freed"}]
    BY DEF Wrapped, TypeOK
  <1>3. PICK m \in Message : m = message[r]
    BY DEF Wrapped, PlaceInv
  <1>4. Holds(r, m) /\ \A q \in C!Receiver : q # r => callback[q] = "none"
    BY <1>3 DEF Holds, OneHandler
  <1>5. place[m] = "callback"
    BY <1>3, <1>4 DEF Wrapped, PlaceInv
  <1>6. TypeOK'
    <2>1. /\ callback' \in [C!Receiver ->
                       {"none", "promise", "fulfil", "clear", "consumer", "handle"}]
          /\ promise' \in [Thread -> Message \union {NULL, Empty}]
          /\ place' \in [Message -> {"none", "callback", "promise", "program", "freed"}]
      BY <1>2, <1>3
    <2>2. \A q \in C!Receiver : callback'[q] = "fulfil" => saw'[q] # NULL
      BY <1>1, <1>2 DEF Wrapped, TypeOK
    <2>3. QED
      BY <1>1, <2>1, <2>2 DEF Wrapped, TypeOK, C!Receiver, Message
  <1>7. \A q \in C!Receiver : callback'[q] = IF q = r THEN "clear" ELSE "none"
    BY <1>2, <1>4
  <1>8. Clearing'
    BY <1>7 DEF Clearing, C!Receiver
  <1>9. PointerInv'
    BY <1>8 DEF PointerInv
  <1>10. FulfilInv'
    BY <1>7 DEF FulfilInv, C!Receiver
  <1>11. StackInv'
    BY <1>1, <1>2, <1>3, NotAMessage DEF Wrapped, StackInv, Waiting
  <1>12. OneGet'
    <2> SUFFICES ASSUME ~disturbed'
                 PROVE  OneGet'
      BY DEF OneGet
    <2>1. \A t, u \in Thread : Waiting(t) /\ Waiting(u) => t = u
      BY <1>1 DEF Wrapped, OneGet
    <2>2. Waiting(p)
      BY NotAMessage DEF Wrapped, StackInv
    <2>3. \A t \in Thread : t # p => promise[t] = NULL
      BY <2>1, <2>2 DEF Wrapped, StackInv
    <2>4. \A t \in Thread : promise'[t] # Empty
      BY <1>2, <1>3, <2>3, NotAMessage
    <2>5. QED
      BY <1>1, <2>1, <2>4 DEF OneGet, Waiting
  <1>13. \A x \in Message : place'[x] = IF x = m THEN "promise" ELSE place[x]
    BY <1>2, <1>3
  <1>14. \A u \in Thread : promise[u] # m
    BY <1>5 DEF Wrapped, PlaceInv
  <1>15. \A u \in Thread : promise'[u] = IF u = p THEN m ELSE promise[u]
    BY <1>2, <1>3
  <1>16. (\A x \in Message : x > arrived <=> place[x] = "none")'
    <2> SUFFICES ASSUME NEW x \in Message
                 PROVE  x > arrived <=> place'[x] = "none"
      BY <1>1 DEF Message
    <2>1. x > arrived <=> place[x] = "none"
      BY DEF Wrapped, PlaceInv
    <2>2. QED
      BY <1>5, <1>13, <2>1
  <1>17. (\A q \in C!Receiver : callback[q] # "none" => message[q] \in Message)'
    BY <1>1, <1>3, <1>7 DEF Message, C!Receiver
  <1>18. (\A x \in Message : place[x] = "callback" <=> \E q \in C!Receiver : Holds(q, x))'
    <2>1. \A x \in Message, q \in C!Receiver : ~Holds(q, x)'
      BY <1>7 DEF Holds
    <2>2. \A x \in Message : place[x] = "callback" => x = m
      BY <1>3, <1>4 DEF Wrapped, PlaceInv, Holds
    <2>3. QED
      BY <1>13, <2>1, <2>2 DEF Message, C!Receiver
  <1>19. (\A x \in Message : place[x] = "promise" <=> \E u \in Thread : promise[u] = x)'
    <2> SUFFICES ASSUME NEW x \in Message
                 PROVE  place'[x] = "promise" <=> \E u \in Thread : promise'[u] = x
      BY DEF Message
    <2>1. place[x] = "promise" <=> \E u \in Thread : promise[u] = x
      BY DEF Wrapped, PlaceInv
    <2>2. promise[p] # x
      BY NotAMessage
    <2>3. QED
      BY <1>13, <1>15, <2>1, <2>2
  <1>20. (\A v, u \in Thread : promise[v] \in Message /\ promise[v] = promise[u] => v = u)'
    BY <1>14, <1>15 DEF Wrapped, PlaceInv, Message
  <1>21. PlaceInv'
    BY <1>16, <1>17, <1>18, <1>19, <1>20 DEF PlaceInv
  <1>22. QED
    BY <1>6, <1>9, <1>10, <1>11, <1>12, <1>21 DEF Wrapped

\* onMessageCallback uses the pointer, or the value loaded before.
LEMMA CallbackFulfilKept ==
    ASSUME Wrapped, OneHandler, NEW r \in C!Receiver, callback_fulfil(r)
    PROVE  Wrapped'
  <1>1. PICK p \in {saw[r], messagePromise} :
         \/ /\ Fulfillable(p)
            /\ promise' = [promise EXCEPT ![p] = message[r]]
            /\ place' = [place EXCEPT ![message[r]] = "promise"]
            /\ Receives(r, "clear")
            /\ UNCHANGED dangling
         \/ /\ ~Fulfillable(p)
            /\ dangling' = TRUE
            /\ UNCHANGED <<promise, place, callback>>
    BY DEF callback_fulfil
  <1>2. /\ callback[r] = "fulfil"
        /\ UNCHANGED <<call, context, message, saw, arrived, double_free, history>>
    BY DEF callback_fulfil
  <1>3. p \in Thread \union {NULL}
    BY DEF Wrapped, TypeOK
  <1>4. CASE Fulfillable(p)
    <2>1. /\ p \in Thread /\ promise[p] = Empty
          /\ promise' = [promise EXCEPT ![p] = message[r]]
          /\ place' = [place EXCEPT ![message[r]] = "promise"]
          /\ callback' = [callback EXCEPT ![r] = "clear"]
          /\ UNCHANGED ends
      BY <1>1, <1>2, <1>3, <1>4 DEF Fulfillable, Receives, ends
    <2>2. QED
      BY <1>2, <2>1, FulfilKept
  <1>5. CASE ~Fulfillable(p)
    <2>1. /\ dangling' = TRUE
          /\ UNCHANGED <<call, promise, messagePromise, consumer, deleted, callback, message,
                         saw, arrived, place, double_free, late, disturbed>>
      BY <1>1, <1>2, <1>5 DEF context, history
    <2>2. TypeOK'
      BY <2>1 DEF Wrapped, TypeOK, C!Receiver
    <2>3. Clearing' <=> Clearing
      BY <2>1 DEF Clearing, C!Receiver
    <2>4. StackInv' /\ PointerInv' /\ OneGet'
      BY <2>1, <2>3 DEF Wrapped, StackInv, PointerInv, OneGet, Waiting
    <2>5. FulfilInv'
      BY <2>1 DEF Wrapped, FulfilInv, C!Receiver
    <2>6. PlaceInv'
      BY <2>1 DEF Wrapped, PlaceInv, Holds, Message, C!Receiver
    <2>7. QED
      BY <2>2, <2>4, <2>5, <2>6 DEF Wrapped
  <1>6. QED
    BY <1>4, <1>5

\* onMessageCallback clears the pointer, whatever get it belongs to by now.
LEMMA CallbackClearKept ==
    ASSUME Wrapped, OneHandler, NEW r \in C!Receiver, callback_clear(r)
    PROVE  Wrapped'
  <1>1. /\ callback[r] = "clear"
        /\ messagePromise' = NULL
        /\ callback' = [callback EXCEPT ![r] = "none"]
        /\ UNCHANGED <<call, promise, consumer, deleted, message, saw, arrived, place,
                       double_free, dangling, late, disturbed>>
    BY DEF callback_clear, Clears, Receives, ends, history
  <1>2. callback \in [C!Receiver ->
                       {"none", "promise", "fulfil", "clear", "consumer", "handle"}]
    BY DEF Wrapped, TypeOK
  <1>3. \A q \in C!Receiver : callback'[q] = "none"
    BY <1>1, <1>2 DEF OneHandler
  <1>4. TypeOK'
    <2>1. callback' \in [C!Receiver ->
                       {"none", "promise", "fulfil", "clear", "consumer", "handle"}]
      BY <1>1, <1>2
    <2>2. QED
      BY <1>1, <1>3, <2>1 DEF Wrapped, TypeOK, C!Receiver
  <1>5. StackInv' /\ PointerInv'
    BY <1>1 DEF Wrapped, StackInv, PointerInv, Waiting
  <1>6. FulfilInv'
    BY <1>3 DEF FulfilInv, C!Receiver
  <1>7. OneGet'
    <2>1. Clearing
      BY <1>1 DEF Clearing
    <2>2. ~disturbed' => \A t \in Thread : promise'[t] # Empty
      BY <1>1, <2>1 DEF Wrapped, OneGet
    <2>3. QED
      BY <1>1, <2>2 DEF Wrapped, OneGet, Waiting
  <1>8. PlaceInv'
    <2>1. \A m \in Message, q \in C!Receiver : Holds(q, m)' <=> Holds(q, m)
      BY <1>1, <1>2 DEF Holds
    <2>2. \A q \in C!Receiver : callback'[q] # "none" => callback[q] # "none"
      BY <1>3
    <2> HIDE DEF Holds
    <2>3. QED
      BY <1>1, <2>1, <2>2 DEF Wrapped, PlaceInv, Message, C!Receiver
  <1>9. QED
    BY <1>4, <1>5, <1>6, <1>7, <1>8 DEF Wrapped

\* onMessageCallback is done with its message: it was freed, or the consumer keeps it.
LEMMA HandedOn ==
    ASSUME Wrapped, OneHandler, NEW r \in C!Receiver, callback[r] \in {"consumer", "handle"},
           NEW w \in {"program", "freed"},
           place' = [place EXCEPT ![message[r]] = w],
           callback' = [callback EXCEPT ![r] = "none"],
           UNCHANGED <<call, promise, context, message, saw, arrived, ends, history>>
    PROVE  Wrapped'
  <1>1. UNCHANGED <<call, promise, messagePromise, consumer, deleted, message, saw, arrived,
                    double_free, dangling, late, disturbed>>
    BY DEF context, ends, history
  <1>2. /\ callback \in [C!Receiver ->
                       {"none", "promise", "fulfil", "clear", "consumer", "handle"}]
        /\ place \in [Message -> {"none", "callback", "promise", "program", "freed"}]
    BY DEF Wrapped, TypeOK
  <1>3. PICK m \in Message : m = message[r]
    BY DEF Wrapped, PlaceInv
  <1>4. Holds(r, m) /\ \A q \in C!Receiver : q # r => callback[q] = "none"
    BY <1>3 DEF Holds, OneHandler
  <1>5. place[m] = "callback"
    BY <1>3, <1>4 DEF Wrapped, PlaceInv
  <1>6. \A q \in C!Receiver : callback'[q] = "none"
    BY <1>2, <1>4
  <1>7. TypeOK'
    <2>1. /\ callback' \in [C!Receiver ->
                       {"none", "promise", "fulfil", "clear", "consumer", "handle"}]
          /\ place' \in [Message -> {"none", "callback", "promise", "program", "freed"}]
      BY <1>2
    <2>2. QED
      BY <1>1, <1>6, <2>1 DEF Wrapped, TypeOK, C!Receiver, Message
  <1>8. ~Clearing /\ ~Clearing'
    BY <1>4, <1>6 DEF Clearing, C!Receiver
  <1>9. StackInv' /\ PointerInv' /\ OneGet'
    BY <1>1, <1>8 DEF Wrapped, StackInv, PointerInv, OneGet, Waiting
  <1>10. FulfilInv'
    BY <1>6 DEF FulfilInv, C!Receiver
  <1>11. \A x \in Message : place'[x] = IF x = m THEN w ELSE place[x]
    BY <1>2, <1>3
  <1>12. (\A x \in Message : x > arrived <=> place[x] = "none")'
    <2> SUFFICES ASSUME NEW x \in Message
                 PROVE  x > arrived <=> place'[x] = "none"
      BY <1>1 DEF Message
    <2>1. x > arrived <=> place[x] = "none"
      BY DEF Wrapped, PlaceInv
    <2>2. QED
      BY <1>5, <1>11, <2>1
  <1>13. (\A q \in C!Receiver : callback[q] # "none" => message[q] \in Message)'
    BY <1>6 DEF C!Receiver
  <1>14. (\A x \in Message : place[x] = "callback" <=> \E q \in C!Receiver : Holds(q, x))'
    <2>1. \A x \in Message, q \in C!Receiver : ~Holds(q, x)'
      BY <1>6 DEF Holds
    <2>2. \A x \in Message : place[x] = "callback" => x = m
      BY <1>3, <1>4 DEF Wrapped, PlaceInv, Holds
    <2>3. QED
      BY <1>11, <2>1, <2>2 DEF Message, C!Receiver
  <1>15. (\A x \in Message : place[x] = "promise" <=> \E u \in Thread : promise[u] = x)'
    <2>1. \A x \in Message : place'[x] = "promise" <=> place[x] = "promise"
      BY <1>5, <1>11
    <2>2. QED
      BY <1>1, <2>1 DEF Wrapped, PlaceInv, Message
  <1>16. (\A v, u \in Thread : promise[v] \in Message /\ promise[v] = promise[u] => v = u)'
    BY <1>1 DEF Wrapped, PlaceInv, Message
  <1>17. PlaceInv'
    BY <1>12, <1>13, <1>14, <1>15, <1>16 DEF PlaceInv
  <1>18. QED
    BY <1>7, <1>9, <1>10, <1>17 DEF Wrapped

\* onMessageCallback turns to the consumer, ends its work on a message, or throws.
LEMMA CallbackConsumerKept ==
    ASSUME Wrapped, OneHandler, NEW r \in C!Receiver, callback_consumer(r) \/ callback_handle(r)
    PROVE  Wrapped'
  <1>1. /\ callback[r] \in {"consumer", "handle"}
        /\ UNCHANGED <<call, promise, context, message, saw, arrived, history, dangling>>
    BY DEF callback_consumer, callback_handle, ends
  <1>2. CASE \E w \in {"program", "freed"} :
               place' = [place EXCEPT ![message[r]] = w]
                 /\ callback' = [callback EXCEPT ![r] = "none"] /\ UNCHANGED ends
    BY <1>1, <1>2, HandedOn DEF history
  <1>3. CASE /\ callback' = [callback EXCEPT ![r] = "handle"] \/ UNCHANGED callback
             /\ UNCHANGED place /\ double_free' \in BOOLEAN
    <2>1. UNCHANGED <<call, promise, messagePromise, consumer, deleted, message, saw, arrived,
                      place, dangling, late, disturbed>>
      BY <1>1, <1>3 DEF context, history
    <2>2. callback \in [C!Receiver ->
                       {"none", "promise", "fulfil", "clear", "consumer", "handle"}]
      BY DEF Wrapped, TypeOK
    <2>3. \A q \in C!Receiver : callback'[q] = callback[q]
             \/ (q = r /\ callback'[q] = "handle")
      BY <1>3, <2>2
    <2>4. TypeOK'
      <3>1. callback' \in [C!Receiver ->
                       {"none", "promise", "fulfil", "clear", "consumer", "handle"}]
        BY <1>3, <2>2
      <3>2. \A q \in C!Receiver : callback'[q] = "fulfil" => saw'[q] # NULL
        BY <2>1, <2>3 DEF Wrapped, TypeOK
      <3>3. QED
        BY <1>3, <2>1, <3>1, <3>2 DEF Wrapped, TypeOK, C!Receiver
    <2>5. Clearing' <=> Clearing
      BY <1>1, <2>3 DEF Clearing, C!Receiver
    <2>6. StackInv' /\ PointerInv' /\ OneGet'
      BY <2>1, <2>5 DEF Wrapped, StackInv, PointerInv, OneGet, Waiting
    <2>7. FulfilInv'
      BY <2>1, <2>3 DEF Wrapped, FulfilInv, C!Receiver
    <2>8. PlaceInv'
      <3>1. \A q \in C!Receiver : callback'[q] # "none" <=> callback[q] # "none"
        BY <1>1, <2>3
      <3>2. \A m \in Message, q \in C!Receiver : Holds(q, m)' <=> Holds(q, m)
        BY <1>1, <2>1, <2>3 DEF Holds
      <3> HIDE DEF Holds
      <3>3. QED
        BY <2>1, <3>1, <3>2 DEF Wrapped, PlaceInv, Message, C!Receiver
    <2>9. QED
      BY <2>4, <2>6, <2>7, <2>8 DEF Wrapped
  <1>4. CASE callback_consumer(r)
    <2>1. double_free \in BOOLEAN
      BY DEF Wrapped, TypeOK
    <2>2. CASE consumer
      BY <1>3, <1>4, <2>1, <2>2 DEF callback_consumer, Receives, ends
    <2>3. CASE ~consumer
      BY <1>2, <1>4, <2>3 DEF callback_consumer, Receives
    <2>4. QED
      BY <2>2, <2>3
  <1>5. CASE callback_handle(r)
    <2>1. CASE place' \in Unwrapped(message[r]) /\ Receives(r, "none") /\ UNCHANGED double_free
      BY <1>1, <1>2, <2>1 DEF Unwrapped, Receives, ends
    <2>2. CASE double_free' = TRUE /\ UNCHANGED <<place, callback>>
      BY <1>3, <2>2
    <2>3. QED
      BY <1>5, <2>1, <2>2 DEF callback_handle
  <1>6. QED
    BY <1>4, <1>5

-----------------------------------------------------------------------------
(***************************************************************************)
(* The theorems.                                                           *)
(***************************************************************************)
\* The context, the promises and the messages are kept in order by every step.
LEMMA NextWrapped ==
    ASSUME IInv, [Next]_vars
    PROVE  Wrapped'
  <1>0. Wrapped /\ InLoop /\ OneHandler
    BY Handlers DEF IInv
  <1>1. /\ call \in [Thread -> {"none", "get", "timeout", "destroy", "delete"}]
        /\ consumer \in BOOLEAN /\ deleted \in BOOLEAN
    BY <1>0 DEF Wrapped, TypeOK
  <1>2. CASE UNCHANGED wrapper
    <2>1. UNCHANGED <<call, promise, messagePromise, consumer, deleted, handler, arrived,
                      place, ends, history>>
      BY <1>2 DEF wrapper, context
    <2>2. QED
      BY <1>0, <1>1, <2>1, WrapperKept
  <1>3. ASSUME NEW t \in Thread,
               connect(t) \/ disconnect(t) \/ publish(t) \/ goes_on(t)
                 \/ destroy_disconnect(t)
        PROVE  UNCHANGED wrapper
    BY <1>3 DEF connect, disconnect, publish, goes_on, destroy_disconnect
  <1>4. ASSUME NEW t \in Thread,
               destroy(t) \/ destroy_free(t) \/ destroy_delete(t) \/ consume(t)
        PROVE  Wrapped'
    <2>1. /\ UNCHANGED <<promise, messagePromise, handler, arrived, place, ends, history>>
          /\ consumer' \in {consumer, TRUE} /\ deleted' \in {deleted, TRUE}
          /\ \/ /\ call[t] \in {"none", "destroy", "delete"}
                /\ \E c \in {"none", "destroy", "delete"} : call' = [call EXCEPT ![t] = c]
             \/ UNCHANGED call
      BY <1>4 DEF destroy, destroy_free, destroy_delete, consume, context, Free
    <2>2. /\ call' \in [Thread -> {"none", "get", "timeout", "destroy", "delete"}]
          /\ \A u \in Thread : (call'[u] = call[u])
               \/ (~Waiting(u) /\ call'[u] \notin {"get", "timeout"})
      BY <1>1, <2>1 DEF Waiting
    <2>3. consumer' \in BOOLEAN /\ deleted' \in BOOLEAN
      BY <1>1, <2>1
    <2>4. QED
      BY <1>0, <2>1, <2>2, <2>3, WrapperKept
  <1>5. ASSUME NEW t \in Thread, get(t) \/ get_return(t) \/ get_timeout(t) \/ get_throw(t)
        PROVE  Wrapped'
    BY <1>0, <1>5, GetKept, GetReturnKept, GetTimeoutKept, GetThrowKept
  <1>6. ASSUME NEW r \in C!Receiver, on_message(r)
        PROVE  Wrapped'
    BY <1>0, <1>6, ArrivalKept
  <1>7. ASSUME NEW r \in C!Receiver, onMessageCallback(r)
        PROVE  Wrapped'
    BY <1>0, <1>7, CallbackPromiseKept, CallbackFulfilKept, CallbackClearKept,
       CallbackConsumerKept DEF onMessageCallback
  <1>8. ASSUME NEW r \in C!Receiver, receiver_goes_on(r)
        PROVE  UNCHANGED wrapper
    BY <1>8 DEF receiver_goes_on
  <1>9. ASSUME NEW s \in C!Socket, peer_leaves(s)
        PROVE  UNCHANGED wrapper
    BY <1>9 DEF peer_leaves
  <1>10. UNCHANGED vars => UNCHANGED wrapper
    BY DEF vars
  <1>11. QED
    BY <1>2, <1>3, <1>4, <1>5, <1>6, <1>7, <1>8, <1>9, <1>10 DEF Next

\* The invariant holds in the beginning ...
LEMMA InitIInv == Init => IInv
  <1> SUFFICES ASSUME Init PROVE IInv
    OBVIOUS
  <1>1. CP!IInv
    BY InitConnection
  <1>2. Calling
    BY DEF Init, C!Init, Calling
  <1>3. InLoop
    BY DEF Init, InLoop
  <1>4. TypeOK
    <2>1. 0 \in 0 .. MaxMessage
      BY BoundsAssumption
    <2>2. {deleted, double_free, dangling, late, disturbed} \subseteq BOOLEAN
      BY DEF Init
    <2>3. QED
      BY <2>1, <2>2 DEF Init, TypeOK
  <1>5. StackInv /\ PointerInv /\ FulfilInv
    BY DEF Init, StackInv, PointerInv, FulfilInv, Waiting
  <1>6. OneGet
    BY NotAMessage DEF Init, OneGet, Waiting
  <1>7. PlaceInv
    <2>1. \A m \in Message : m > 0
      BY DEF Message
    <2>2. QED
      BY <2>1, NotAMessage DEF Init, PlaceInv, Holds
  <1>8. QED
    BY <1>1, <1>2, <1>3, <1>4, <1>5, <1>6, <1>7 DEF IInv, Wrapped

\* ... and after every step, hence always.
LEMMA AlwaysIInv == Spec => []IInv
  <1>1. IInv /\ [Next]_vars => IInv'
    <2> SUFFICES ASSUME IInv, [Next]_vars PROVE IInv'
      OBVIOUS
    <2>1. CP!IInv /\ Calling /\ InLoop /\ TypeOK
      BY DEF IInv, Wrapped
    <2>2. CP!IInv'
      BY <2>1, NextConnection
    <2>3. Calling'
      BY <2>1, NextCalling
    <2>4. InLoop'
      BY <2>1, NextInLoop
    <2>5. Wrapped'
      BY NextWrapped
    <2>6. QED
      BY <2>2, <2>3, <2>4, <2>5 DEF IInv
  <1>2. QED
    BY <1>1, InitIInv, PTL DEF Spec

\* Every field of the context, every promise and every local of onMessageCallback keeps
\* its type, and onMessageCallback loads no null pointer that it then uses.
THEOREM TypeCorrect == Spec => []TypeOK
  <1>1. IInv => TypeOK
    BY DEF IInv, Wrapped
  <1>2. QED
    BY <1>1, AlwaysIInv, PTL

\* Messages are handled one at a time, in the receiver thread that a disconnect joins:
\* no handler runs once disconnect has joined it, and none uses a deleted context.
THEOREM HandlersEndInTime == Spec => []HandlersInTurn
  <1>1. IInv => HandlersInTurn
    BY Handlers DEF IInv
  <1>2. QED
    BY <1>1, AlwaysIInv, PTL

\* A get that waits is known to the context, and the context knows no get that is over,
\* as long as gets come one after the other.
THEOREM PromisesStayInPlace == Spec => []PromiseInPlace
  <1>1. ASSUME IInv, ~disturbed, NEW t \in Thread
        PROVE  /\ call[t] = "get" /\ promise[t] = Empty => messagePromise = t
               /\ messagePromise = t =>
                    call[t] \in {"get", "timeout"} \/ \E r \in InCallback : callback[r] = "clear"
    <2>1. call[t] = "get" /\ promise[t] = Empty => messagePromise = t
      BY <1>1 DEF IInv, Wrapped, OneGet
    <2>2. ASSUME messagePromise = t, ~Clearing
          PROVE  call[t] \in {"get", "timeout"}
      <3>1. promise[t] = Empty
        BY <1>1, <2>2, NotAMessage DEF IInv, Wrapped, PointerInv
      <3>2. QED
        BY <1>1, <3>1, NotAMessage DEF IInv, Wrapped, StackInv, Waiting
    <2>3. Clearing => \E r \in InCallback : callback[r] = "clear"
      BY DEF Clearing, InCallback
    <2>4. QED
      BY <2>1, <2>2, <2>3
  <1>2. IInv => PromiseInPlace
    BY <1>1 DEF PromiseInPlace
  <1>3. QED
    BY <1>2, AlwaysIInv, PTL

\* onMessageCallback uses a promise that is not there, or has a message, only when a get
\* gave up between the test of the pointer and its use.
THEOREM OnlyTimeoutsDangle == Spec => []OnlyLateMessagesDangle
  <1>1. Init => OnlyLateMessagesDangle
    BY DEF Init, OnlyLateMessagesDangle
  <1>2. ASSUME IInv, OnlyLateMessagesDangle, [Next]_vars
        PROVE  OnlyLateMessagesDangle'
    <2>1. CASE dangling' = dangling /\ (late => late')
      BY <1>2, <2>1 DEF OnlyLateMessagesDangle
    <2>2. ASSUME NEW r \in C!Receiver, callback_fulfil(r), late' # TRUE
          PROVE  dangling' = dangling
      <3>1. late' = late /\ callback[r] = "fulfil" /\ late \in BOOLEAN
        BY <1>2, <2>2 DEF callback_fulfil, history, IInv, Wrapped, TypeOK
      <3>2. messagePromise # NULL /\ promise[saw[r]] = Empty
        BY <1>2, <2>2, <3>1 DEF IInv, Wrapped, FulfilInv
      <3>3. ~Clearing
        BY <1>2, <3>1, Handlers DEF IInv, OneHandler, Clearing
      <3>4. promise[messagePromise] = Empty /\ saw[r] # NULL
        BY <1>2, <3>1, <3>2, <3>3 DEF IInv, Wrapped, PointerInv, TypeOK
      <3>5. QED
        BY <2>2, <3>2, <3>4 DEF callback_fulfil, Fulfillable
    <2>3. ASSUME NEW r \in C!Receiver, callback_fulfil(r)
          PROVE  OnlyLateMessagesDangle'
      <3>1. late' = late
        BY <2>3 DEF callback_fulfil, history
      <3>2. QED
        BY <1>2, <2>2, <2>3, <3>1 DEF OnlyLateMessagesDangle
    <2>4. ASSUME NEW r \in C!Receiver,
                 callback_promise(r) \/ callback_clear(r) \/ callback_consumer(r)
                   \/ callback_handle(r) \/ on_message(r) \/ receiver_goes_on(r)
          PROVE  dangling' = dangling /\ (late => late')
      BY <2>4 DEF callback_promise, callback_clear, callback_consumer, callback_handle,
                  on_message, receiver_goes_on, wrapper, ends, history
    <2>5. ASSUME NEW t \in Thread,
                 connect(t) \/ disconnect(t) \/ publish(t) \/ goes_on(t)
                   \/ destroy_disconnect(t) \/ destroy(t) \/ destroy_free(t)
                   \/ destroy_delete(t) \/ consume(t)
          PROVE  dangling' = dangling /\ (late => late')
      BY <2>5 DEF connect, disconnect, publish, goes_on, destroy_disconnect, destroy,
                  destroy_free, destroy_delete, consume, wrapper, ends, history
    <2>6. ASSUME NEW t \in Thread,
                 get(t) \/ get_return(t) \/ get_timeout(t) \/ get_throw(t)
          PROVE  dangling' = dangling /\ (late => late')
      <3>1. get(t) \/ get_return(t) \/ get_timeout(t) => UNCHANGED <<dangling, late>>
        BY DEF get, get_return, get_timeout, ends, history
      <3>2. get_throw(t) => dangling' = dangling
        BY DEF get_throw, ends
      <3>3. get_throw(t) => late' = (late \/ \E r \in C!Receiver : callback[r] = "fulfil")
        BY DEF get_throw
      <3>4. CASE get_throw(t)
        <4>1. late => late'
          BY <3>3, <3>4
        <4>2. QED
          BY <3>2, <3>4, <4>1
      <3>5. CASE UNCHANGED <<dangling, late>>
        BY <3>5
      <3>6. QED
        BY <2>6, <3>1, <3>4, <3>5
    <2>7. ASSUME NEW s \in C!Socket, peer_leaves(s)
          PROVE  dangling' = dangling /\ (late => late')
      BY <2>7 DEF peer_leaves, wrapper, ends, history
    <2>8. UNCHANGED vars => dangling' = dangling /\ (late => late')
      BY DEF vars, wrapper, ends, history
    <2>9. QED
      BY <1>2, <2>1, <2>3, <2>4, <2>5, <2>6, <2>7, <2>8 DEF Next, onMessageCallback
  <1>3. QED
    BY <1>1, <1>2, AlwaysIInv, PTL DEF Spec

\* As long as nothing undefined has happened, a message is in one place only: with
\* onMessageCallback, in the promise of one get, with the program, or freed.
THEOREM EveryMessageIsAccountedFor == Spec => []MessagesAccounted
  <1>1. ASSUME IInv, NEW m \in Message
        PROVE  /\ m > arrived <=> place[m] = "none"
               /\ Cardinality({r \in InCallback : callback[r] # "clear" /\ message[r] = m})
                    = (IF place[m] = "callback" THEN 1 ELSE 0)
               /\ Cardinality({t \in Thread : promise[t] = m})
                    = (IF place[m] = "promise" THEN 1 ELSE 0)
    <2> DEFINE H == {r \in InCallback : callback[r] # "clear" /\ message[r] = m}
               P == {t \in Thread : promise[t] = m}
    <2>1. m > arrived <=> place[m] = "none"
      BY <1>1 DEF IInv, Wrapped, PlaceInv
    <2>2. /\ place[m] = "callback" <=> H # {}
          /\ \A r, q \in H : r = q
      <3>1. \A r : r \in H <=> r \in C!Receiver /\ Holds(r, m)
        BY DEF InCallback, Holds
      <3>2. place[m] = "callback" <=> \E r \in C!Receiver : Holds(r, m)
        BY <1>1 DEF IInv, Wrapped, PlaceInv
      <3>3. OneHandler
        BY <1>1, Handlers DEF IInv
      <3>4. \A r, q \in H : r = q
        BY <3>3 DEF OneHandler, InCallback
      <3> HIDE DEF H
      <3>5. QED
        BY <3>1, <3>2, <3>4
    <2>3. /\ place[m] = "promise" <=> P # {}
          /\ \A t, u \in P : t = u
      BY <1>1 DEF IInv, Wrapped, PlaceInv
    <2> HIDE DEF H, P
    <2>4. ASSUME NEW S, \A x, y \in S : x = y
          PROVE  Cardinality(S) = IF S # {} THEN 1 ELSE 0
      <3>1. CASE S = {}
        BY <3>1, FS_EmptySet
      <3>2. CASE S # {}
        <4>1. PICK x : x \in S
          BY <3>2
        <4>2. S = {x}
          BY <2>4, <4>1
        <4>3. QED
          BY <3>2, <4>2, FS_Singleton
      <3>3. QED
        BY <3>1, <3>2
    <2>5. Cardinality(H) = IF place[m] = "callback" THEN 1 ELSE 0
      BY <2>2, <2>4
    <2>6. Cardinality(P) = IF place[m] = "promise" THEN 1 ELSE 0
      BY <2>3, <2>4
    <2>7. QED
      BY <2>1, <2>5, <2>6 DEF H, P
  <1>2. IInv => MessagesAccounted
    BY <1>1 DEF MessagesAccounted
  <1>3. QED
    BY <1>2, AlwaysIInv, PTL

=============================================================================
