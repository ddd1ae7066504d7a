----------------------------- MODULE Connection -----------------------------
(***************************************************************************)
(* A client's connection (src/core/connection.c): threads of the client    *)
(* connect, send, disconnect and free, and a receiver thread reads from    *)
(* the socket until it is told to stop or finds the connection lost. The   *)
(* mutex guards single accesses to the status; the calls between them, and *)
(* the join in connection_disconnect, happen without it.                   *)
(***************************************************************************)
EXTENDS Naturals, FiniteSets

CONSTANTS
    Thread,         \* threads of the client program
    NULL,
    MaxSocket       \* bound: how many sockets the model makes

ASSUME ThreadAssumption == IsFiniteSet(Thread)
ASSUME MaxSocketAssumption == MaxSocket \in Nat
ASSUME NullAssumption == NULL \notin 1 .. MaxSocket

\* A socket is made once, whatever number its descriptor has; receiver threads
\* are numbered in the order in which they start.
Socket == 1 .. MaxSocket
Receiver == 1 .. MaxSocket

ConnectionStatus == {"DISCONNECTED", "CONNECTING", "CONNECTED", "FAILED"}

VARIABLES
    status, running, socket_fd,     \* the fields of struct Connection
    receiver_thread,                \* the receiver the handle names, or NULL
    sockets,        \* how many sockets were made
    open_fds,       \* sockets not closed at this end
    peer,           \* the other end of a socket; "gone" is a reset that the
                    \* receiver was told of
    receiver,       \* where a receiver thread is
    receiver_fd,    \* the socket a receiver reads from: its local socket_fd
    pc,             \* where a client thread is
    local,          \* the socket it sends to, or the receiver it joins
    freed,          \* connection_free was called
    raced           \* history: a disconnect overlapped with another one, or with
                    \* a connect

conn    == <<status, running, socket_fd, receiver_thread>>
network == <<sockets, open_fds, peer>>
readers == <<receiver, receiver_fd>>
callers == <<pc, local>>
vars    == <<conn, network, readers, callers, freed, raced>>

Calls(t) == ~freed /\ pc[t] = "idle"

Goto(t, l) == pc' = [pc EXCEPT ![t] = l]

Returns(t) == Goto(t, "idle")

Connecting(t) == pc[t] \in {"socket", "wait", "spawn", "refused", "failed"}
Disconnecting(t) == pc[t] \in {"stop", "join", "close", "finish"}

-----------------------------------------------------------------------------
(***************************************************************************)
(* connection_connect.                                                     *)
(***************************************************************************)
\* A connection that is connected, or being connected, is left as it is.
connection_connect(t) ==
    /\ Calls(t)
    /\ status \notin {"CONNECTED", "CONNECTING"}
    /\ sockets + Cardinality({u \in Thread : pc[u] = "socket"}) < MaxSocket
    /\ status' = "CONNECTING"
    /\ Goto(t, "socket")
    /\ raced' = (raced \/ \E u \in Thread : Disconnecting(u))
    /\ UNCHANGED <<running, socket_fd, receiver_thread, network, readers, local, freed>>

connect_socket(t) ==
    /\ pc[t] = "socket"
    /\ \/ /\ sockets' = sockets + 1
          /\ open_fds' = open_fds \union {sockets + 1}
          /\ socket_fd' = sockets + 1
          /\ Goto(t, "wait")
          /\ UNCHANGED status
       \/ /\ socket_fd' = NULL
          /\ status' = "FAILED"
          /\ Returns(t)
          /\ UNCHANGED <<sockets, open_fds>>
    /\ UNCHANGED <<running, receiver_thread, peer, readers, local, freed, raced>>

\* The host answers; or it is unknown, refuses, or does not answer within
\* CONNECTION_TIMEOUT.
connect_wait(t) ==
    /\ pc[t] = "wait"
    /\ \/ /\ peer' = [s \in Socket |-> IF s = socket_fd THEN "open" ELSE peer[s]]
          /\ status' = "CONNECTED"
          /\ running' = TRUE
          /\ Goto(t, "spawn")
          /\ UNCHANGED open_fds
       \/ /\ open_fds' = open_fds \ {socket_fd}
          /\ Goto(t, "refused")
          /\ UNCHANGED <<status, running, peer>>
    /\ UNCHANGED <<socket_fd, receiver_thread, sockets, readers, local, freed, raced>>

NextReceiver == 1 + Cardinality({r \in Receiver : receiver[r] # "none"})

Mutant_connect_spawn_triesAgain(t) ==
    /\ pc[t] = "spawn"
    /\ receiver' = [receiver EXCEPT ![NextReceiver] = "check"]
    /\ receiver_thread' = NextReceiver
    /\ UNCHANGED <<status, running, socket_fd, network, receiver_fd, callers, freed, raced>>

\* The receiver thread starts, or it cannot be created.
connect_spawn(t) ==
    /\ pc[t] = "spawn"
    /\ \/ /\ receiver' = [receiver EXCEPT ![NextReceiver] = "check"]
          /\ receiver_thread' = NextReceiver
          /\ Returns(t)
          /\ UNCHANGED open_fds
       \/ /\ open_fds' = open_fds \ {socket_fd}
          /\ Goto(t, "failed")
          /\ UNCHANGED <<receiver_thread, receiver>>
    /\ UNCHANGED <<status, running, socket_fd, sockets, peer, receiver_fd, local, freed,
                   raced>>

\* After the socket was closed, its end is recorded under the mutex.
connect_fail(t) ==
    /\ pc[t] \in {"refused", "failed"}
    /\ socket_fd' = NULL
    /\ status' = "FAILED"
    /\ running' = (running /\ pc[t] = "refused")
    /\ Returns(t)
    /\ UNCHANGED <<receiver_thread, network, readers, local, freed, raced>>

-----------------------------------------------------------------------------
(***************************************************************************)
(* connection_disconnect, connection_send and connection_free.             *)
(***************************************************************************)
Mutant_connection_disconnect_keepsRunning(t) ==
    /\ Calls(t)
    /\ status = "CONNECTED"
    /\ Goto(t, "stop")
    /\ raced' = (raced \/ \E u \in Thread : Connecting(u) \/ Disconnecting(u))
    /\ UNCHANGED <<conn, network, readers, local, freed>>

\* A connection that is not connected is left as it is.
connection_disconnect(t) ==
    /\ Calls(t)
    /\ status = "CONNECTED"
    /\ running' = FALSE
    /\ Goto(t, "stop")
    /\ raced' = (raced \/ \E u \in Thread : Connecting(u) \/ Disconnecting(u))
    /\ UNCHANGED <<status, socket_fd, receiver_thread, network, readers, local, freed>>

\* The handle is read when pthread_join is called, without the mutex.
disconnect_handle(t) ==
    /\ pc[t] = "stop"
    /\ local' = [local EXCEPT ![t] = receiver_thread]
    /\ Goto(t, "join")
    /\ UNCHANGED <<conn, network, readers, freed, raced>>

Mutant_ReceiverJoined_atOnce(r) == TRUE

\* A handle that names no thread, or one that was joined before, may let
\* pthread_join return at once.
ReceiverJoined(r) == r # NULL => receiver[r] = "done"

disconnect_join(t) ==
    /\ pc[t] = "join"
    /\ ReceiverJoined(local[t])
    /\ local' = [local EXCEPT ![t] = NULL]
    /\ Goto(t, "close")
    /\ UNCHANGED <<conn, network, readers, freed, raced>>

Mutant_disconnect_close_notAtAll(t) ==
    /\ pc[t] = "close"
    /\ Goto(t, "finish")
    /\ UNCHANGED <<conn, network, readers, local, freed, raced>>

disconnect_close(t) ==
    /\ pc[t] = "close"
    /\ open_fds' = open_fds \ {socket_fd}
    /\ Goto(t, "finish")
    /\ UNCHANGED <<conn, sockets, peer, readers, local, freed, raced>>

disconnect_finish(t) ==
    /\ pc[t] = "finish"
    /\ socket_fd' = NULL
    /\ status' = "DISCONNECTED"
    /\ Returns(t)
    /\ UNCHANGED <<running, receiver_thread, network, readers, local, freed, raced>>

connection_send(t) ==
    /\ Calls(t)
    /\ status = "CONNECTED"
    /\ local' = [local EXCEPT ![t] = socket_fd]
    /\ Goto(t, "send")
    /\ UNCHANGED <<conn, network, readers, freed, raced>>

\* The frame is sent, or not: the connection is left as it is. A socket reports
\* a reset once: a send that is told of it leaves an end of stream to the receiver.
send_return(t) ==
    /\ pc[t] = "send"
    /\ peer' \in {peer} \union
         {[peer EXCEPT ![s] = "closed"] :
            s \in {f \in open_fds : f = local[t] /\ peer[f] = "reset"}}
    /\ local' = [local EXCEPT ![t] = NULL]
    /\ Returns(t)
    /\ UNCHANGED <<conn, sockets, open_fds, readers, freed, raced>>

\* The caller sees to it that no other call is in progress. A connection that
\* is still connected is disconnected first, by the steps above.
connection_free(t) ==
    /\ \A u \in Thread : Calls(u)
    /\ status # "CONNECTED"
    /\ freed' = TRUE
    /\ UNCHANGED <<conn, network, readers, callers, raced>>

-----------------------------------------------------------------------------
(***************************************************************************)
(* Receiver thread r.                                                      *)
(***************************************************************************)
receiver_check(r) ==
    /\ receiver[r] = "check"
    /\ \/ /\ running
          /\ receiver' = [receiver EXCEPT ![r] = "recv"]
          /\ receiver_fd' = [receiver_fd EXCEPT ![r] = socket_fd]
       \/ /\ ~running
          /\ receiver' = [receiver EXCEPT ![r] = "done"]
          /\ UNCHANGED receiver_fd
    /\ UNCHANGED <<conn, network, callers, freed, raced>>

\* receive_message_data returns: with a message for the callback, or without
\* because the other end has closed or there is nothing to read from. While the
\* other end is open and silent it does not return: the step may be put off.
Returned(f) == f \in open_fds => peer[f] # "reset"

receiver_recv(r) ==
    /\ receiver[r] = "recv"
    /\ Returned(receiver_fd[r])
    /\ receiver' = [receiver EXCEPT ![r] = "check"]
    /\ UNCHANGED <<conn, network, receiver_fd, callers, freed, raced>>

Mutant_NotesLoss_notAtAll(r) ==
    /\ receiver' = [receiver EXCEPT ![r] = "check"]
    /\ UNCHANGED <<running, status>>

NotesLoss(r) ==
    /\ running' = FALSE
    /\ status' = "DISCONNECTED"
    /\ receiver' = [receiver EXCEPT ![r] = "notify"]

\* receive_message_data fails with ECONNRESET, or with ENOTCONN on a socket that
\* is not connected yet.
receiver_lost(r) ==
    /\ receiver[r] = "recv"
    /\ receiver_fd[r] \in open_fds
    /\ peer[receiver_fd[r]] \in {"reset", "none"}
    /\ peer' = [peer EXCEPT ![receiver_fd[r]] = "gone"]
    /\ NotesLoss(r)
    /\ UNCHANGED <<socket_fd, receiver_thread, sockets, open_fds, receiver_fd, callers,
                   freed, raced>>

\* on_disconnect is called, and the thread ends.
receiver_notify(r) ==
    /\ receiver[r] = "notify"
    /\ receiver' = [receiver EXCEPT ![r] = "done"]
    /\ UNCHANGED <<conn, network, receiver_fd, callers, freed, raced>>

-----------------------------------------------------------------------------
\* The other end closes its socket, or its host resets the connection.
peer_leaves(s) ==
    /\ peer[s] = "open"
    /\ peer' \in {[peer EXCEPT ![s] = "closed"], [peer EXCEPT ![s] = "reset"]}
    /\ UNCHANGED <<conn, sockets, open_fds, readers, callers, freed, raced>>

Init ==
    /\ status = "DISCONNECTED" /\ running = FALSE
    /\ socket_fd = NULL /\ receiver_thread = NULL
    /\ sockets = 0 /\ open_fds = {}
    /\ peer = [s \in Socket |-> "none"]
    /\ receiver = [r \in Receiver |-> "none"]
    /\ receiver_fd = [r \in Receiver |-> NULL]
    /\ pc = [t \in Thread |-> "idle"]
    /\ local = [t \in Thread |-> NULL]
    /\ freed = FALSE /\ raced = FALSE

Caller(t) ==
    \/ connect_socket(t)
    \/ connect_wait(t)
    \/ connect_spawn(t)
    \/ connect_fail(t)
    \/ disconnect_handle(t)
    \/ disconnect_join(t)
    \/ disconnect_close(t)
    \/ disconnect_finish(t)
    \/ send_return(t)

Next ==
    \/ \E t \in Thread :
         \/ connection_connect(t)
         \/ connection_disconnect(t)
         \/ connection_send(t)
         \/ connection_free(t)
         \/ Caller(t)
    \/ \E r \in Receiver :
         \/ receiver_check(r)
         \/ receiver_recv(r)
         \/ receiver_lost(r)
         \/ receiver_notify(r)
    \/ \E s \in Socket : peer_leaves(s)

Spec == Init /\ [][Next]_vars

AtEnd(f) == f \in open_fds /\ peer[f] = "closed"

\* A call that is not waiting goes on, and so does a receiver that has something
\* to read. The other end need not send anything, nor leave.
Fairness ==
    /\ \A t \in Thread : WF_vars(Caller(t))
    /\ \A r \in Receiver :
         /\ WF_vars(receiver_check(r))
         /\ WF_vars(receiver_lost(r))
         /\ WF_vars(receiver_notify(r))
         /\ WF_vars(AtEnd(receiver_fd[r]) /\ receiver_recv(r))

FairSpec == Spec /\ Fairness

-----------------------------------------------------------------------------
(***************************************************************************)
(* Properties that hold.                                                   *)
(***************************************************************************)
\* Every field of struct Connection and every local keeps its type.
TypeOK ==
    /\ status \in ConnectionStatus /\ running \in BOOLEAN
    /\ socket_fd \in Socket \union {NULL} /\ receiver_thread \in Socket \union {NULL}
    /\ sockets \in 0 .. MaxSocket /\ open_fds \subseteq 1 .. sockets
    /\ peer \in [Socket -> {"none", "open", "closed", "reset", "gone"}]
    /\ receiver \in [Receiver -> {"none", "check", "recv", "notify", "done"}]
    /\ receiver_fd \in [Receiver -> Socket \union {NULL}]
    /\ pc \in [Thread -> {"idle", "socket", "wait", "spawn", "refused", "failed", "stop",
                          "join", "close", "finish", "send"}]
    /\ local \in [Thread -> Socket \union {NULL}]
    /\ freed \in BOOLEAN /\ raced \in BOOLEAN

Reading == {r \in Receiver : receiver[r] \in {"check", "recv"}}

\* Unless calls have raced, a connection that says it is connected, while nobody
\* connects or disconnects it, has an open socket and exactly one receiver, and
\* that receiver is the one a disconnect would join.
ConnectedIsUsable ==
    /\ ~raced /\ status = "CONNECTED"
    /\ \A t \in Thread : ~Connecting(t) /\ ~Disconnecting(t)
    => /\ running /\ ~freed
       /\ socket_fd \in open_fds
       /\ Reading = {receiver_thread}

\* Unless calls have raced, no two receivers read at the same time, a receiver
\* never reads from a socket that was closed under it, and the only receiver
\* that outlives the connection is one that reports its loss.
OneReader ==
    ~raced =>
        /\ Cardinality(Reading) <= 1
        /\ \A r \in Receiver : receiver[r] = "recv" =>
              receiver_fd[r] = socket_fd /\ socket_fd \in open_fds
        /\ freed => Reading = {}

\* Unless calls have raced, a socket that the connection has let go of was closed,
\* on every path, except one that the receiver has found lost: its branch
\* "Connection lost, close and notify" leaves it open, and the next connect
\* overwrites the descriptor.
OnlyLostSocketsLeak ==
    ~raced => \A s \in open_fds : s = socket_fd \/ peer[s] = "gone"

\* A connection that the other end resets does not stay connected, as far as
\* its status tells, unless a send was told of the reset before the receiver.
ResetIsNoticed ==
    \A s \in Socket :
        (status = "CONNECTED" /\ socket_fd = s /\ peer[s] = "reset")
            ~> (status # "CONNECTED" \/ socket_fd # s \/ peer[s] = "closed" \/ raced)

\* A disconnect returns if the other end leaves or has left: the receiver it joins is
\* woken by the end of the stream or by the reset, and by nothing else.
DisconnectEndsWithPeer ==
    \A t \in Thread :
        (pc[t] = "join" /\ \A s \in open_fds : peer[s] # "open")
            ~> (pc[t] = "idle" \/ raced)

-----------------------------------------------------------------------------
(***************************************************************************)
(* Statements of the sources that the code does not keep.                  *)
(***************************************************************************)
\* connection_disconnect: "Wait for receiver thread to terminate". The receiver
\* looks at running only after receive_message_data returns; while the other
\* end is silent the wait does not end.
DisconnectReturns ==
    \A t \in Thread : pc[t] = "join" ~> pc[t] = "idle"

=============================================================================
