-------------------------- MODULE ConnectionProofs --------------------------
(***************************************************************************)
(* Proofs about a client's connection (src/core/connection.c), for every   *)
(* finite set of threads and every number of sockets.                      *)
(***************************************************************************)
EXTENDS Connection, FiniteSetTheorems, TLAPS

-----------------------------------------------------------------------------
(***************************************************************************)
(* The part of the inductive invariant that holds of all calls: sockets    *)
(* and receivers are made in order and within the bound, nothing is known  *)
(* of a socket that was not made, and a freed connection has no callers.   *)
(***************************************************************************)
MakingSocket == {t \in Thread : pc[t] = "socket"}
OwedReceiver == {t \in Thread : pc[t] \in {"wait", "spawn"}}
Started == {r \in Receiver : receiver[r] # "none"}

CountInv ==
    /\ sockets + Cardinality(MakingSocket) <= MaxSocket
    /\ Cardinality(Started) + Cardinality(OwedReceiver) <= sockets
    /\ \A r \in Receiver : receiver[r] # "none" <=> r <= Cardinality(Started)

MadeInv ==
    /\ socket_fd # NULL => socket_fd <= sockets
    /\ \A s \in Socket : s > sockets => peer[s] = "none"

FreedInv == freed => status # "CONNECTED" /\ \A t \in Thread : pc[t] = "idle"

(***************************************************************************)
(* The part that holds until calls have raced.                             *)
(***************************************************************************)
Busy(t) == Connecting(t) \/ Disconnecting(t)

AllLost == \A s \in open_fds : peer[s] = "gone"

\* One thread connects or disconnects, and the connection has at most one reader.
Turns ==
    /\ \A t, u \in Thread : Busy(t) /\ Busy(u) => t = u
    /\ Reading \subseteq {receiver_thread}
    /\ Reading # {} => socket_fd \in open_fds
    /\ \A r \in Receiver : receiver[r] = "recv" => receiver_fd[r] = socket_fd
    /\ \A s \in open_fds : s = socket_fd \/ peer[s] = "gone"

\* What thread t relies on at each step of connection_connect ...
ConnectInv(t) ==
    /\ Connecting(t) => Reading = {}
    /\ pc[t] \in {"socket", "wait", "refused"} => status = "CONNECTING"
    /\ pc[t] \in {"spawn", "failed"} => status = "CONNECTED"
    /\ pc[t] = "wait" => socket_fd \in open_fds /\ peer[socket_fd] = "none"
    /\ pc[t] = "spawn" => socket_fd \in open_fds /\ running
    /\ pc[t] \in {"socket", "refused", "failed"} => AllLost

\* ... and of connection_disconnect.
DisconnectInv(t) ==
    /\ pc[t] = "stop" => receiver_thread # NULL
    /\ pc[t] = "join" => receiver_thread # NULL /\ local[t] = receiver_thread
    /\ pc[t] \in {"close", "finish"} => Reading = {}
    /\ pc[t] = "finish" => AllLost

\* What it is while nobody connects or disconnects it.
Quiet ==
    (\A t \in Thread : ~Busy(t)) =>
        IF status = "CONNECTED"
        THEN running /\ socket_fd \in open_fds /\ Reading = {receiver_thread}
        ELSE Reading = {} /\ AllLost

InTurn == Turns /\ Quiet /\ \A t \in Thread : ConnectInv(t) /\ DisconnectInv(t)

IInv == TypeOK /\ CountInv /\ MadeInv /\ FreedInv /\ (~raced => InTurn)

-----------------------------------------------------------------------------
(***************************************************************************)
(* Counting the sockets and the receivers that are made or owed.           *)
(***************************************************************************)
Label == {"idle", "socket", "wait", "spawn", "refused", "failed", "stop", "join", "close",
          "finish", "send"}

\* Threads and receivers can be counted.
LEMMA Finite ==
    /\ IsFiniteSet(MakingSocket) /\ Cardinality(MakingSocket) \in Nat
    /\ IsFiniteSet(OwedReceiver) /\ Cardinality(OwedReceiver) \in Nat
    /\ IsFiniteSet(Started) /\ Cardinality(Started) \in Nat
  <1>1. IsFiniteSet(Receiver)
    BY FS_Interval, MaxSocketAssumption DEF Receiver
  <1>2. MakingSocket \subseteq Thread /\ OwedReceiver \subseteq Thread /\ Started \subseteq Receiver
    BY DEF MakingSocket, OwedReceiver, Started
  <1>3. QED
    BY <1>1, <1>2, FS_Subset, FS_CardinalityType, ThreadAssumption

\* A thread that moves from one step of a call to another enters and leaves these sets.
LEMMA GotoCounts ==
    ASSUME TypeOK, NEW t \in Thread, NEW l \in Label, Goto(t, l)
    PROVE  /\ Cardinality(MakingSocket)' \in Nat
           /\ Cardinality(MakingSocket)' = Cardinality(MakingSocket)
                  + (IF l = "socket" THEN 1 ELSE 0) - (IF pc[t] = "socket" THEN 1 ELSE 0)
           /\ Cardinality(OwedReceiver)' \in Nat
           /\ Cardinality(OwedReceiver)' = Cardinality(OwedReceiver)
                  + (IF l \in {"wait", "spawn"} THEN 1 ELSE 0)
                  - (IF pc[t] \in {"wait", "spawn"} THEN 1 ELSE 0)
  <1>1. /\ pc'[t] = l
        /\ \A u \in Thread : u # t => pc'[u] = pc[u]
    BY DEF Goto, TypeOK
  <1>2. /\ Cardinality(MakingSocket)' \in Nat
        /\ Cardinality(MakingSocket)' = Cardinality(MakingSocket)
                  + (IF l = "socket" THEN 1 ELSE 0) - (IF pc[t] = "socket" THEN 1 ELSE 0)
    <2> DEFINE S == MakingSocket
    <2>1. IsFiniteSet(S) /\ Cardinality(S) \in Nat
      BY Finite
    <2>2. t \in S <=> pc[t] = "socket"
      BY DEF MakingSocket
    <2>3. S' = IF l = "socket" THEN S \union {t} ELSE S \ {t}
      BY <1>1 DEF MakingSocket
    <2> HIDE DEF S
    <2>4. CASE l = "socket"
      <3>1. S' = S \union {t} /\ IsFiniteSet(S \union {t}) /\ Cardinality(S \union {t}) \in Nat
        BY <2>1, <2>3, <2>4, FS_AddElement, FS_CardinalityType
      <3>2. Cardinality(S \union {t}) = IF t \in S THEN Cardinality(S) ELSE Cardinality(S) + 1
        BY <2>1, FS_AddElement
      <3>3. QED
        BY <2>1, <2>2, <2>4, <3>1, <3>2 DEF S
    <2>5. CASE l # "socket"
      <3>1. S' = S \ {t} /\ IsFiniteSet(S \ {t}) /\ Cardinality(S \ {t}) \in Nat
        BY <2>1, <2>3, <2>5, FS_RemoveElement, FS_CardinalityType
      <3>2. QED
        BY <2>1, <2>2, <2>5, <3>1, FS_RemoveElement DEF S
    <2>6. QED
      BY <2>4, <2>5
  <1>3. /\ Cardinality(OwedReceiver)' \in Nat
        /\ Cardinality(OwedReceiver)' = Cardinality(OwedReceiver)
                  + (IF l \in {"wait", "spawn"} THEN 1 ELSE 0)
                  - (IF pc[t] \in {"wait", "spawn"} THEN 1 ELSE 0)
    <2> DEFINE S == OwedReceiver
    <2>1. IsFiniteSet(S) /\ Cardinality(S) \in Nat
      BY Finite
    <2>2. t \in S <=> pc[t] \in {"wait", "spawn"}
      BY DEF OwedReceiver
    <2>3. S' = IF l \in {"wait", "spawn"} THEN S \union {t} ELSE S \ {t}
      BY <1>1 DEF OwedReceiver
    <2> HIDE DEF S
    <2>4. CASE l \in {"wait", "spawn"}
      <3>1. S' = S \union {t} /\ IsFiniteSet(S \union {t}) /\ Cardinality(S \union {t}) \in Nat
        BY <2>1, <2>3, <2>4, FS_AddElement, FS_CardinalityType
      <3>2. Cardinality(S \union {t}) = IF t \in S THEN Cardinality(S) ELSE Cardinality(S) + 1
        BY <2>1, FS_AddElement
      <3>3. QED
        BY <2>1, <2>2, <2>4, <3>1, <3>2 DEF S
    <2>5. CASE l \notin {"wait", "spawn"}
      <3>1. S' = S \ {t} /\ IsFiniteSet(S \ {t}) /\ Cardinality(S \ {t}) \in Nat
        BY <2>1, <2>3, <2>5, FS_RemoveElement, FS_CardinalityType
      <3>2. QED
        BY <2>1, <2>2, <2>5, <3>1, FS_RemoveElement DEF S
    <2>6. QED
      BY <2>4, <2>5
  <1>4. QED
    BY <1>2, <1>3

\* A thread that is about to start a receiver finds a number for it that is free.
LEMMA ReceiverIsNew ==
    ASSUME TypeOK, CountInv, NEW t \in Thread, pc[t] = "spawn"
    PROVE  /\ NextReceiver \in Receiver /\ receiver[NextReceiver] = "none"
           /\ NextReceiver = 1 + Cardinality(Started)
  <1>1. IsFiniteSet(OwedReceiver) /\ t \in OwedReceiver
    BY Finite DEF OwedReceiver
  <1>2. Cardinality(OwedReceiver) # 0
    BY <1>1, FS_EmptySet
  <1>3. NextReceiver = 1 + Cardinality(Started)
    BY DEF NextReceiver, Started
  <1>4. 1 + Cardinality(Started) \in Receiver
    BY <1>2, Finite, MaxSocketAssumption DEF CountInv, TypeOK, Receiver
  <1>5. QED
    BY <1>3, <1>4, Finite DEF CountInv, TypeOK

-----------------------------------------------------------------------------
(***************************************************************************)
(* The steps keep the part that holds of all calls.                        *)
(***************************************************************************)
Base == TypeOK /\ CountInv /\ MadeInv /\ FreedInv

\* An open descriptor is that of a socket that was made.
LEMMA OpenIsMade ==
    ASSUME Base
    PROVE  \A s \in open_fds : s \in Socket /\ ~(s > sockets)
  <1>1. sockets \in 0 .. MaxSocket /\ open_fds \subseteq 1 .. sockets
    BY DEF Base, TypeOK
  <1>2. \A s \in 1 .. sockets : s \in 1 .. MaxSocket /\ ~(s > sockets)
    BY <1>1, MaxSocketAssumption
  <1>3. QED
    BY <1>1, <1>2 DEF Socket

\* Steps of a call that make neither a socket nor a receiver.
LEMMA PlainStepBase ==
    ASSUME Base, NEW t \in Thread, NEW l \in Label \ {"socket", "wait"}, Goto(t, l),
           l = "spawn" => pc[t] = "wait",
           UNCHANGED <<sockets, receiver, receiver_fd>>, ~freed, UNCHANGED freed,
           TypeOK', socket_fd' \in {socket_fd, NULL},
           \A s \in Socket : s > sockets => peer'[s] = "none"
    PROVE  Base'
  <1>1. Started' = Started
    BY DEF Started
  <1>2. /\ Cardinality(MakingSocket)' \in Nat /\ Cardinality(OwedReceiver)' \in Nat
        /\ Cardinality(MakingSocket)' <= Cardinality(MakingSocket)
        /\ Cardinality(OwedReceiver)' <= Cardinality(OwedReceiver)
    BY GotoCounts, Finite DEF Base
  <1>3. CountInv'
    BY <1>1, <1>2, Finite, MaxSocketAssumption DEF Base, CountInv, TypeOK
  <1>4. QED
    BY <1>3 DEF Base, MadeInv, FreedInv

\* connection_connect and socket() keep to the bound on sockets.
LEMMA ConnectBase ==
    ASSUME Base, NEW t \in Thread, connection_connect(t) \/ connect_socket(t)
    PROVE  Base'
  <1>1. UNCHANGED <<receiver, receiver_fd, freed, peer, receiver_thread, running, local>> /\ ~freed
    BY DEF connection_connect, connect_socket, Calls, network, readers, Base, FreedInv
  <1>2. Started' = Started
    BY <1>1 DEF Started
  <1>3. CASE connection_connect(t)
    <2>1. /\ pc[t] = "idle" /\ Goto(t, "socket") /\ UNCHANGED <<sockets, open_fds, socket_fd>>
          /\ status' = "CONNECTING" /\ raced' \in BOOLEAN
          /\ sockets + Cardinality(MakingSocket) < MaxSocket
      BY <1>3 DEF connection_connect, Calls, network, MakingSocket, Base, TypeOK
    <2>2. CountInv'
      BY <1>1, <1>2, <2>1, GotoCounts, Finite, MaxSocketAssumption
         DEF Base, CountInv, TypeOK, Label
    <2>3. TypeOK'
      BY <1>1, <2>1 DEF Base, TypeOK, Goto, ConnectionStatus
    <2>4. QED
      BY <1>1, <2>1, <2>2, <2>3 DEF Base, MadeInv, FreedInv
  <1>4. CASE connect_socket(t)
    <2>1. pc[t] = "socket" /\ UNCHANGED raced
      BY <1>4 DEF connect_socket
    <2>2. CASE /\ sockets' = sockets + 1 /\ open_fds' = open_fds \union {sockets + 1}
               /\ socket_fd' = sockets + 1 /\ Goto(t, "wait") /\ UNCHANGED status
      <3>1. /\ Cardinality(MakingSocket)' = Cardinality(MakingSocket) - 1
            /\ Cardinality(MakingSocket)' \in Nat
            /\ Cardinality(OwedReceiver)' = Cardinality(OwedReceiver) + 1
            /\ Cardinality(OwedReceiver)' \in Nat
        BY <2>1, <2>2, GotoCounts, Finite DEF Base, Label
      <3>2. CountInv'
        BY <1>1, <1>2, <2>2, <3>1, Finite, MaxSocketAssumption DEF Base, CountInv, TypeOK
      <3>3. sockets + 1 \in 1 .. MaxSocket
        BY <3>1, Finite, MaxSocketAssumption DEF Base, CountInv, TypeOK
      <3>4. TypeOK'
        BY <1>1, <2>1, <2>2, <3>3, MaxSocketAssumption DEF Base, TypeOK, Goto, Socket
      <3>5. QED
        BY <1>1, <2>2, <3>2, <3>3, <3>4 DEF Base, MadeInv, FreedInv, TypeOK, Socket
    <2>3. CASE /\ socket_fd' = NULL /\ status' = "FAILED" /\ Returns(t)
               /\ UNCHANGED <<sockets, open_fds>>
      <3>1. TypeOK'
        BY <1>1, <2>1, <2>3 DEF Base, TypeOK, Goto, Returns, ConnectionStatus
      <3>2. QED
        BY <1>1, <2>1, <2>3, <3>1, PlainStepBase DEF Base, MadeInv, Returns, Label
    <2>4. QED
      BY <1>4, <2>2, <2>3 DEF connect_socket
  <1>5. QED
    BY <1>3, <1>4

\* pthread_create starts the next receiver, for which there is a socket.
LEMMA SpawnBase ==
    ASSUME Base, NEW t \in Thread, connect_spawn(t)
    PROVE  Base'
  <1>1. /\ UNCHANGED <<status, running, socket_fd, sockets, peer, receiver_fd, local, freed,
                       raced>>
        /\ pc[t] = "spawn" /\ ~freed
    BY DEF connect_spawn, Base, FreedInv
  <1>2. CASE /\ receiver' = [receiver EXCEPT ![NextReceiver] = "check"]
             /\ receiver_thread' = NextReceiver /\ Returns(t) /\ UNCHANGED open_fds
    <2>1. /\ NextReceiver \in Receiver /\ receiver[NextReceiver] = "none"
          /\ NextReceiver = 1 + Cardinality(Started)
      BY <1>1, ReceiverIsNew DEF Base
    <2>2. Started' = Started \union {NextReceiver} /\ NextReceiver \notin Started
      BY <1>2, <2>1 DEF Started, Base, TypeOK
    <2>3. Cardinality(Started)' = Cardinality(Started) + 1
      BY <2>2, Finite, FS_AddElement
    <2>4. /\ Cardinality(MakingSocket)' = Cardinality(MakingSocket)
          /\ Cardinality(OwedReceiver)' = Cardinality(OwedReceiver) - 1
      BY <1>1, <1>2, GotoCounts, Finite DEF Base, Label, Returns
    <2>5. \A r \in Receiver : receiver'[r] # "none" <=> r <= Cardinality(Started) + 1
      <3>1. \A r \in Receiver : receiver'[r] # "none" <=> receiver[r] # "none" \/ r = NextReceiver
        BY <1>2, <2>1 DEF Base, TypeOK
      <3>2. \A r \in Receiver : r <= Cardinality(Started) + 1
                                    <=> r <= Cardinality(Started) \/ r = Cardinality(Started) + 1
        BY Finite DEF Receiver
      <3>3. QED
        BY <2>1, <3>1, <3>2, Finite DEF Base, CountInv
    <2>6. CountInv'
      BY <1>1, <2>3, <2>4, <2>5, Finite DEF Base, CountInv, TypeOK
    <2>7. TypeOK'
      BY <1>1, <1>2, <2>1 DEF Base, TypeOK, Goto, Returns, Receiver, Socket
    <2>8. QED
      BY <1>1, <2>6, <2>7 DEF Base, MadeInv, FreedInv
  <1>3. CASE /\ open_fds' = open_fds \ {socket_fd} /\ Goto(t, "failed")
             /\ UNCHANGED <<receiver_thread, receiver>>
    <2>1. TypeOK'
      BY <1>1, <1>3 DEF Base, TypeOK, Goto
    <2>2. QED
      BY <1>1, <1>3, <2>1, PlainStepBase DEF Base, MadeInv, Label
  <1>4. QED
    BY <1>2, <1>3 DEF connect_spawn

\* The other steps of connect, disconnect and send make no socket and no receiver.
LEMMA CallBase ==
    ASSUME Base, NEW t \in Thread,
           \/ connect_wait(t) \/ connect_fail(t) \/ connection_disconnect(t)
           \/ disconnect_handle(t) \/ disconnect_join(t) \/ disconnect_close(t)
           \/ disconnect_finish(t) \/ connection_send(t) \/ send_return(t)
    PROVE  Base'
  <1>1. UNCHANGED <<sockets, receiver, receiver_fd, freed, receiver_thread>> /\ ~freed
    BY DEF connect_wait, connect_fail, connection_disconnect, disconnect_handle,
           disconnect_join, disconnect_close, disconnect_finish, connection_send, send_return,
           Calls, conn, network, readers, Base, FreedInv
  <1>2. socket_fd' \in {socket_fd, NULL} /\ open_fds' \subseteq open_fds
    BY DEF connect_wait, connect_fail, connection_disconnect, disconnect_handle,
           disconnect_join, disconnect_close, disconnect_finish, connection_send, send_return,
           conn, network
  <1>3. /\ status' \in ConnectionStatus /\ running' \in BOOLEAN /\ raced' \in BOOLEAN
    BY DEF connect_wait, connect_fail, connection_disconnect, disconnect_handle,
           disconnect_join, disconnect_close, disconnect_finish, connection_send, send_return,
           conn, Base, TypeOK, ConnectionStatus
  <1>4. local' \in [Thread -> Socket \union {NULL}]
    BY DEF connect_wait, connect_fail, connection_disconnect, disconnect_handle,
           disconnect_join, disconnect_close, disconnect_finish, connection_send, send_return,
           Base, TypeOK
  <1>5. /\ peer' \in [Socket -> {"none", "open", "closed", "reset", "gone"}]
        /\ \A s \in Socket : s > sockets => peer'[s] = "none"
    <2>1. CASE connect_wait(t)
      <3>1. peer' = peer \/ peer' = [s \in Socket |-> IF s = socket_fd THEN "open" ELSE peer[s]]
        BY <2>1 DEF connect_wait
      <3>2. \A s \in Socket : s = socket_fd => ~(s > sockets)
        BY NullAssumption DEF Base, MadeInv, TypeOK, Socket
      <3>3. QED
        BY <3>1, <3>2 DEF Base, TypeOK, MadeInv
    <2>2. CASE send_return(t)
      BY <2>2 DEF send_return, Base, TypeOK, MadeInv, Socket
    <2>3. CASE UNCHANGED peer
      BY <2>3 DEF Base, TypeOK, MadeInv
    <2>4. QED
      BY <2>1, <2>2, <2>3 DEF connect_fail, connection_disconnect, disconnect_handle,
             disconnect_join, disconnect_close, disconnect_finish, connection_send, network
  <1>6. PICK l \in Label \ {"socket", "wait"} : Goto(t, l) /\ (l = "spawn" => pc[t] = "wait")
    BY DEF connect_wait, connect_fail, connection_disconnect, disconnect_handle,
           disconnect_join, disconnect_close, disconnect_finish, connection_send, send_return,
           Returns, Label
  <1>7. pc' \in [Thread -> Label]
    BY <1>6 DEF Goto, Base, TypeOK, Label
  <1>8. TypeOK'
    BY <1>1, <1>2, <1>3, <1>4, <1>5, <1>7 DEF Base, TypeOK, Label
  <1>9. QED
    BY <1>1, <1>2, <1>5, <1>6, <1>8, PlainStepBase

\* Nor do connection_free, the receivers and the other end.
LEMMA OtherBase ==
    ASSUME Base,
           \/ \E t \in Thread : connection_free(t)
           \/ \E r \in Receiver : \/ receiver_check(r) \/ receiver_recv(r)
                                  \/ receiver_lost(r) \/ receiver_notify(r)
           \/ \E s \in Socket : peer_leaves(s)
           \/ UNCHANGED vars
    PROVE  Base'
  <1>1. UNCHANGED <<sockets, open_fds, socket_fd, receiver_thread, pc, local, raced>>
    BY DEF connection_free, receiver_check, receiver_recv, receiver_lost, receiver_notify,
           NotesLoss, peer_leaves, conn, network, readers, callers, vars
  <1>2. /\ peer' \in [Socket -> {"none", "open", "closed", "reset", "gone"}]
        /\ \A s \in Socket : s > sockets => peer'[s] = "none"
    <2>1. ASSUME NEW r \in Receiver, receiver_lost(r)
          PROVE  /\ peer' \in [Socket -> {"none", "open", "closed", "reset", "gone"}]
                 /\ \A s \in Socket : s > sockets => peer'[s] = "none"
      <3>1. peer' = [peer EXCEPT ![receiver_fd[r]] = "gone"] /\ receiver_fd[r] \in open_fds
        BY <2>1 DEF receiver_lost
      <3>2. receiver_fd[r] \in Socket /\ ~(receiver_fd[r] > sockets)
        BY <3>1, OpenIsMade
      <3>3. QED
        BY <3>1, <3>2 DEF Base, TypeOK, MadeInv
    <2>2. ASSUME NEW s \in Socket, peer_leaves(s)
          PROVE  /\ peer' \in [Socket -> {"none", "open", "closed", "reset", "gone"}]
                 /\ \A s_1 \in Socket : s_1 > sockets => peer'[s_1] = "none"
      BY <2>2 DEF peer_leaves, Base, TypeOK, MadeInv
    <2>3. CASE UNCHANGED peer
      BY <2>3 DEF Base, TypeOK, MadeInv
    <2>4. QED
      BY <2>1, <2>2, <2>3 DEF connection_free, receiver_check, receiver_recv, receiver_notify,
             network, vars
  <1>3. /\ receiver' \in [Receiver -> {"none", "check", "recv", "notify", "done"}]
        /\ \A r \in Receiver : receiver'[r] # "none" <=> receiver[r] # "none"
    BY DEF connection_free, receiver_check, receiver_recv, receiver_lost, receiver_notify,
           NotesLoss, peer_leaves, readers, vars, Base, TypeOK
  <1>4. receiver_fd' \in [Receiver -> Socket \union {NULL}]
    BY DEF connection_free, receiver_check, receiver_recv, receiver_lost, receiver_notify,
           peer_leaves, readers, vars, Base, TypeOK
  <1>5. status' = status \/ status' = "DISCONNECTED"
    BY DEF connection_free, receiver_check, receiver_recv, receiver_lost, receiver_notify,
           NotesLoss, peer_leaves, conn, vars
  <1>6. running' \in BOOLEAN
    BY DEF connection_free, receiver_check, receiver_recv, receiver_lost, receiver_notify,
           NotesLoss, peer_leaves, conn, vars, Base, TypeOK
  <1>7. freed' \in BOOLEAN /\ FreedInv'
    <2>1. CASE UNCHANGED freed
      BY <1>1, <1>5, <2>1 DEF Base, TypeOK, FreedInv
    <2>2. ASSUME NEW t \in Thread, connection_free(t) PROVE freed' \in BOOLEAN /\ FreedInv'
      BY <2>2 DEF connection_free, conn, callers, Calls, FreedInv
    <2>3. QED
      BY <2>1, <2>2 DEF receiver_check, receiver_recv, receiver_lost, receiver_notify,
             peer_leaves, vars
  <1>8. TypeOK'
    BY <1>1, <1>2, <1>3, <1>4, <1>5, <1>6, <1>7 DEF Base, TypeOK, ConnectionStatus
  <1>9. Started' = Started /\ MakingSocket' = MakingSocket /\ OwedReceiver' = OwedReceiver
    BY <1>1, <1>3 DEF Started, MakingSocket, OwedReceiver
  <1>10. CountInv' /\ MadeInv'
    BY <1>1, <1>2, <1>3, <1>9 DEF Base, CountInv, MadeInv
  <1>11. QED
    BY <1>7, <1>8, <1>10 DEF Base

\* Every step keeps the first part, whether calls race or not.
LEMMA NextBase == Base /\ [Next]_vars => Base'
  BY ConnectBase, SpawnBase, CallBase, OtherBase DEF Next, Caller

-----------------------------------------------------------------------------
(***************************************************************************)
(* The steps keep the part that holds until calls have raced.              *)
(***************************************************************************)
\* While one thread connects or disconnects, the others only send.
LEMMA OthersAside ==
    ASSUME TypeOK, Turns, NEW t \in Thread, Busy(t), NEW u \in Thread, u # t
    PROVE  pc[u] \in {"idle", "send"}
  BY DEF TypeOK, Turns, Busy, Connecting, Disconnecting

\* A connect begins on a connection that is not connected, beside no disconnect.
LEMMA ConnectInTurn ==
    ASSUME Base, InTurn, NEW t \in Thread, connection_connect(t), ~raced'
    PROVE  InTurn'
  <1>1. \A u \in Thread : ~Busy(u)
    BY DEF connection_connect, InTurn, ConnectInv, Busy, Connecting, Disconnecting
  <1>2. Reading = {} /\ AllLost
    BY <1>1 DEF connection_connect, InTurn, Quiet
  <1>3. /\ pc'[t] = "socket" /\ status' = "CONNECTING"
        /\ \A u \in Thread : u # t => pc'[u] = pc[u]
        /\ UNCHANGED <<socket_fd, receiver_thread, open_fds, peer, receiver, receiver_fd>>
    BY DEF connection_connect, Goto, Base, TypeOK, network, readers
  <1>4. \A u \in Thread : Busy(u)' => u = t
    BY <1>1, <1>3 DEF Busy, Connecting, Disconnecting
  <1>5. Reading' = {} /\ AllLost'
    BY <1>2, <1>3 DEF Reading, AllLost
  <1>6. Turns'
    BY <1>2, <1>3, <1>4, <1>5 DEF Turns, AllLost, Reading
  <1>7. Quiet'
    BY <1>3 DEF Quiet, Busy, Connecting
  <1>8. ASSUME NEW u \in Thread PROVE (ConnectInv(u) /\ DisconnectInv(u))'
    BY <1>3, <1>4, <1>5 DEF ConnectInv, DisconnectInv, Busy, Connecting, Disconnecting
  <1>9. QED
    BY <1>6, <1>7, <1>8 DEF InTurn

\* socket() gives a socket that nobody reads, or the connect fails.
LEMMA SocketInTurn ==
    ASSUME Base, InTurn, NEW t \in Thread, connect_socket(t)
    PROVE  InTurn'
  <1>1. /\ pc[t] = "socket" /\ status = "CONNECTING" /\ Reading = {} /\ AllLost
        /\ \A u \in Thread : u # t => pc[u] \in {"idle", "send"}
    BY OthersAside DEF connect_socket, InTurn, ConnectInv, Busy, Connecting, Base
  <1>2. UNCHANGED <<receiver_thread, peer, receiver, receiver_fd>>
    BY DEF connect_socket, readers
  <1>3. Reading' = {}
    BY <1>1, <1>2 DEF Reading
  <1>4. CASE /\ open_fds' = open_fds \union {sockets + 1} /\ socket_fd' = sockets + 1
             /\ sockets' = sockets + 1 /\ Goto(t, "wait") /\ UNCHANGED status
    <2>1. pc'[t] = "wait" /\ \A u \in Thread : u # t => pc'[u] \in {"idle", "send"}
      BY <1>1, <1>4 DEF Goto, Base, TypeOK
    <2>2. peer[sockets + 1] = "none"
      <3>1. Base'
        BY ConnectBase
      <3>2. sockets + 1 \in Socket /\ sockets + 1 > sockets
        BY <1>4, <3>1, MaxSocketAssumption DEF Base, TypeOK, Socket
      <3>3. QED
        BY <3>2 DEF Base, MadeInv
    <2>3. Turns'
      BY <1>1, <1>2, <1>3, <1>4, <2>1 DEF Turns, AllLost, Busy, Connecting, Disconnecting, Reading
    <2>4. Quiet'
      BY <2>1 DEF Quiet, Busy, Connecting
    <2>5. ASSUME NEW u \in Thread PROVE (ConnectInv(u) /\ DisconnectInv(u))'
      BY <1>1, <1>2, <1>3, <1>4, <2>1, <2>2 DEF ConnectInv, DisconnectInv, Connecting
    <2>6. QED
      BY <2>3, <2>4, <2>5 DEF InTurn
  <1>5. CASE /\ socket_fd' = NULL /\ status' = "FAILED" /\ Goto(t, "idle")
             /\ UNCHANGED <<sockets, open_fds>>
    <2>1. \A u \in Thread : pc'[u] \in {"idle", "send"}
      BY <1>1, <1>5 DEF Goto, Base, TypeOK
    <2>2. AllLost'
      BY <1>1, <1>2, <1>5 DEF AllLost
    <2>3. Turns' /\ Quiet'
      BY <1>1, <1>2, <1>3, <1>5, <2>1, <2>2 DEF Turns, Quiet, AllLost, Busy, Connecting,
             Disconnecting, Reading
    <2>4. ASSUME NEW u \in Thread PROVE (ConnectInv(u) /\ DisconnectInv(u))'
      BY <2>1 DEF ConnectInv, DisconnectInv, Connecting
    <2>5. QED
      BY <2>3, <2>4 DEF InTurn
  <1>6. QED
    BY <1>4, <1>5 DEF connect_socket, Returns

\* The host answers, or the socket is closed before its end is recorded.
LEMMA WaitInTurn ==
    ASSUME Base, InTurn, NEW t \in Thread, connect_wait(t)
    PROVE  InTurn'
  <1>1. /\ pc[t] = "wait" /\ status = "CONNECTING" /\ Reading = {}
        /\ socket_fd \in open_fds /\ peer[socket_fd] = "none"
        /\ \A u \in Thread : u # t => pc[u] \in {"idle", "send"}
    BY OthersAside DEF connect_wait, InTurn, ConnectInv, Busy, Connecting, Base
  <1>2. UNCHANGED <<socket_fd, receiver_thread, receiver, receiver_fd>>
    BY DEF connect_wait, readers
  <1>3. Reading' = {} /\ \A s \in open_fds : s \in Socket
    BY <1>1, <1>2, OpenIsMade DEF Reading
  <1>4. CASE /\ peer' = [s \in Socket |-> IF s = socket_fd THEN "open" ELSE peer[s]]
             /\ status' = "CONNECTED" /\ running' = TRUE /\ Goto(t, "spawn")
             /\ UNCHANGED open_fds
    <2>1. pc'[t] = "spawn" /\ \A u \in Thread : u # t => pc'[u] \in {"idle", "send"}
      BY <1>1, <1>4 DEF Goto, Base, TypeOK
    <2>2. Turns'
      BY <1>1, <1>2, <1>3, <1>4, <2>1 DEF InTurn, Turns, Busy, Connecting, Disconnecting, Reading
    <2>3. Quiet'
      BY <2>1 DEF Quiet, Busy, Connecting
    <2>4. ASSUME NEW u \in Thread PROVE (ConnectInv(u) /\ DisconnectInv(u))'
      BY <1>1, <1>2, <1>3, <1>4, <2>1 DEF ConnectInv, DisconnectInv, Connecting
    <2>5. QED
      BY <2>2, <2>3, <2>4 DEF InTurn
  <1>5. CASE /\ open_fds' = open_fds \ {socket_fd} /\ Goto(t, "refused")
             /\ UNCHANGED <<status, running, peer>>
    <2>1. pc'[t] = "refused" /\ \A u \in Thread : u # t => pc'[u] \in {"idle", "send"}
      BY <1>1, <1>5 DEF Goto, Base, TypeOK
    <2>2. AllLost'
      BY <1>5 DEF AllLost, InTurn, Turns
    <2>3. Turns'
      BY <1>2, <1>3, <1>5, <2>1, <2>2 DEF AllLost, Turns, Busy, Connecting, Disconnecting, Reading
    <2>4. Quiet'
      BY <2>1 DEF Quiet, Busy, Connecting
    <2>5. ASSUME NEW u \in Thread PROVE (ConnectInv(u) /\ DisconnectInv(u))'
      BY <1>1, <1>3, <1>5, <2>1, <2>2 DEF ConnectInv, DisconnectInv, Connecting
    <2>6. QED
      BY <2>3, <2>4, <2>5 DEF InTurn
  <1>6. QED
    BY <1>4, <1>5 DEF connect_wait

\* The receiver that starts is the only one, or the socket is closed again.
LEMMA SpawnInTurn ==
    ASSUME Base, InTurn, NEW t \in Thread, connect_spawn(t)
    PROVE  InTurn'
  <1>1. /\ pc[t] = "spawn" /\ status = "CONNECTED" /\ Reading = {} /\ running
        /\ socket_fd \in open_fds
        /\ \A u \in Thread : u # t => pc[u] \in {"idle", "send"}
    BY OthersAside DEF connect_spawn, InTurn, ConnectInv, Busy, Connecting, Base
  <1>2. UNCHANGED <<status, running, socket_fd, sockets, peer, receiver_fd, local>>
    BY DEF connect_spawn
  <1>3. CASE /\ receiver' = [receiver EXCEPT ![NextReceiver] = "check"]
             /\ receiver_thread' = NextReceiver /\ Goto(t, "idle") /\ UNCHANGED open_fds
    <2>1. \A u \in Thread : pc'[u] \in {"idle", "send"}
      BY <1>1, <1>3 DEF Goto, Base, TypeOK
    <2>2. Reading' = {NextReceiver}
      BY <1>1, <1>3, ReceiverIsNew DEF Reading, Base, TypeOK
    <2>3. \A r \in Receiver : receiver'[r] # "recv"
      BY <1>1, <1>3 DEF Reading, Base, TypeOK
    <2>4. Turns'
      BY <1>1, <1>2, <1>3, <2>1, <2>2, <2>3 DEF InTurn, Turns, Busy, Connecting, Disconnecting
    <2>5. Quiet'
      BY <1>1, <1>2, <1>3, <2>2 DEF Quiet
    <2>6. ASSUME NEW u \in Thread PROVE (ConnectInv(u) /\ DisconnectInv(u))'
      BY <2>1 DEF ConnectInv, DisconnectInv, Connecting
    <2>7. QED
      BY <2>4, <2>5, <2>6 DEF InTurn
  <1>4. CASE /\ open_fds' = open_fds \ {socket_fd} /\ Goto(t, "failed")
             /\ UNCHANGED <<receiver_thread, receiver>>
    <2>1. pc'[t] = "failed" /\ \A u \in Thread : u # t => pc'[u] \in {"idle", "send"}
      BY <1>1, <1>4 DEF Goto, Base, TypeOK
    <2>2. AllLost' /\ Reading' = {}
      BY <1>1, <1>2, <1>4 DEF AllLost, InTurn, Turns, Reading
    <2>3. Turns'
      BY <1>2, <1>4, <2>1, <2>2 DEF AllLost, Turns, Busy, Connecting, Disconnecting, Reading
    <2>4. Quiet'
      BY <2>1 DEF Quiet, Busy, Connecting
    <2>5. ASSUME NEW u \in Thread PROVE (ConnectInv(u) /\ DisconnectInv(u))'
      BY <1>1, <1>2, <2>1, <2>2 DEF ConnectInv, DisconnectInv, Connecting
    <2>6. QED
      BY <2>3, <2>4, <2>5 DEF InTurn
  <1>5. QED
    BY <1>3, <1>4 DEF connect_spawn, Returns

\* A failed connect and a disconnect leave a connection without socket and reader.
LEMMA FailInTurn ==
    ASSUME Base, InTurn, NEW t \in Thread, connect_fail(t) \/ disconnect_finish(t)
    PROVE  InTurn'
  <1>1. /\ Reading = {} /\ AllLost /\ Busy(t)
    BY DEF connect_fail, disconnect_finish, InTurn, ConnectInv, DisconnectInv, Busy, Connecting,
           Disconnecting
  <1>2. \A u \in Thread : u # t => pc[u] \in {"idle", "send"}
    BY <1>1, OthersAside DEF InTurn, Base
  <1>3. /\ UNCHANGED <<receiver_thread, open_fds, peer, receiver, receiver_fd>>
        /\ socket_fd' = NULL /\ status' # "CONNECTED" /\ Goto(t, "idle")
    BY DEF connect_fail, disconnect_finish, network, readers, Returns
  <1>4. \A u \in Thread : pc'[u] \in {"idle", "send"}
    BY <1>2, <1>3 DEF Goto, Base, TypeOK
  <1>5. Reading' = {} /\ AllLost'
    BY <1>1, <1>3 DEF Reading, AllLost
  <1>6. Turns' /\ Quiet'
    BY <1>3, <1>4, <1>5 DEF Turns, Quiet, AllLost, Busy, Connecting, Disconnecting, Reading
  <1>7. ASSUME NEW u \in Thread PROVE (ConnectInv(u) /\ DisconnectInv(u))'
    BY <1>4 DEF ConnectInv, DisconnectInv, Connecting
  <1>8. QED
    BY <1>6, <1>7 DEF InTurn

\* A disconnect begins on a connection whose receiver the handle names.
LEMMA DisconnectInTurn ==
    ASSUME Base, InTurn, NEW t \in Thread, connection_disconnect(t), ~raced'
    PROVE  InTurn'
  <1>1. \A u \in Thread : ~Busy(u) /\ pc[u] \in {"idle", "send"}
    BY DEF connection_disconnect, Busy, Connecting, Disconnecting, Base, TypeOK
  <1>2. Reading = {receiver_thread} /\ receiver_thread # NULL
    BY <1>1, NullAssumption DEF connection_disconnect, InTurn, Quiet, Reading, Receiver
  <1>3. /\ pc'[t] = "stop" /\ \A u \in Thread : u # t => pc'[u] \in {"idle", "send"}
        /\ UNCHANGED <<status, socket_fd, receiver_thread, open_fds, peer, receiver, receiver_fd>>
    BY <1>1 DEF connection_disconnect, Goto, Base, TypeOK, network, readers
  <1>4. Reading' = Reading
    BY <1>3 DEF Reading
  <1>5. Turns'
    BY <1>3, <1>4 DEF InTurn, Turns, Busy, Connecting, Disconnecting
  <1>6. Quiet'
    BY <1>3 DEF Quiet, Busy, Disconnecting
  <1>7. ASSUME NEW u \in Thread PROVE (ConnectInv(u) /\ DisconnectInv(u))'
    BY <1>2, <1>3 DEF ConnectInv, DisconnectInv, Connecting
  <1>8. QED
    BY <1>5, <1>6, <1>7 DEF InTurn

\* The receiver that was joined no longer reads when the socket is closed.
LEMMA JoinInTurn ==
    ASSUME Base, InTurn, NEW t \in Thread,
           disconnect_handle(t) \/ disconnect_join(t) \/ disconnect_close(t)
    PROVE  InTurn'
  <1>1. Busy(t)
    BY DEF disconnect_handle, disconnect_join, disconnect_close, Busy, Disconnecting
  <1>2. \A u \in Thread : u # t => pc[u] \in {"idle", "send"}
    BY <1>1, OthersAside DEF InTurn, Base
  <1>3. UNCHANGED <<status, running, socket_fd, receiver_thread, peer, receiver, receiver_fd>>
    BY DEF disconnect_handle, disconnect_join, disconnect_close, conn, network, readers
  <1>4. Reading' = Reading
    BY <1>3 DEF Reading
  <1>5. CASE disconnect_handle(t)
    <2>1. /\ pc[t] = "stop" /\ pc'[t] = "join" /\ local'[t] = receiver_thread
          /\ receiver_thread # NULL /\ UNCHANGED open_fds
          /\ \A u \in Thread : u # t => pc'[u] \in {"idle", "send"}
      BY <1>2, <1>5 DEF disconnect_handle, Goto, Base, TypeOK, network, InTurn, DisconnectInv
    <2>2. Turns' /\ Quiet'
      BY <1>3, <1>4, <2>1 DEF InTurn, Turns, Quiet, Busy, Connecting, Disconnecting
    <2>3. ASSUME NEW u \in Thread PROVE (ConnectInv(u) /\ DisconnectInv(u))'
      BY <1>3, <2>1 DEF ConnectInv, DisconnectInv, Connecting
    <2>4. QED
      BY <2>2, <2>3 DEF InTurn
  <1>6. CASE disconnect_join(t)
    <2>1. /\ pc[t] = "join" /\ pc'[t] = "close" /\ local[t] = receiver_thread
          /\ receiver_thread # NULL /\ UNCHANGED open_fds /\ ReceiverJoined(local[t])
          /\ \A u \in Thread : u # t => pc'[u] \in {"idle", "send"}
      BY <1>2, <1>6 DEF disconnect_join, Goto, Base, TypeOK, network, InTurn, DisconnectInv
    <2>2. Reading = {}
      BY <2>1 DEF ReceiverJoined, Reading, InTurn, Turns
    <2>3. Turns' /\ Quiet'
      BY <1>3, <1>4, <2>1 DEF InTurn, Turns, Quiet, Busy, Connecting, Disconnecting
    <2>4. ASSUME NEW u \in Thread PROVE (ConnectInv(u) /\ DisconnectInv(u))'
      BY <1>4, <2>1, <2>2 DEF ConnectInv, DisconnectInv, Connecting
    <2>5. QED
      BY <2>3, <2>4 DEF InTurn
  <1>7. CASE disconnect_close(t)
    <2>1. /\ pc[t] = "close" /\ pc'[t] = "finish" /\ open_fds' = open_fds \ {socket_fd}
          /\ \A u \in Thread : u # t => pc'[u] \in {"idle", "send"}
          /\ Reading = {}
      BY <1>2, <1>7 DEF disconnect_close, Goto, Base, TypeOK, InTurn, DisconnectInv
    <2>2. AllLost'
      BY <1>3, <2>1 DEF AllLost, InTurn, Turns
    <2>3. Turns' /\ Quiet'
      BY <1>3, <1>4, <2>1 DEF InTurn, Turns, Quiet, Busy, Connecting, Disconnecting
    <2>4. ASSUME NEW u \in Thread PROVE (ConnectInv(u) /\ DisconnectInv(u))'
      BY <1>4, <2>1, <2>2 DEF ConnectInv, DisconnectInv, Connecting
    <2>5. QED
      BY <2>3, <2>4 DEF InTurn
  <1>8. QED
    BY <1>5, <1>6, <1>7

\* A send leaves the connection to the others.
LEMMA SendInTurn ==
    ASSUME Base, InTurn, NEW t \in Thread, connection_send(t) \/ send_return(t)
    PROVE  InTurn'
  <1>1. /\ UNCHANGED <<status, running, socket_fd, receiver_thread, open_fds, receiver,
                       receiver_fd>>
        /\ pc[t] \in {"idle", "send"} /\ pc'[t] \in {"idle", "send"}
        /\ \A u \in Thread : u # t => pc'[u] = pc[u] /\ local'[u] = local[u]
    BY DEF connection_send, send_return, Calls, Goto, Returns, Base, TypeOK, conn, network,
           readers
  <1>2. \A s \in Socket : peer'[s] = peer[s] \/ peer[s] = "reset"
    BY DEF connection_send, send_return, network, Base, TypeOK, Socket
  <1>3. \A s \in open_fds : s \in Socket
    BY OpenIsMade
  <1>4. Reading' = Reading /\ (AllLost => AllLost')
    BY <1>1, <1>2, <1>3 DEF Reading, AllLost
  <1>5. \A u \in Thread : Busy(u)' <=> Busy(u)
    BY <1>1 DEF Busy, Connecting, Disconnecting
  <1>6. Turns' /\ Quiet'
    BY <1>1, <1>2, <1>3, <1>4, <1>5 DEF InTurn, Turns, Quiet
  <1>7. ASSUME NEW u \in Thread PROVE (ConnectInv(u) /\ DisconnectInv(u))'
    BY <1>1, <1>2, <1>3, <1>4 DEF InTurn, ConnectInv, DisconnectInv, Connecting
  <1>8. QED
    BY <1>6, <1>7 DEF InTurn

\* The receiver reads, finds that it must stop, or ends; the other end leaves; the
\* connection is freed; nothing happens.
LEMMA OtherInTurn ==
    ASSUME Base, InTurn,
           \/ \E t \in Thread : connection_free(t)
           \/ \E r \in Receiver : receiver_check(r) \/ receiver_recv(r) \/ receiver_notify(r)
           \/ \E s \in Socket : peer_leaves(s)
           \/ UNCHANGED vars
    PROVE  InTurn'
  <1>1. UNCHANGED <<status, running, socket_fd, receiver_thread, open_fds, pc, local>>
    BY DEF connection_free, receiver_check, receiver_recv, receiver_notify, peer_leaves, conn,
           network, callers, vars
  <1>2. \A s \in Socket : peer'[s] = peer[s] \/ peer[s] = "open"
    BY DEF connection_free, receiver_check, receiver_recv, receiver_notify, peer_leaves, network,
           vars, Base, TypeOK
  <1>3. \A s \in open_fds : s \in Socket
    BY OpenIsMade
  <1> DEFINE ReadersStay ==
        /\ \A r \in Receiver : receiver'[r] = "recv" =>
             /\ r \in Reading
             /\ \/ receiver'[r] = receiver[r] /\ receiver_fd'[r] = receiver_fd[r]
                \/ receiver_fd'[r] = socket_fd
        /\ Reading' \subseteq Reading /\ (running => Reading' = Reading)
  <1>4. ReadersStay
    <2>1. ASSUME NEW r \in Receiver, receiver_check(r) \/ receiver_recv(r) \/ receiver_notify(r)
          PROVE  ReadersStay
      BY <2>1 DEF receiver_check, receiver_recv, receiver_notify, Reading, Base, TypeOK
    <2>2. CASE UNCHANGED readers
      BY <2>2 DEF readers, Reading
    <2>3. QED
      BY <2>1, <2>2 DEF connection_free, peer_leaves, vars
  <1>5. AllLost => AllLost'
    BY <1>1, <1>2, <1>3 DEF AllLost
  <1>6. Turns'
    BY <1>1, <1>2, <1>3, <1>4 DEF InTurn, Turns, Busy, Connecting, Disconnecting
  <1>7. Quiet'
    BY <1>1, <1>4, <1>5 DEF InTurn, Quiet, Busy, Connecting, Disconnecting
  <1>8. ASSUME NEW u \in Thread PROVE (ConnectInv(u) /\ DisconnectInv(u))'
    BY <1>1, <1>2, <1>3, <1>4, <1>5 DEF InTurn, ConnectInv, DisconnectInv, Connecting
  <1>9. QED
    BY <1>6, <1>7, <1>8 DEF InTurn

\* A receiver that finds its socket lost stops reading and says so.
LEMMA LostInTurn ==
    ASSUME Base, InTurn, NEW r \in Receiver, receiver_lost(r)
    PROVE  InTurn'
  <1>1. /\ UNCHANGED <<socket_fd, receiver_thread, open_fds, receiver_fd, pc, local>>
        /\ status' = "DISCONNECTED" /\ receiver' = [receiver EXCEPT ![r] = "notify"]
        /\ peer' = [peer EXCEPT ![receiver_fd[r]] = "gone"]
        /\ receiver[r] = "recv" /\ receiver_fd[r] = socket_fd
    BY DEF receiver_lost, NotesLoss, callers, InTurn, Turns
  <1>2. Reading = {receiver_thread} /\ r = receiver_thread
    BY <1>1 DEF Reading, InTurn, Turns
  <1>3. Reading' = {}
    BY <1>1, <1>2 DEF Reading, Base, TypeOK
  <1>4. AllLost' /\ \A s \in open_fds : s \in Socket
    BY <1>1, OpenIsMade DEF AllLost, InTurn, Turns, Base, TypeOK
  <1>5. Turns' /\ Quiet'
    BY <1>1, <1>3, <1>4 DEF InTurn, Turns, Quiet, AllLost, Busy, Connecting, Disconnecting, Reading
  <1>6. ASSUME NEW u \in Thread PROVE (ConnectInv(u) /\ DisconnectInv(u))'
    BY <1>1, <1>2, <1>3, <1>4 DEF InTurn, ConnectInv, DisconnectInv, Connecting
  <1>7. QED
    BY <1>5, <1>6 DEF InTurn

-----------------------------------------------------------------------------
(***************************************************************************)
(* The invariant is inductive, and what follows from it.                   *)
(***************************************************************************)
LEMMA InitIInv == Init => IInv
  <1> SUFFICES ASSUME Init PROVE IInv
    OBVIOUS
  <1>1. TypeOK
    <2>1. 0 \in 0 .. MaxSocket
      BY MaxSocketAssumption
    <2>2. QED
      BY <2>1 DEF Init, TypeOK, ConnectionStatus
  <1>2. MakingSocket = {} /\ OwedReceiver = {} /\ Started = {} /\ Reading = {}
    BY DEF Init, MakingSocket, OwedReceiver, Started, Reading
  <1>3. CountInv
    BY <1>2, FS_EmptySet, MaxSocketAssumption DEF Init, CountInv, Receiver
  <1>4. MadeInv /\ FreedInv
    BY DEF Init, MadeInv, FreedInv
  <1>5. InTurn
    BY <1>2 DEF Init, InTurn, Turns, Quiet, ConnectInv, DisconnectInv, Busy, Connecting,
           Disconnecting, AllLost
  <1>6. QED
    BY <1>1, <1>3, <1>4, <1>5 DEF IInv

\* Every step keeps the invariant ...
LEMMA NextIInv == IInv /\ [Next]_vars => IInv'
  <1> SUFFICES ASSUME IInv, [Next]_vars PROVE IInv'
    OBVIOUS
  <1>1. Base /\ Base'
    BY NextBase DEF IInv, Base
  <1>2. ASSUME ~raced' PROVE InTurn'
    <2>1. InTurn
      BY <1>2 DEF IInv, Next, Caller, connection_connect, connect_socket, connect_wait,
             connect_spawn, connect_fail, connection_disconnect, disconnect_handle,
             disconnect_join, disconnect_close, disconnect_finish, connection_send, send_return,
             connection_free, receiver_check, receiver_recv, receiver_lost, receiver_notify,
             peer_leaves, vars
    <2>2. QED
      BY <1>1, <1>2, <2>1, ConnectInTurn, SocketInTurn, WaitInTurn, SpawnInTurn, FailInTurn,
         DisconnectInTurn, JoinInTurn, SendInTurn, OtherInTurn, LostInTurn DEF Next, Caller
  <1>3. QED
    BY <1>1, <1>2 DEF IInv, Base

\* ... which therefore always holds.
LEMMA AlwaysIInv == Spec => []IInv
  BY InitIInv, NextIInv, PTL DEF Spec

\* Every field of struct Connection keeps its type, and a receiver handle names a thread.
THEOREM TypeCorrect == Spec => []TypeOK
  <1>1. IInv => TypeOK
    BY DEF IInv
  <1>2. QED
    BY <1>1, AlwaysIInv, PTL

\* A connection that says it is connected is usable, unless calls have raced.
THEOREM ConnectedStaysUsable == Spec => []ConnectedIsUsable
  <1>1. IInv => ConnectedIsUsable
    BY DEF IInv, InTurn, Quiet, FreedInv, Busy, ConnectedIsUsable
  <1>2. QED
    BY <1>1, AlwaysIInv, PTL

\* There is one reader, it reads from the socket of the connection, and that is open.
THEOREM OneReaderAtATime == Spec => []OneReader
  <1>1. ASSUME IInv, ~raced
        PROVE  /\ Cardinality(Reading) <= 1
               /\ \A r \in Receiver : receiver[r] = "recv" =>
                     receiver_fd[r] = socket_fd /\ socket_fd \in open_fds
               /\ freed => Reading = {}
    <2>1. Reading \subseteq {receiver_thread}
      BY <1>1 DEF IInv, InTurn, Turns
    <2>2. Cardinality(Reading) <= 1
      <3>1. Reading = {} \/ Reading = {receiver_thread}
        BY <2>1
      <3>2. Cardinality({}) = 0 /\ Cardinality({receiver_thread}) = 1
        BY FS_EmptySet, FS_Singleton
      <3>3. QED
        BY <3>1, <3>2
    <2>3. \A r \in Receiver : receiver[r] = "recv" =>
              receiver_fd[r] = socket_fd /\ socket_fd \in open_fds
      BY <1>1 DEF IInv, InTurn, Turns, Reading
    <2>4. freed => Reading = {}
      BY <1>1 DEF IInv, FreedInv, InTurn, Quiet, Busy, Connecting, Disconnecting
    <2>5. QED
      BY <2>2, <2>3, <2>4
  <1>2. IInv => OneReader
    BY <1>1 DEF OneReader
  <1>3. QED
    BY <1>2, AlwaysIInv, PTL

\* A socket that the connection lets go of is closed, unless it was found lost.
THEOREM NoOtherSocketLeaks == Spec => []OnlyLostSocketsLeak
  <1>1. IInv => OnlyLostSocketsLeak
    BY DEF IInv, InTurn, Turns, OnlyLostSocketsLeak
  <1>2. QED
    BY <1>1, AlwaysIInv, PTL

=============================================================================
