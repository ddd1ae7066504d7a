------------------------------- MODULE Client -------------------------------
(***************************************************************************)
(* The C++ client (src/wrapper/client.cpp) on top of its connection        *)
(* (module Connection). Threads of the program call connect, publish,      *)
(* consume, get, disconnect and the destructor; the receiver thread of the *)
(* connection calls onMessageCallback. Both sides use the context, the     *)
(* program's threads and the receiver thread, and no lock guards it.       *)
(***************************************************************************)
EXTENDS Naturals, FiniteSets

CONSTANTS
    Thread,         \* threads of the program
    NULL,
    MaxSocket,      \* bound: how often the client connects
    MaxMessage      \* bound: how many messages arrive

ASSUME ThreadAssumption == IsFiniteSet(Thread)
ASSUME BoundsAssumption == MaxSocket \in Nat /\ MaxMessage \in Nat
ASSUME NullAssumption ==
    NULL \notin Thread /\ NULL \notin 1 .. MaxSocket /\ NULL \notin 0 .. MaxMessage

VARIABLES
    status, running, socket_fd, receiver_thread, sockets, open_fds, peer, receiver,
    receiver_fd, pc, local, freed, raced    \* see module Connection

C == INSTANCE Connection

connection == <<status, running, socket_fd, receiver_thread, sockets, open_fds, peer,
                receiver, receiver_fd, pc, local, freed, raced>>

\* Messages are numbered as they arrive.
Message == 1 .. MaxMessage

\* What is in a promise that has no message yet.
Empty == 0

VARIABLES
    call,           \* what a thread is doing inside the client
    promise,        \* the promise on the stack of get: NULL when there is none,
                    \* Empty, or the message it was given
    messagePromise, \* the context's pointer to a promise: the thread whose
                    \* stack it points to, or NULL
    consumer,       \* the context has a consumer
    callback,       \* where onMessageCallback is in a receiver thread
    message, saw,   \* its argument, and the pointer it has loaded
    arrived,        \* how many messages have arrived
    place,          \* where a message is
    deleted,        \* the context was deleted
    double_free,    \* a message was freed twice
    dangling,       \* a promise was used that was not there, or had a message
    late,           \* history: a get gave up while onMessageCallback was about
                    \* to use its promise
    disturbed       \* history: a get began before the one before it was over, or
                    \* before onMessageCallback had cleared its pointer

context == <<messagePromise, consumer, deleted>>
handler == <<callback, message, saw>>
ends    == <<double_free, dangling>>
history == <<late, disturbed>>
wrapper == <<call, promise, context, handler, arrived, place, ends, history>>
vars    == <<connection, wrapper>>

Ending == \E t \in Thread : call[t] \in {"destroy", "delete"}

\* A thread may call the client; the destructor comes after all other calls.
Free(t) == call[t] = "none" /\ pc[t] = "idle" /\ ~Ending /\ ~deleted

-----------------------------------------------------------------------------
(***************************************************************************)
(* Calls that go to the connection.                                        *)
(***************************************************************************)
\* The program sees to it that a disconnect overlaps with no connect and no other
\* disconnect: module Connection tells what happens otherwise.
Alone == \A t \in Thread : ~C!Connecting(t) /\ ~C!Disconnecting(t)

connect(t) == Free(t) /\ Alone /\ C!connection_connect(t) /\ UNCHANGED wrapper

disconnect(t) == Free(t) /\ Alone /\ C!connection_disconnect(t) /\ UNCHANGED wrapper

\* Throws if the client is not connected, or if the send fails.
publish(t) == Free(t) /\ C!connection_send(t) /\ UNCHANGED wrapper

goes_on(t) == C!Caller(t) /\ UNCHANGED wrapper

\* The destructor disconnects, frees the connection and deletes the context. A
\* disconnect of what is not connected returns at once.
destroy(t) ==
    /\ \A u \in Thread : Free(u)
    /\ call' = [call EXCEPT ![t] = "destroy"]
    /\ UNCHANGED <<connection, promise, context, handler, arrived, place, ends, history>>

destroy_disconnect(t) ==
    /\ call[t] = "destroy"
    /\ C!connection_disconnect(t)
    /\ UNCHANGED wrapper

destroy_free(t) ==
    /\ call[t] = "destroy"
    /\ C!connection_free(t)
    /\ call' = [call EXCEPT ![t] = "delete"]
    /\ UNCHANGED <<promise, context, handler, arrived, place, ends, history>>

destroy_delete(t) ==
    /\ call[t] = "delete"
    /\ deleted' = TRUE
    /\ call' = [call EXCEPT ![t] = "none"]
    /\ UNCHANGED <<connection, promise, messagePromise, consumer, handler, arrived, place,
                   ends, history>>

-----------------------------------------------------------------------------
(***************************************************************************)
(* consume and get. Without a connection they throw.                       *)
(***************************************************************************)
consume(t) ==
    /\ Free(t) /\ status = "CONNECTED"
    /\ consumer' = TRUE
    /\ UNCHANGED <<connection, call, promise, messagePromise, deleted, handler, arrived,
                   place, ends, history>>

get(t) ==
    /\ Free(t) /\ status = "CONNECTED"
    /\ call' = [call EXCEPT ![t] = "get"]
    /\ promise' = [promise EXCEPT ![t] = Empty]
    /\ messagePromise' = t
    /\ disturbed' = (\/ disturbed
                     \/ \E u \in Thread : call[u] # "none"
                     \/ \E r \in C!Receiver : callback[r] = "clear")
    /\ UNCHANGED <<connection, consumer, deleted, handler, arrived, place, ends, late>>

\* The future is ready and is returned; the promise goes with the stack frame.
get_return(t) ==
    /\ call[t] = "get" /\ promise[t] \in Message
    /\ place' = [place EXCEPT ![promise[t]] = "program"]
    /\ promise' = [promise EXCEPT ![t] = NULL]
    /\ call' = [call EXCEPT ![t] = "none"]
    /\ UNCHANGED <<connection, context, handler, arrived, ends, history>>

\* wait_for returns without a message, ...
get_timeout(t) ==
    /\ call[t] = "get" /\ promise[t] = Empty
    /\ call' = [call EXCEPT ![t] = "timeout"]
    /\ UNCHANGED <<connection, promise, context, handler, arrived, place, ends, history>>

Mutant_Forgets_notAtAll(t) == UNCHANGED messagePromise

Forgets(t) == messagePromise' = NULL

\* ... and get throws. A message that came in between goes with the future.
get_throw(t) ==
    /\ call[t] = "timeout"
    /\ Forgets(t)
    /\ promise' = [promise EXCEPT ![t] = NULL]
    /\ place' = [m \in Message |-> IF m = promise[t] THEN "freed" ELSE place[m]]
    /\ call' = [call EXCEPT ![t] = "none"]
    /\ late' = (late \/ \E r \in C!Receiver : callback[r] = "fulfil")
    /\ UNCHANGED <<connection, consumer, deleted, handler, arrived, ends, disturbed>>

-----------------------------------------------------------------------------
(***************************************************************************)
(* The receiver thread, and onMessageCallback.                             *)
(***************************************************************************)
Receives(r, l) == callback' = [callback EXCEPT ![r] = l]

\* The connection's receiver thread, when it is not in the callback.
receiver_goes_on(r) ==
    /\ callback[r] = "none"
    /\ \/ C!receiver_check(r)
       \/ C!receiver_recv(r)
       \/ C!receiver_lost(r)
       \/ C!receiver_notify(r)
    /\ UNCHANGED wrapper

\* receive_message_data returns a message, which it can do as long as the other
\* end has sent one, even if that end has closed since.
on_message(r) ==
    /\ C!receiver_recv(r)
    /\ receiver_fd[r] \in open_fds /\ peer[receiver_fd[r]] \in {"open", "closed"}
    /\ arrived < MaxMessage
    /\ arrived' = arrived + 1
    /\ place' = [place EXCEPT ![arrived + 1] = "callback"]
    /\ message' = [message EXCEPT ![r] = arrived + 1]
    /\ Receives(r, "promise")
    /\ UNCHANGED <<call, promise, context, saw, ends, history>>

Mutant_ForGet_always == TRUE

\* The message is for a get.
ForGet == messagePromise # NULL

callback_promise(r) ==
    /\ callback[r] = "promise"
    /\ saw' = [saw EXCEPT ![r] = messagePromise]
    /\ Receives(r, IF ForGet THEN "fulfil" ELSE "consumer")
    /\ UNCHANGED <<connection, call, promise, context, message, arrived, place, ends, history>>

\* The pointer leads to a promise that is there and has no message.
Fulfillable(p) == p # NULL /\ promise[p] = Empty

\* The pointer may be loaded again, or the value loaded before be used. If the
\* promise already has a message, set_value throws, and the message is freed with
\* the argument and again by the clause that catches the exception.
callback_fulfil(r) ==
    /\ callback[r] = "fulfil"
    /\ \E p \in {saw[r], messagePromise} :
         \/ /\ Fulfillable(p)
            /\ promise' = [promise EXCEPT ![p] = message[r]]
            /\ place' = [place EXCEPT ![message[r]] = "promise"]
            /\ Receives(r, "clear")
            /\ UNCHANGED dangling
         \/ /\ ~Fulfillable(p)
            /\ dangling' = TRUE
            /\ UNCHANGED <<promise, place, callback>>
    /\ UNCHANGED <<connection, call, context, message, saw, arrived, double_free, history>>

Mutant_Clears_notAtAll == UNCHANGED messagePromise

Clears == messagePromise' = NULL

callback_clear(r) ==
    /\ callback[r] = "clear"
    /\ Clears
    /\ Receives(r, "none")
    /\ UNCHANGED <<connection, call, promise, consumer, deleted, message, saw, arrived,
                   place, ends, history>>

Mutant_callback_consumer_leaks(r) ==
    /\ callback[r] = "consumer"
    /\ Receives(r, IF consumer THEN "handle" ELSE "none")
    /\ UNCHANGED <<connection, call, promise, context, message, saw, arrived, place, ends,
                   history>>

\* Without a consumer, the message is freed.
callback_consumer(r) ==
    /\ callback[r] = "consumer"
    /\ Receives(r, IF consumer THEN "handle" ELSE "none")
    /\ place' = IF consumer THEN place ELSE [place EXCEPT ![message[r]] = "freed"]
    /\ UNCHANGED <<connection, call, promise, context, message, saw, arrived, ends, history>>

\* A wrapped message is freed with its wrapper, unless it was moved out of it.
Unwrapped(m) == {[place EXCEPT ![m] = w] : w \in {"program", "freed"}}

\* onMessage of the consumer returns: it has kept the message, or the message
\* is freed with its parameter. When it throws, the message is freed with the
\* parameter, and again by the clause that catches the exception.
callback_handle(r) ==
    /\ callback[r] = "handle"
    /\ \/ /\ place' \in Unwrapped(message[r])
          /\ Receives(r, "none")
          /\ UNCHANGED double_free
       \/ double_free' = TRUE /\ UNCHANGED <<place, callback>>
    /\ UNCHANGED <<connection, call, promise, context, message, saw, arrived, dangling,
                   history>>

onMessageCallback(r) ==
    \/ callback_promise(r)
    \/ callback_fulfil(r)
    \/ callback_clear(r)
    \/ callback_consumer(r)
    \/ callback_handle(r)

peer_leaves(s) == C!peer_leaves(s) /\ UNCHANGED wrapper

-----------------------------------------------------------------------------
Init ==
    /\ C!Init
    /\ call = [t \in Thread |-> "none"]
    /\ promise = [t \in Thread |-> NULL]
    /\ messagePromise = NULL /\ consumer = FALSE /\ deleted = FALSE
    /\ callback = [r \in C!Receiver |-> "none"]
    /\ message = [r \in C!Receiver |-> NULL]
    /\ saw = [r \in C!Receiver |-> NULL]
    /\ arrived = 0
    /\ place = [m \in Message |-> "none"]
    /\ double_free = FALSE /\ dangling = FALSE
    /\ late = FALSE /\ disturbed = FALSE

\* Nothing is said of a program that has freed a message twice, or used a
\* promise that is not there, or not empty.
Running == ~double_free /\ ~dangling

Next ==
    /\ Running
    /\ \/ \E t \in Thread :
            \/ connect(t)
            \/ disconnect(t)
            \/ publish(t)
            \/ destroy(t)
            \/ consume(t)
            \/ get(t)
            \/ goes_on(t)
            \/ destroy_disconnect(t)
            \/ destroy_free(t)
            \/ destroy_delete(t)
            \/ get_return(t)
            \/ get_timeout(t)
            \/ get_throw(t)
       \/ \E r \in C!Receiver :
            \/ receiver_goes_on(r)
            \/ on_message(r)
            \/ onMessageCallback(r)
       \/ \E s \in C!Socket : peer_leaves(s)

Spec == Init /\ [][Next]_vars

-----------------------------------------------------------------------------
(***************************************************************************)
(* Properties.                                                             *)
(***************************************************************************)
\* Every field of the context, every promise and every local of onMessageCallback
\* keeps its type, and onMessageCallback uses a pointer only if it was not null.
TypeOK ==
    /\ call \in [Thread -> {"none", "get", "timeout", "destroy", "delete"}]
    /\ promise \in [Thread -> Message \union {NULL, Empty}]
    /\ messagePromise \in Thread \union {NULL} /\ consumer \in BOOLEAN
    /\ callback \in [C!Receiver ->
                       {"none", "promise", "fulfil", "clear", "consumer", "handle"}]
    /\ message \in [C!Receiver -> Message \union {NULL}]
    /\ saw \in [C!Receiver -> Thread \union {NULL}]
    /\ \A r \in C!Receiver : callback[r] = "fulfil" => saw[r] # NULL
    /\ arrived \in 0 .. MaxMessage
    /\ place \in [Message -> {"none", "callback", "promise", "program", "freed"}]
    /\ {deleted, double_free, dangling, late, disturbed} \subseteq BOOLEAN

InCallback == {r \in C!Receiver : callback[r] # "none"}

\* Messages are handled one at a time, in the receiver thread that a disconnect
\* joins: no handler of the program runs once disconnect has joined it, and none
\* uses the context that ~Client deletes.
HandlersInTurn ==
    /\ InCallback \subseteq {receiver_thread}
    /\ InCallback # {} =>
         /\ ~freed /\ ~deleted
         /\ \A t \in Thread : pc[t] \notin {"close", "finish"}

\* onMessageCallback uses the promise of a get that is over only when the get
\* gave up between the test of the pointer and its use.
OnlyLateMessagesDangle == dangling => late

\* A get that waits is known to the context, and the context knows no get that
\* is over, except while onMessageCallback is about to clear the pointer. Gets
\* that overlap, and a get that begins before the pointer was cleared, lose it.
PromiseInPlace ==
    ~disturbed =>
        \A t \in Thread :
            /\ call[t] = "get" /\ promise[t] = Empty => messagePromise = t
            /\ messagePromise = t =>
                 call[t] \in {"get", "timeout"} \/ \E r \in InCallback : callback[r] = "clear"

\* As long as nothing undefined has happened, a message is in one place only: with
\* onMessageCallback, in the promise of one get, with the program, or freed.
MessagesAccounted ==
    Running =>
        \A m \in Message :
            /\ m > arrived <=> place[m] = "none"
            /\ Cardinality({r \in InCallback : callback[r] # "clear" /\ message[r] = m})
                 = (IF place[m] = "callback" THEN 1 ELSE 0)
            /\ Cardinality({t \in Thread : promise[t] = m})
                 = (IF place[m] = "promise" THEN 1 ELSE 0)

=============================================================================
