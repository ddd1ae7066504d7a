------------------------------- MODULE Queue -------------------------------
(***************************************************************************)
(* The thread-safe message queue of src/core/queue.c: a ring of message    *)
(* pointers guarded by one mutex and two condition variables, and the list *)
(* of messages that were handed to a consumer and not yet settled.         *)
(*                                                                         *)
(* Every call holds the mutex from its first access to its last, so a call *)
(* is one action, with two exceptions: a thread that blocks in             *)
(* pthread_cond_wait leaves the mutex and resumes in a later action, and   *)
(* the loop of queue_process_timeouts takes one step per message it        *)
(* expires, during which the mutex keeps every other action out.           *)
(*                                                                         *)
(* A Message is the address of a heap block: message_create returns one    *)
(* that is not allocated, so an address may come back after message_free.  *)
(***************************************************************************)
EXTENDS Naturals, FiniteSets

CONSTANTS
    Thread,             \* threads that call the queue's functions
    Message,            \* heap addresses of Message structures
    NULL,               \* the null pointer
    Capacity,           \* queue->capacity, the argument of queue_create
    UnackedCapacity,    \* DEFAULT_UNACKED_CAPACITY
    MaxTag              \* bound: the last delivery tag the model hands out

ASSUME ThreadAssumption == IsFiniteSet(Thread)
ASSUME CapacityAssumption == Capacity \in Nat \ {0}
ASSUME UnackedCapacityAssumption == UnackedCapacity \in Nat \ {0}
ASSUME MaxTagAssumption == MaxTag \in Nat
ASSUME NullAssumption == NULL \notin Message

VARIABLES
    live,               \* between queue_create and queue_free
    messages,           \* the ring: slot -> message pointer
    head, tail, size,   \* indices into the ring, and its fill
    unacked,            \* the set of DeliveryInfo entries of unacked_messages
    unacked_capacity,   \* allocated length of unacked_messages
    next_delivery_tag,
    not_empty,          \* threads asleep on the condition not_empty
    not_full,           \* threads asleep on the condition not_full
    pc,                 \* the blocking call a thread is in, or "idle"
    arg,                \* the message a thread inside queue_enqueue carries
    sweep,              \* locals of a running queue_process_timeouts
    allocated,          \* addresses malloc has handed out and free not got back
    fault               \* the queue released or requeued a message it no
                        \* longer owned

ring    == <<messages, head, tail, size>>
acks    == <<unacked, unacked_capacity, next_delivery_tag>>
threads == <<not_empty, not_full, pc, arg>>
heap    == <<allocated, fault>>
vars    == <<live, ring, acks, threads, sweep, heap>>

-----------------------------------------------------------------------------
(***************************************************************************)
(* Types and helpers.                                                      *)
(***************************************************************************)
Slot == 0 .. (Capacity - 1)

MessageStatus == {"DELIVERED", "ACKNOWLEDGED"}

\* The entries keep the order of the array: it only ever grows at its end and
\* is compacted in place, so its order is the order of the tags.
DeliveryInfo ==
    [message : Message, delivery_tag : Nat, status : MessageStatus]

NoSweep == [active |-> FALSE, deadline |-> 0, requeued |-> FALSE]

\* The ring's index arithmetic: the step forward, and the step back as the code
\* computes it on an unsigned size_t.
Wrap(x) == x % Capacity

Advance(i) == Wrap(i + 1)

Mutant_Retreat_stays(i) == Wrap(i + Capacity)

Retreat(i) == Wrap(i + Capacity - 1)

\* The message the i-th dequeue from now would return.
RingAt(i) == messages[Wrap(head + i)]

RingMessages == {RingAt(i) : i \in 0 .. (size - 1)}

Delivered == {e \in unacked : e.status = "DELIVERED"}

DeliveredMessages == {e.message : e \in Delivered}

CarriedMessages == {arg[t] : t \in {u \in Thread : pc[u] = "enqueue"}}

\* A thread that is not inside a call can make one, and gets the mutex when no
\* timeout pass holds it.
Idle(t) == pc[t] = "idle"

MutexFree == live /\ ~sweep.active

CallEnters == MutexFree /\ \E t \in Thread : Idle(t)

\* pthread_cond_signal: one of the sleepers wakes, if there is one.
SignalNotEmpty ==
    \/ not_empty = {} /\ UNCHANGED not_empty
    \/ \E t \in not_empty : not_empty' = not_empty \ {t}

Mutant_SignalNotFull_missing == UNCHANGED not_full

SignalNotFull ==
    \/ not_full = {} /\ UNCHANGED not_full
    \/ \E t \in not_full : not_full' = not_full \ {t}

\* The entries that a clean-up loop leaves in place.
Unmarked(entries) == {e \in entries : e.status # "ACKNOWLEDGED"}

-----------------------------------------------------------------------------
(***************************************************************************)
(* queue_create and queue_free.                                            *)
(***************************************************************************)
FreshQueue ==
    /\ messages' = [i \in Slot |-> NULL]
    /\ head' = 0 /\ tail' = 0 /\ size' = 0
    /\ unacked' = {}
    /\ unacked_capacity' = UnackedCapacity
    /\ next_delivery_tag' = 1

\* A failed allocation or initialisation undoes the earlier ones and returns
\* NULL: nothing has changed.
queue_create ==
    /\ ~live
    /\ \/ live' = TRUE /\ FreshQueue
       \/ UNCHANGED <<live, ring, acks>>
    /\ UNCHANGED <<threads, sweep, heap>>

\* The caller must see to it that no thread is inside another call: the mutex
\* and the conditions are destroyed under it. The fields are given their
\* initial values for want of any others.
queue_free ==
    /\ MutexFree
    /\ \A t \in Thread : Idle(t)
    /\ allocated' = allocated \ (RingMessages \union DeliveredMessages)
    /\ live' = FALSE
    /\ FreshQueue
    /\ UNCHANGED <<threads, sweep, fault>>

-----------------------------------------------------------------------------
(***************************************************************************)
(* Enqueueing.                                                             *)
(***************************************************************************)
\* The part that queue_enqueue and queue_try_enqueue share.
Mutant_PutTail_unguarded(m) ==
    /\ messages' = [messages EXCEPT ![tail] = m]
    /\ tail' = Advance(tail)
    /\ size' = size + 1
    /\ SignalNotEmpty
    /\ UNCHANGED head

PutTail(m) ==
    /\ size # Capacity
    /\ messages' = [messages EXCEPT ![tail] = m]
    /\ tail' = Advance(tail)
    /\ size' = size + 1
    /\ SignalNotEmpty
    /\ UNCHANGED head

\* A thread calls queue_enqueue with a message it has just created.
queue_enqueue(t, m) ==
    /\ MutexFree
    /\ Idle(t)
    /\ m \notin allocated
    /\ allocated' = allocated \union {m}
    /\ \/ /\ PutTail(m)
          /\ UNCHANGED <<not_full, pc, arg>>
       \/ /\ size = Capacity
          /\ not_full' = not_full \union {t}
          /\ pc' = [pc EXCEPT ![t] = "enqueue"]
          /\ arg' = [arg EXCEPT ![t] = m]
          /\ UNCHANGED <<ring, not_empty>>
    /\ UNCHANGED <<live, acks, sweep, fault>>

\* A thread woken inside queue_enqueue tests the loop condition again.
enqueue_resume(t) ==
    /\ MutexFree
    /\ pc[t] = "enqueue" /\ t \notin not_full
    /\ \/ /\ PutTail(arg[t])
          /\ pc' = [pc EXCEPT ![t] = "idle"]
          /\ arg' = [arg EXCEPT ![t] = NULL]
          /\ UNCHANGED not_full
       \/ /\ size = Capacity
          /\ not_full' = not_full \union {t}
          /\ UNCHANGED <<ring, not_empty, pc, arg>>
    /\ UNCHANGED <<live, acks, sweep, heap>>

\* When the queue is full the caller keeps the message and disposes of it.
queue_try_enqueue(m) ==
    /\ CallEnters
    /\ m \notin allocated
    /\ \/ PutTail(m) /\ allocated' = allocated \union {m}
       \/ size = Capacity /\ UNCHANGED <<ring, not_empty, allocated>>
    /\ UNCHANGED <<live, acks, not_full, pc, arg, sweep, fault>>

-----------------------------------------------------------------------------
(***************************************************************************)
(* Dequeueing.                                                             *)
(***************************************************************************)
\* The bound on tags: a call that could take a message past it does not start.
TagBudget ==
    next_delivery_tag + Cardinality({t \in Thread : pc[t] = "dequeue"}) <= MaxTag

Mutant_UnackedIsFull_late == Cardinality(unacked) > unacked_capacity

UnackedIsFull == Cardinality(unacked) >= unacked_capacity

\* add_to_unacked, when realloc (if it is needed) succeeds.
add_to_unacked(m) ==
    /\ unacked_capacity' =
           IF UnackedIsFull THEN 2 * unacked_capacity ELSE unacked_capacity
    /\ unacked' = unacked \union
           {[message |-> m, delivery_tag |-> next_delivery_tag,
             status |-> "DELIVERED"]}
    /\ next_delivery_tag' = next_delivery_tag + 1

\* The part that queue_dequeue and queue_try_dequeue share. When the list of
\* deliveries cannot grow, the head moves back and nothing is signalled.
TakeHead ==
    /\ size # 0
    /\ \/ /\ head' = Advance(head)
          /\ size' = size - 1
          /\ add_to_unacked(messages[head])
          /\ SignalNotFull
       \/ /\ UnackedIsFull
          /\ head' = Retreat(Advance(head))
          /\ size' = (size - 1) + 1
          /\ UNCHANGED <<acks, not_full>>
    /\ UNCHANGED <<messages, tail>>

queue_dequeue(t) ==
    /\ MutexFree
    /\ Idle(t)
    /\ TagBudget
    /\ \/ /\ TakeHead
          /\ UNCHANGED <<not_empty, pc>>
       \/ /\ size = 0
          /\ not_empty' = not_empty \union {t}
          /\ pc' = [pc EXCEPT ![t] = "dequeue"]
          /\ UNCHANGED <<ring, acks, not_full>>
    /\ UNCHANGED <<live, arg, sweep, heap>>

\* A thread woken inside queue_dequeue tests the loop condition again.
dequeue_resume(t) ==
    /\ MutexFree
    /\ pc[t] = "dequeue" /\ t \notin not_empty
    /\ \/ /\ TakeHead
          /\ pc' = [pc EXCEPT ![t] = "idle"]
          /\ UNCHANGED not_empty
       \/ /\ size = 0
          /\ not_empty' = not_empty \union {t}
          /\ UNCHANGED <<ring, acks, not_full, pc>>
    /\ UNCHANGED <<live, arg, sweep, heap>>

queue_try_dequeue ==
    /\ CallEnters
    /\ TagBudget
    /\ \/ TakeHead
       \/ size = 0 /\ UNCHANGED <<ring, acks, not_full>>
    /\ UNCHANGED <<live, not_empty, pc, arg, sweep, heap>>

\* pthread_cond_wait may return without a signal.
spurious_wakeup(t) ==
    /\ live
    /\ t \in not_empty \union not_full
    /\ not_empty' = not_empty \ {t}
    /\ not_full' = not_full \ {t}
    /\ UNCHANGED <<live, ring, acks, pc, arg, sweep, heap>>

-----------------------------------------------------------------------------
(***************************************************************************)
(* Settling a delivery.                                                    *)
(***************************************************************************)
EntryOf(tag) == {e \in unacked : e.delivery_tag = tag}

\* An entry that is already marked was disposed of when it was marked: its
\* message pointer dangles, whoever owns that address now.
Stale(e) == e.status = "ACKNOWLEDGED"

Mutant_PutHead_writesOldSlot(m) ==
    /\ head' = Retreat(head)
    /\ messages' = [messages EXCEPT ![head] = m]
    /\ size' = size + 1
    /\ UNCHANGED tail

Mutant_PutHead_atTail(m) ==
    /\ tail' = Advance(tail)
    /\ messages' = [messages EXCEPT ![tail] = m]
    /\ size' = size + 1
    /\ UNCHANGED head

PutHead(m) ==
    /\ head' = Retreat(head)
    /\ messages' = [messages EXCEPT ![Retreat(head)] = m]
    /\ size' = size + 1
    /\ UNCHANGED tail

\* Finds the entry by its tag alone, frees its message, and removes every
\* marked entry.
queue_ack(tag) ==
    /\ CallEnters
    /\ \/ \E e \in EntryOf(tag) :
            /\ allocated' = allocated \ {e.message}
            /\ fault' = (fault \/ Stale(e))
            /\ unacked' = Unmarked(unacked \ {e})
       \/ EntryOf(tag) = {} /\ UNCHANGED <<heap, unacked>>
    /\ UNCHANGED <<live, ring, unacked_capacity, next_delivery_tag, threads,
                   sweep>>

\* Without requeue, or when the queue is full, the message is freed.
queue_reject(tag, requeue) ==
    /\ CallEnters
    /\ \/ \E e \in EntryOf(tag) :
            /\ fault' = (fault \/ Stale(e))
            /\ unacked' = Unmarked(unacked \ {e})
            /\ \/ /\ requeue /\ size # Capacity
                  /\ PutHead(e.message)
                  /\ UNCHANGED allocated
               \/ /\ ~requeue \/ size = Capacity
                  /\ allocated' = allocated \ {e.message}
                  /\ UNCHANGED ring
       \/ EntryOf(tag) = {} /\ UNCHANGED <<heap, unacked, ring>>
    /\ UNCHANGED <<live, unacked_capacity, next_delivery_tag, threads, sweep>>

-----------------------------------------------------------------------------
(***************************************************************************)
(* queue_process_timeouts. The clock is read once. Delivery times do not   *)
(* decrease with the tags, so the deliveries that have timed out are those *)
(* up to some tag, the deadline.                                           *)
(***************************************************************************)
process_timeouts_begin(deadline) ==
    /\ CallEnters
    /\ sweep' = [active |-> TRUE, deadline |-> deadline, requeued |-> FALSE]
    /\ UNCHANGED <<live, ring, acks, threads, heap>>

TimedOut == {e \in Delivered : e.delivery_tag <= sweep.deadline}

\* The next turn of the loop that finds a timed-out delivery.
process_timeouts_expire ==
    /\ sweep.active
    /\ \E e \in TimedOut :
         /\ \A f \in TimedOut : e.delivery_tag <= f.delivery_tag
         /\ unacked' = (unacked \ {e}) \union
                           {[e EXCEPT !.status = "ACKNOWLEDGED"]}
         /\ \/ /\ size < Capacity
               /\ PutHead(e.message)
               /\ sweep' = [sweep EXCEPT !.requeued = TRUE]
               /\ UNCHANGED allocated
            \/ /\ size >= Capacity
               /\ allocated' = allocated \ {e.message}
               /\ UNCHANGED <<ring, sweep>>
    /\ UNCHANGED <<live, unacked_capacity, next_delivery_tag, threads, fault>>

\* The clean-up after the loop runs only if something was requeued.
process_timeouts_end ==
    /\ sweep.active
    /\ TimedOut = {}
    /\ unacked' = IF sweep.requeued THEN Unmarked(unacked) ELSE unacked
    /\ sweep' = NoSweep
    /\ UNCHANGED <<live, ring, unacked_capacity, next_delivery_tag, threads,
                   heap>>

-----------------------------------------------------------------------------
Init ==
    /\ live = FALSE
    /\ messages = [i \in Slot |-> NULL]
    /\ head = 0 /\ tail = 0 /\ size = 0
    /\ unacked = {}
    /\ unacked_capacity = UnackedCapacity
    /\ next_delivery_tag = 1
    /\ not_empty = {} /\ not_full = {}
    /\ pc = [t \in Thread |-> "idle"]
    /\ arg = [t \in Thread |-> NULL]
    /\ sweep = NoSweep
    /\ allocated = {}
    /\ fault = FALSE

Next ==
    \/ queue_create
    \/ queue_free
    \/ \E t \in Thread, m \in Message : queue_enqueue(t, m)
    \/ \E t \in Thread : enqueue_resume(t)
    \/ \E m \in Message : queue_try_enqueue(m)
    \/ \E t \in Thread : queue_dequeue(t)
    \/ \E t \in Thread : dequeue_resume(t)
    \/ queue_try_dequeue
    \/ \E t \in Thread : spurious_wakeup(t)
    \/ \E tag \in 1 .. MaxTag : queue_ack(tag)
    \/ \E tag \in 1 .. MaxTag, requeue \in BOOLEAN : queue_reject(tag, requeue)
    \/ \E deadline \in 0 .. MaxTag : process_timeouts_begin(deadline)
    \/ process_timeouts_expire
    \/ process_timeouts_end

Spec == Init /\ [][Next]_vars

-----------------------------------------------------------------------------
(***************************************************************************)
(* Properties that hold.                                                   *)
(***************************************************************************)
\* Every field of struct Queue, and every local of a call in progress, stays
\* within its type; in particular the ring never overflows its capacity and
\* only message pointers are handed out.
TypeOK ==
    /\ live \in BOOLEAN
    /\ messages \in [Slot -> Message \union {NULL}]
    /\ head \in Slot /\ tail \in Slot
    /\ size \in 0 .. Capacity
    /\ unacked \subseteq DeliveryInfo /\ IsFiniteSet(unacked)
    /\ unacked_capacity \in Nat \ {0}
    /\ next_delivery_tag \in Nat \ {0}
    /\ not_empty \subseteq Thread /\ not_full \subseteq Thread
    /\ pc \in [Thread -> {"idle", "enqueue", "dequeue"}]
    /\ arg \in [Thread -> Message \union {NULL}]
    /\ sweep \in [active : BOOLEAN, deadline : Nat, requeued : BOOLEAN]
    /\ allocated \subseteq Message
    /\ fault \in BOOLEAN

\* The redundant tail index agrees with head and size, although enqueueing
\* moves the tail, dequeueing and requeueing move the head in both directions,
\* and a failed dequeue moves it there and back.
RingConsistent == tail = Wrap(head + size)

\* unacked_messages is never written past its allocated length, whether
\* add_to_unacked grew it, failed to, or found room left by a clean-up.
UnackedInBounds == Cardinality(unacked) <= unacked_capacity

AwakeEnqueuers == {t \in Thread : pc[t] = "enqueue" /\ t \notin not_full}
AwakeDequeuers == {t \in Thread : pc[t] = "dequeue" /\ t \notin not_empty}

\* No signal of not_full is lost: while a producer sleeps in queue_enqueue, at
\* least as many producers are awake and about to look as there are free
\* slots, whatever queue_try_enqueue and requeueing do in between.
NoLostWakeupFull ==
    not_full # {} => Capacity - size <= Cardinality(AwakeEnqueuers)

\* As long as no disposed delivery was settled again, every allocated message
\* has exactly one owner: one slot of the ring, one delivery in progress, or
\* one thread blocked in queue_enqueue. Nothing leaks and nothing is shared.
Ownership ==
    ~fault =>
        /\ allocated = RingMessages \union DeliveredMessages \union CarriedMessages
        /\ RingMessages \intersect DeliveredMessages = {}
        /\ (RingMessages \union DeliveredMessages) \intersect CarriedMessages = {}
        /\ \A i, j \in 0 .. (size - 1) : RingAt(i) = RingAt(j) => i = j
        /\ \A e, f \in Delivered : e.message = f.message => e = f

RingSequence == [i \in 1 .. size |-> RingAt(i - 1)]

Promise == INSTANCE QueueSpec WITH
    ready     <- RingSequence,
    delivered <- {[message |-> e.message, delivery_tag |-> e.delivery_tag] :
                     e \in Delivered},
    next_tag  <- next_delivery_tag,
    void      <- fault

\* The ring, the two conditions and the list of deliveries implement the
\* bounded queue with redelivery of QueueSpec: first in, first out, requeued
\* messages in front, one fresh tag per delivery, each delivery settled once.
\* (Once an entry of a freed message is settled again, QueueSpec promises nothing.)
KeepsPromise == Promise!Spec

-----------------------------------------------------------------------------
(***************************************************************************)
(* Statements of the sources that the code does not keep.                  *)
(***************************************************************************)
\* queue.h: queue_dequeue "blocks if queue is empty". A consumer is left
\* asleep beside a message, with nobody on the way to take it, because neither
\* queue_reject nor queue_process_timeouts signals not_empty when it requeues,
\* nor does a dequeue that puts its message back.
DequeueBlocksOnlyIfEmpty ==
    not_empty # {} /\ size # 0 => AwakeDequeuers # {}

\* queue.h on queue_ack and queue_reject: "0 if the delivery tag is not found".
\* A pass that could requeue nothing leaves its marked entries in the list, and
\* their tags are still found: the message is freed, or requeued, again.
SettledOnce == ~fault

=============================================================================
