-------------------------- MODULE QueueRefinement --------------------------
(***************************************************************************)
(* Proofs that every message of the queue of src/core/queue.c has one      *)
(* owner, and that the queue implements the bounded queue with redelivery  *)
(* of module QueueSpec.                                                    *)
(***************************************************************************)
EXTENDS QueueProofs, SequenceTheorems

-----------------------------------------------------------------------------
(***************************************************************************)
(* The second inductive invariant: a tag names one entry and none to come, *)
(* a dead queue holds nothing, and, until a settled delivery is settled    *)
(* again, each message has one owner.                                      *)
(***************************************************************************)
TagsInv ==
    /\ \A e \in unacked : e.delivery_tag < next_delivery_tag
    /\ \A e, f \in unacked : e.delivery_tag = f.delivery_tag => e = f

DeadInv == ~live => size = 0 /\ unacked = {}

RingOnce == \A i, j \in 0 .. (size - 1) : RingAt(i) = RingAt(j) => i = j

DeliveredOnce == \A e, f \in Delivered : e.message = f.message => e = f

CarriedOnce ==
    \A t, u \in Thread :
        pc[t] = "enqueue" /\ pc[u] = "enqueue" /\ arg[t] = arg[u] => t = u

Disjoint ==
    /\ RingMessages \intersect DeliveredMessages = {}
    /\ (RingMessages \union DeliveredMessages) \intersect CarriedMessages = {}

Accounted == allocated = RingMessages \union DeliveredMessages \union CarriedMessages

Owned == Accounted /\ Disjoint /\ RingOnce /\ DeliveredOnce /\ CarriedOnce

OwnInv == IInv /\ TagsInv /\ DeadInv /\ (~fault => Owned)

\* The invariant contains the property it is for.
LEMMA OwnInvImplies == OwnInv => Ownership
  BY DEF OwnInv, Owned, Accounted, Disjoint, RingOnce, DeliveredOnce, Ownership

-----------------------------------------------------------------------------
(***************************************************************************)
(* What the moves do to the set of messages in the ring.                   *)
(***************************************************************************)
\* Enqueueing adds the message, ...
LEMMA PutTailOwns ==
    ASSUME RingInv, NEW m \in Message, PutTail(m)
    PROVE  /\ RingMessages' = RingMessages \union {m}
           /\ RingOnce /\ m \notin RingMessages => RingOnce'
  <1>1. /\ size \in Nat /\ size' = size + 1
        /\ \A i \in 0 .. (size - 1) : RingAt(i)' = RingAt(i)
        /\ \A i \in {size} : RingAt(i)' = m
    BY PutTailWindow DEF RingInv, RingTyped
  <1>2. \A i \in 0 .. (size' - 1) : i \in 0 .. (size - 1) \/ i \in {size}
    BY <1>1
  <1>3. \A i \in (0 .. (size - 1)) \union {size} : i \in 0 .. (size' - 1)
    BY <1>1
  <1>4. RingMessages' = RingMessages \union {m}
    BY <1>1, <1>2, <1>3 DEF RingMessages
  <1>5. ASSUME RingOnce, m \notin RingMessages PROVE RingOnce'
    BY <1>1, <1>2, <1>5 DEF RingOnce, RingMessages
  <1>6. QED
    BY <1>4, <1>5

\* ... requeueing as well, ...
LEMMA PutHeadOwns ==
    ASSUME RingInv, NEW m \in Message, size # Capacity, PutHead(m)
    PROVE  /\ RingMessages' = RingMessages \union {m}
           /\ RingOnce /\ m \notin RingMessages => RingOnce'
  <1>1. /\ size \in Nat /\ size' = size + 1
        /\ RingAt(0)' = m
        /\ \A i \in 0 .. (size - 1) : RingAt(i + 1)' = RingAt(i)
    BY PutHeadWindow DEF RingInv, RingTyped
  <1>2. ASSUME NEW i \in 0 .. (size' - 1)
        PROVE  \/ i = 0 /\ RingAt(i)' = m
               \/ /\ i # 0 /\ i - 1 \in 0 .. (size - 1) 
                  /\ RingAt(i)' = RingAt(i - 1)
    <2>1. CASE i = 0
      BY <1>1, <2>1
    <2>2. CASE i # 0
      <3>1. i - 1 \in 0 .. (size - 1) /\ (i - 1) + 1 = i
        BY <1>1, <2>2
      <3>2. RingAt((i - 1) + 1)' = RingAt(i - 1)
        BY <1>1, <3>1
      <3>3. QED
        BY <2>2, <3>1, <3>2
    <2>3. QED
      BY <2>1, <2>2
  <1>3. 0 \in 0 .. (size' - 1) /\ \A i \in 0 .. (size - 1) : i + 1 \in 0 .. (size' - 1)
    BY <1>1
  <1>4. RingMessages' = RingMessages \union {m}
    BY <1>1, <1>2, <1>3 DEF RingMessages
  <1>5. ASSUME RingOnce, m \notin RingMessages, NEW i \in 0 .. (size' - 1),
               NEW j \in 0 .. (size' - 1), RingAt(i)' = RingAt(j)'
        PROVE  i = j
    <2>1. CASE i = 0 \/ j = 0
      BY <1>2, <1>5, <2>1 DEF RingMessages
    <2>2. CASE i # 0 /\ j # 0
      <3>1. i - 1 = j - 1
        BY <1>2, <1>5, <2>2 DEF RingOnce
      <3>2. QED
        BY <3>1
    <2>3. QED
      BY <2>1, <2>2
  <1>6. RingOnce /\ m \notin RingMessages => RingOnce'
    BY <1>5 DEF RingOnce
  <1>7. QED
    BY <1>4, <1>6

\* ... and dequeueing removes the first one.
LEMMA TakeOwns ==
    ASSUME RingInv, RingOnce, size # 0, head' = Advance(head), size' = size - 1,
           UNCHANGED <<messages, tail>>
    PROVE  /\ messages[head] \in RingMessages
           /\ RingMessages' = RingMessages \ {messages[head]}
           /\ RingOnce'
  <1>1. /\ size \in Nat \ {0}
        /\ messages[head] = RingAt(0)
        /\ \A i \in 0 .. (size - 2) : RingAt(i)' = RingAt(i + 1)
    BY TakeWindow DEF RingInv, RingTyped
  <1>2. /\ 0 \in 0 .. (size - 1)
        /\ \A i \in 0 .. (size' - 1) : /\ i \in 0 .. (size - 2) /\ i + 1 \in 0 .. (size - 1)
                                       /\ i + 1 # 0
        /\ \A i \in 0 .. (size - 1) : i # 0 => i - 1 \in 0 .. (size' - 1) /\ (i - 1) + 1 = i
    BY <1>1
  <1>3. messages[head] \in RingMessages
    BY <1>1, <1>2 DEF RingMessages
  <1>4. RingMessages' \subseteq RingMessages \ {messages[head]}
    BY <1>1, <1>2 DEF RingMessages, RingOnce
  <1>5. ASSUME NEW x \in RingMessages, x # messages[head] PROVE x \in RingMessages'
    <2>1. PICK i \in 0 .. (size - 1) : x = RingAt(i)
      BY DEF RingMessages
    <2>2. i # 0
      BY <1>1, <1>5, <2>1
    <2>3. i - 1 \in 0 .. (size' - 1) /\ (i - 1) + 1 = i
      BY <1>2, <2>2
    <2>4. RingAt(i - 1)' = RingAt((i - 1) + 1)
      BY <1>1, <1>2, <2>3
    <2>5. QED
      BY <2>1, <2>3, <2>4 DEF RingMessages
  <1>6. RingOnce'
    <2>1. SUFFICES ASSUME NEW i \in 0 .. (size' - 1), NEW j \in 0 .. (size' - 1),
                          RingAt(i)' = RingAt(j)'
                   PROVE  i = j
      BY DEF RingOnce
    <2>2. RingAt(i + 1) = RingAt(j + 1)
      BY <1>1, <1>2, <2>1
    <2>3. i + 1 = j + 1
      BY <1>2, <2>2 DEF RingOnce
    <2>4. QED
      BY <2>3
  <1>7. QED
    BY <1>3, <1>4, <1>5, <1>6

\* An empty ring owns nothing, and one that is left alone what it did.
LEMMA EmptyOwns == size = 0 => RingMessages = {} /\ RingOnce
  BY DEF RingMessages, RingOnce

\* A step that does not touch the ring leaves its messages there.
LEMMA RingKept ==
    ASSUME UNCHANGED ring
    PROVE  RingMessages' = RingMessages /\ (RingOnce => RingOnce')
  BY DEF ring, RingMessages, RingOnce, RingAt

-----------------------------------------------------------------------------
(***************************************************************************)
(* What the calls do to the deliveries.                                    *)
(***************************************************************************)
\* A delivery gets a tag that no entry has.
LEMMA AddDelivers ==
    ASSUME AcksInv, TagsInv, NEW m \in Message, add_to_unacked(m)
    PROVE  /\ TagsInv'
           /\ Delivered' = Delivered \union
                  {[message |-> m, delivery_tag |-> next_delivery_tag,
                    status |-> "DELIVERED"]}
           /\ DeliveredMessages' = DeliveredMessages \union {m}
           /\ DeliveredOnce /\ m \notin DeliveredMessages => DeliveredOnce'
  <1> DEFINE e == [message |-> m, delivery_tag |-> next_delivery_tag,
                   status |-> "DELIVERED"]
  <1>1. /\ unacked' = unacked \union {e}
        /\ next_delivery_tag' = next_delivery_tag + 1
        /\ next_delivery_tag \in Nat
        /\ \A f \in unacked : f.delivery_tag \in Nat
    BY DEF add_to_unacked, AcksInv, DeliveryInfo
  <1>2. /\ e.message = m /\ e.delivery_tag = next_delivery_tag
        /\ e.status = "DELIVERED"
    OBVIOUS
  <1> HIDE DEF e
  <1>3. TagsInv'
    BY <1>1, <1>2 DEF TagsInv
  <1>4. Delivered' = Delivered \union {e}
    BY <1>1, <1>2 DEF Delivered
  <1>5. DeliveredMessages' = DeliveredMessages \union {m}
    BY <1>2, <1>4 DEF DeliveredMessages
  <1>6. DeliveredOnce /\ m \notin DeliveredMessages => DeliveredOnce'
    BY <1>2, <1>4 DEF DeliveredMessages, DeliveredOnce
  <1>7. QED
    BY <1>3, <1>4, <1>5, <1>6 DEF e

\* Settling a delivery, and letting it time out, ends that delivery alone.
LEMMA SettleEnds ==
    ASSUME NEW e \in unacked, e.status = "DELIVERED",
           \/ unacked' = Unmarked(unacked \ {e})
           \/ unacked' = (unacked \ {e}) \union {[e EXCEPT !.status = "ACKNOWLEDGED"]},
           AcksInv
    PROVE  e \in Delivered /\ Delivered' = Delivered \ {e}
  <1>1. CASE unacked' = Unmarked(unacked \ {e})
    BY <1>1 DEF Delivered, Unmarked
  <1>2. CASE unacked' = (unacked \ {e}) \union {[e EXCEPT !.status = "ACKNOWLEDGED"]}
    <2>1. [e EXCEPT !.status = "ACKNOWLEDGED"].status # "DELIVERED"
      BY DEF AcksInv, DeliveryInfo
    <2>2. QED
      BY <1>2, <2>1 DEF Delivered
  <1>3. QED
    BY <1>1, <1>2

\* The end of a delivery takes its message out of the delivered ones.
LEMMA EndDisowns ==
    ASSUME DeliveredOnce, NEW e \in Delivered, Delivered' = Delivered \ {e}
    PROVE  /\ DeliveredMessages' = DeliveredMessages \ {e.message}
           /\ DeliveredOnce'
           /\ e.message \in DeliveredMessages
  BY DEF DeliveredOnce, DeliveredMessages

\* A step that ends no delivery keeps them.
LEMMA DeliveredKept ==
    ASSUME Delivered' = Delivered
    PROVE  DeliveredMessages' = DeliveredMessages /\ (DeliveredOnce => DeliveredOnce')
  BY DEF DeliveredMessages, DeliveredOnce

\* The tags stay good when entries leave, and when one is marked.
LEMMA TagsShrink ==
    ASSUME TagsInv, unacked' \subseteq unacked, UNCHANGED next_delivery_tag
    PROVE  TagsInv'
  BY DEF TagsInv

\* Acknowledging an entry keeps the tags apart.
LEMMA TagsMark ==
    ASSUME AcksInv, TagsInv, NEW e \in unacked, UNCHANGED next_delivery_tag,
           unacked' = (unacked \ {e}) \union {[e EXCEPT !.status = "ACKNOWLEDGED"]}
    PROVE  TagsInv'
  <1>1. [e EXCEPT !.status = "ACKNOWLEDGED"].delivery_tag = e.delivery_tag
    BY DEF AcksInv, DeliveryInfo
  <1>2. QED
    BY <1>1 DEF TagsInv

-----------------------------------------------------------------------------
(***************************************************************************)
(* What the calls do to the messages that blocked producers carry.         *)
(***************************************************************************)
LEMMA CarriedKept ==
    ASSUME UNCHANGED <<pc, arg>>
    PROVE  CarriedMessages' = CarriedMessages /\ (CarriedOnce => CarriedOnce')
  BY DEF CarriedMessages, CarriedOnce

\* Calls that are no enqueue do not matter either.
LEMMA CarriedByOthers ==
    ASSUME CallsInv, NEW t \in Thread, NEW s \in {"idle", "dequeue"},
           pc[t] # "enqueue", pc' = [pc EXCEPT ![t] = s], arg' = arg
    PROVE  CarriedMessages' = CarriedMessages /\ (CarriedOnce => CarriedOnce')
  <1>1. \A u \in Thread : pc'[u] = "enqueue" <=> pc[u] = "enqueue"
    BY DEF CallsInv
  <1>2. QED
    BY <1>1 DEF CarriedMessages, CarriedOnce

\* A producer that blocks carries its message with it ...
LEMMA BlockCarries ==
    ASSUME CallsInv, NEW t \in Thread, NEW m \in Message, pc[t] # "enqueue",
           pc' = [pc EXCEPT ![t] = "enqueue"], arg' = [arg EXCEPT ![t] = m]
    PROVE  /\ CarriedMessages' = CarriedMessages \union {m}
           /\ CarriedOnce /\ m \notin CarriedMessages => CarriedOnce'
  <1>1. /\ pc'[t] = "enqueue" /\ arg'[t] = m
        /\ \A u \in Thread : u # t => pc'[u] = pc[u] /\ arg'[u] = arg[u]
    BY DEF CallsInv
  <1>2. CarriedMessages' = CarriedMessages \union {m}
    BY <1>1 DEF CarriedMessages
  <1>3. CarriedOnce /\ m \notin CarriedMessages => CarriedOnce'
    BY <1>1 DEF CarriedMessages, CarriedOnce
  <1>4. QED
    BY <1>2, <1>3

\* ... until it has put it into the ring.
LEMMA ResumeDrops ==
    ASSUME CallsInv, CarriedOnce, NEW t \in Thread, pc[t] = "enqueue",
           pc' = [pc EXCEPT ![t] = "idle"], arg' = [arg EXCEPT ![t] = NULL]
    PROVE  /\ arg[t] \in CarriedMessages
           /\ CarriedMessages' = CarriedMessages \ {arg[t]}
           /\ CarriedOnce'
  <1>1. /\ pc'[t] = "idle"
        /\ \A u \in Thread : u # t => pc'[u] = pc[u] /\ arg'[u] = arg[u]
    BY DEF CallsInv
  <1>2. QED
    BY <1>1 DEF CarriedMessages, CarriedOnce

-----------------------------------------------------------------------------
(***************************************************************************)
(* The second invariant is inductive.                                      *)
(***************************************************************************)
LEMMA InitOwnInv == Init => OwnInv
  <1> SUFFICES ASSUME Init PROVE OwnInv
    OBVIOUS
  <1>1. IInv
    BY InitIInv
  <1>2. TagsInv /\ DeadInv
    BY DEF Init, TagsInv, DeadInv
  <1>3. RingMessages = {} /\ RingOnce
    BY EmptyOwns DEF Init
  <1>4. DeliveredMessages = {} /\ DeliveredOnce /\ CarriedMessages = {} /\ CarriedOnce
    BY DEF Init, Delivered, DeliveredMessages, DeliveredOnce, CarriedMessages, CarriedOnce
  <1>5. Owned
    BY <1>3, <1>4 DEF Init, Owned, Accounted, Disjoint
  <1>6. QED
    BY <1>1, <1>2, <1>5 DEF OwnInv

\* A queue made anew owns nothing; its creator has freed what the last one owned.
LEMMA FreshOwns ==
    ASSUME FreshQueue
    PROVE  /\ TagsInv' /\ size' = 0 /\ unacked' = {}
           /\ RingMessages' = {} /\ RingOnce' /\ DeliveredMessages' = {} /\ DeliveredOnce'
  <1>1. size' = 0 /\ unacked' = {}
    BY DEF FreshQueue
  <1>2. QED
    BY <1>1 DEF TagsInv, RingMessages, RingOnce, Delivered, DeliveredMessages, DeliveredOnce

\* The step of a dequeue, whether it delivers or puts its message back.
LEMMA TakeHeadOwns ==
    ASSUME RingInv, AcksInv, TagsInv, TakeHead, Owned,
           CarriedMessages' = CarriedMessages, CarriedOnce', UNCHANGED allocated
    PROVE  Owned'
  <1>1. messages[head] \in Message
    BY RingInvTakeHead
  <1>2. CASE head' = Advance(head) /\ size' = size - 1 /\ add_to_unacked(messages[head])
    <2>1. /\ messages[head] \in RingMessages
          /\ RingMessages' = RingMessages \ {messages[head]}
          /\ RingOnce'
      BY <1>2, TakeOwns DEF TakeHead, Owned
    <2>2. /\ DeliveredMessages' = DeliveredMessages \union {messages[head]}
          /\ DeliveredOnce /\ messages[head] \notin DeliveredMessages => DeliveredOnce'
      BY <1>1, <1>2, AddDelivers
    <2>3. QED
      BY <2>1, <2>2 DEF Owned, Accounted, Disjoint
  <1>3. CASE head' = Retreat(Advance(head)) /\ size' = (size - 1) + 1 /\ UNCHANGED acks
    <2>1. UNCHANGED ring
      BY <1>3, ThereAndBack DEF TakeHead, ring, RingInv, RingTyped
    <2>2. Delivered' = Delivered
      BY <1>3 DEF acks, Delivered
    <2>3. QED
      BY <2>1, <2>2, RingKept, DeliveredKept DEF Owned, Accounted, Disjoint
  <1>4. QED
    BY <1>2, <1>3 DEF TakeHead

\* A delivery has a tag that no delivery had before.
LEMMA TakeHeadTags ==
    ASSUME RingInv, AcksInv, TagsInv, TakeHead
    PROVE  TagsInv'
  BY AddDelivers, RingInvTakeHead DEF TakeHead, acks, TagsInv

\* An enqueued message comes from nowhere or from the thread that carried it.
LEMMA PutTailKeeps ==
    ASSUME RingInv, NEW m \in Message, PutTail(m), Owned, UNCHANGED unacked,
           m \notin RingMessages, m \notin DeliveredMessages,
           CarriedOnce', m \notin CarriedMessages',
           allocated' = RingMessages \union DeliveredMessages \union CarriedMessages' \union {m},
           CarriedMessages' \subseteq CarriedMessages
    PROVE  Owned'
  <1>1. RingMessages' = RingMessages \union {m} /\ RingOnce'
    BY PutTailOwns DEF Owned
  <1>2. DeliveredMessages' = DeliveredMessages /\ DeliveredOnce'
    BY DeliveredKept DEF Delivered, Owned
  <1>3. QED
    BY <1>1, <1>2 DEF Owned, Accounted, Disjoint

\* A settled message is freed, ...
LEMMA SettleFrees ==
    ASSUME Owned, NEW e \in Delivered, Delivered' = Delivered \ {e},
           UNCHANGED ring, UNCHANGED <<pc, arg>>, allocated' = allocated \ {e.message}
    PROVE  Owned'
  <1>1. /\ DeliveredMessages' = DeliveredMessages \ {e.message} /\ DeliveredOnce'
        /\ e.message \in DeliveredMessages
    BY EndDisowns DEF Owned
  <1>2. QED
    BY <1>1, RingKept, CarriedKept DEF Owned, Accounted, Disjoint

\* ... or goes back into the ring.
LEMMA RequeueKeeps ==
    ASSUME RingInv, AcksInv, Owned, NEW e \in Delivered, Delivered' = Delivered \ {e},
           size # Capacity, PutHead(e.message), UNCHANGED <<pc, arg>>, UNCHANGED allocated
    PROVE  Owned'
  <1>1. /\ DeliveredMessages' = DeliveredMessages \ {e.message} /\ DeliveredOnce'
        /\ e.message \in DeliveredMessages /\ e.message \in Message
    BY EndDisowns DEF Owned, Delivered, AcksInv, DeliveryInfo
  <1>2. RingMessages' = RingMessages \union {e.message} /\ RingOnce'
    BY <1>1, PutHeadOwns DEF Owned, Disjoint
  <1>3. QED
    BY <1>1, <1>2, CarriedKept DEF Owned, Accounted, Disjoint

\* Steps that leave ring, deliveries, calls and heap alone.
LEMMA OwnedKept ==
    ASSUME Owned, UNCHANGED ring, Delivered' = Delivered, UNCHANGED allocated,
           CarriedMessages' = CarriedMessages, CarriedOnce'
    PROVE  Owned'
  BY RingKept, DeliveredKept DEF Owned, Accounted, Disjoint

\* Every step leaves each message with one owner ...
LEMMA NextOwnInv == OwnInv /\ [Next]_vars => OwnInv'
  <1> SUFFICES ASSUME OwnInv, [Next]_vars PROVE OwnInv'
    OBVIOUS
  <1>0. IInv' /\ RingInv /\ AcksInv /\ CallsInv /\ RestInv /\ TagsInv /\ DeadInv
    BY NextIInv DEF OwnInv, IInv
  <1> SUFFICES TagsInv' /\ DeadInv' /\ (~fault' => Owned')
    BY <1>0 DEF OwnInv
  <1>1. CASE queue_create
    <2>1. UNCHANGED <<pc, arg, allocated, fault>> /\ size = 0 /\ unacked = {}
      BY <1>0, <1>1 DEF queue_create, threads, heap, DeadInv
    <2>2. CASE live' = TRUE /\ FreshQueue
      <3>1. RingMessages = {} /\ DeliveredMessages = {}
        BY <2>1 DEF RingMessages, DeliveredMessages, Delivered
      <3>2. QED
        BY <2>1, <2>2, <3>1, FreshOwns, CarriedKept DEF OwnInv, DeadInv, Owned, Accounted, Disjoint
    <2>3. CASE UNCHANGED <<live, ring, acks>>
      BY <1>0, <2>1, <2>3, OwnedKept, CarriedKept DEF OwnInv, TagsInv, DeadInv, ring, acks,
             Delivered, Owned
    <2>4. QED
      BY <1>1, <2>2, <2>3 DEF queue_create
  <1>2. CASE queue_free
    <2>1. /\ UNCHANGED <<pc, arg, fault>> /\ FreshQueue
          /\ allocated' = allocated \ (RingMessages \union DeliveredMessages)
      BY <1>2 DEF queue_free, threads
    <2>2. CarriedMessages = {}
      BY <1>2 DEF queue_free, Idle, CarriedMessages
    <2>3. QED
      BY <2>1, <2>2, FreshOwns, CarriedKept DEF OwnInv, DeadInv, Owned, Accounted, Disjoint
  <1>3. ASSUME NEW t \in Thread, NEW m \in Message, queue_enqueue(t, m)
        PROVE  TagsInv' /\ DeadInv' /\ (~fault' => Owned')
    <2>1. /\ UNCHANGED <<live, unacked, next_delivery_tag, fault>> /\ live
          /\ m \notin allocated /\ allocated' = allocated \union {m}
          /\ pc[t] # "enqueue"
      BY <1>3 DEF queue_enqueue, acks, MutexFree, Idle
    <2>2. TagsInv' /\ DeadInv'
      BY <1>0, <2>1 DEF TagsInv, DeadInv
    <2>3. ASSUME PutTail(m), UNCHANGED <<not_full, pc, arg>>, Owned PROVE Owned'
      BY <1>0, <2>1, <2>3, PutTailKeeps, CarriedKept DEF Owned, Accounted
    <2>4. ASSUME pc' = [pc EXCEPT ![t] = "enqueue"], arg' = [arg EXCEPT ![t] = m],
                 UNCHANGED ring, Owned
          PROVE  Owned'
      <3>1. /\ CarriedMessages' = CarriedMessages \union {m}
            /\ CarriedOnce /\ m \notin CarriedMessages => CarriedOnce'
        BY <1>0, <2>1, <2>4, BlockCarries
      <3>2. Delivered' = Delivered
        BY <2>1 DEF Delivered
      <3>3. QED
        BY <2>1, <2>4, <3>1, <3>2, RingKept, DeliveredKept DEF Owned, Accounted, Disjoint
    <2>5. QED
      BY <1>3, <2>1, <2>2, <2>3, <2>4 DEF queue_enqueue, OwnInv
  <1>4. ASSUME NEW t \in Thread, enqueue_resume(t)
        PROVE  TagsInv' /\ DeadInv' /\ (~fault' => Owned')
    <2>1. /\ UNCHANGED <<live, unacked, next_delivery_tag, allocated, fault>> /\ live
          /\ pc[t] = "enqueue" /\ arg[t] \in Message
      BY <1>0, <1>4 DEF enqueue_resume, acks, heap, MutexFree, CallsInv
    <2>2. TagsInv' /\ DeadInv'
      BY <1>0, <2>1 DEF TagsInv, DeadInv
    <2>3. ASSUME PutTail(arg[t]), pc' = [pc EXCEPT ![t] = "idle"],
                 arg' = [arg EXCEPT ![t] = NULL], Owned
          PROVE  Owned'
      <3>1. /\ arg[t] \in CarriedMessages /\ CarriedOnce'
            /\ CarriedMessages' = CarriedMessages \ {arg[t]}
        BY <1>0, <2>1, <2>3, ResumeDrops DEF Owned
      <3>2. /\ arg[t] \notin RingMessages /\ arg[t] \notin DeliveredMessages
            /\ allocated' =
                 RingMessages \union DeliveredMessages \union CarriedMessages' \union {arg[t]}
        BY <2>1, <2>3, <3>1 DEF Owned, Disjoint, Accounted
      <3>3. QED
        BY <1>0, <2>1, <2>3, <3>1, <3>2, PutTailKeeps
    <2>4. ASSUME UNCHANGED <<ring, not_empty, pc, arg>>, Owned PROVE Owned'
      BY <2>1, <2>4, OwnedKept, CarriedKept DEF Delivered, Owned
    <2>5. QED
      BY <1>4, <2>1, <2>2, <2>3, <2>4 DEF enqueue_resume, OwnInv
  <1>5. ASSUME NEW m \in Message, queue_try_enqueue(m)
        PROVE  TagsInv' /\ DeadInv' /\ (~fault' => Owned')
    <2>1. /\ UNCHANGED <<live, unacked, next_delivery_tag, fault, pc, arg>> /\ live
          /\ m \notin allocated
      BY <1>5 DEF queue_try_enqueue, CallEnters, acks, MutexFree
    <2>2. TagsInv' /\ DeadInv'
      BY <1>0, <2>1 DEF TagsInv, DeadInv
    <2>3. ASSUME PutTail(m), allocated' = allocated \union {m}, Owned PROVE Owned'
      BY <1>0, <2>1, <2>3, PutTailKeeps, CarriedKept DEF Owned, Accounted
    <2>4. ASSUME UNCHANGED <<ring, not_empty, allocated>>, Owned PROVE Owned'
      BY <2>1, <2>4, OwnedKept, CarriedKept DEF Delivered, Owned
    <2>5. QED
      BY <1>5, <2>1, <2>2, <2>3, <2>4 DEF queue_try_enqueue, OwnInv
  <1>6. ASSUME UNCHANGED <<live, arg, allocated, fault>>, live,
               CarriedMessages' = CarriedMessages, CarriedOnce => CarriedOnce',
               TakeHead \/ UNCHANGED <<ring, acks>>
        PROVE  TagsInv' /\ DeadInv' /\ (~fault' => Owned')
    <2>1. TagsInv' /\ DeadInv'
      BY <1>0, <1>6, TakeHeadTags DEF TagsInv, DeadInv, acks
    <2>2. ASSUME TakeHead, Owned PROVE Owned'
      BY <1>0, <1>6, <2>2, TakeHeadOwns DEF Owned
    <2>3. ASSUME UNCHANGED <<ring, acks>>, Owned PROVE Owned'
      BY <1>6, <2>3, OwnedKept DEF Delivered, Owned, acks
    <2>4. QED
      BY <1>6, <2>1, <2>2, <2>3 DEF OwnInv
  <1>7. ASSUME NEW t \in Thread, queue_dequeue(t) \/ dequeue_resume(t)
        PROVE  TagsInv' /\ DeadInv' /\ (~fault' => Owned')
    <2>1. /\ UNCHANGED <<live, arg, allocated, fault>> /\ live
          /\ pc[t] # "enqueue"
          /\ pc' = pc \/ \E s \in {"idle", "dequeue"} : pc' = [pc EXCEPT ![t] = s]
          /\ TakeHead \/ UNCHANGED <<ring, acks>>
      BY <1>7 DEF queue_dequeue, dequeue_resume, MutexFree, Idle, heap
    <2>2. CarriedMessages' = CarriedMessages /\ (CarriedOnce => CarriedOnce')
      BY <1>0, <2>1, CarriedKept, CarriedByOthers
    <2>3. QED
      BY <1>6, <2>1, <2>2
  <1>8. CASE queue_try_dequeue
    BY <1>6, <1>8, CarriedKept DEF queue_try_dequeue, CallEnters, MutexFree, heap
  <1>9. ASSUME NEW t \in Thread, spurious_wakeup(t)
        PROVE  TagsInv' /\ DeadInv' /\ (~fault' => Owned')
    BY <1>6, <1>9, CarriedKept DEF spurious_wakeup, heap
  <1>10. ASSUME NEW tag \in 1 .. MaxTag, NEW requeue \in BOOLEAN,
                queue_ack(tag) \/ queue_reject(tag, requeue)
         PROVE  TagsInv' /\ DeadInv' /\ (~fault' => Owned')
    <2>1. /\ UNCHANGED <<live, pc, arg, next_delivery_tag>> /\ live
          /\ unacked' \subseteq unacked
      BY <1>10 DEF queue_ack, queue_reject, CallEnters, MutexFree, threads, Unmarked
    <2>2. TagsInv' /\ DeadInv'
      BY <1>0, <2>1, TagsShrink DEF DeadInv
    <2>3. ASSUME NEW e \in EntryOf(tag), unacked' = Unmarked(unacked \ {e}),
                 fault' = (fault \/ Stale(e)), ~fault',
                 \/ UNCHANGED ring /\ allocated' = allocated \ {e.message}
                 \/ size # Capacity /\ PutHead(e.message) /\ UNCHANGED allocated
          PROVE  Owned'
      <3>1. Owned /\ e \in unacked /\ e.status = "DELIVERED"
        BY <1>0, <2>3 DEF OwnInv, EntryOf, Stale, AcksInv, DeliveryInfo, MessageStatus
      <3>2. e \in Delivered /\ Delivered' = Delivered \ {e}
        BY <1>0, <2>3, <3>1, SettleEnds
      <3>3. QED
        BY <1>0, <2>1, <2>3, <3>1, <3>2, SettleFrees, RequeueKeeps
    <2>4. ASSUME UNCHANGED <<allocated, fault, unacked, ring>>, ~fault'
          PROVE  Owned'
      BY <2>1, <2>4, OwnedKept, CarriedKept DEF Delivered, Owned, OwnInv
    <2>5. CASE queue_ack(tag)
      BY <2>2, <2>3, <2>4, <2>5 DEF queue_ack, heap
    <2>6. CASE queue_reject(tag, requeue)
      BY <2>2, <2>3, <2>4, <2>6 DEF queue_reject, heap
    <2>7. QED
      BY <1>10, <2>5, <2>6
  <1>11. ASSUME NEW deadline \in 0 .. MaxTag, process_timeouts_begin(deadline)
         PROVE  TagsInv' /\ DeadInv' /\ (~fault' => Owned')
    <2>1. UNCHANGED <<live, ring, acks, pc, arg, allocated, fault>>
      BY <1>11 DEF process_timeouts_begin, threads, heap
    <2>2. QED
      BY <1>0, <2>1, OwnedKept, CarriedKept DEF OwnInv, TagsInv, DeadInv, Delivered, Owned, acks,
             ring
  <1>12. CASE process_timeouts_expire
    <2>1. PICK e \in TimedOut :
            /\ unacked' = (unacked \ {e}) \union {[e EXCEPT !.status = "ACKNOWLEDGED"]}
            /\ \/ /\ size < Capacity /\ PutHead(e.message)
                  /\ UNCHANGED allocated
               \/ /\ allocated' = allocated \ {e.message}
                  /\ UNCHANGED ring
      BY <1>12 DEF process_timeouts_expire
    <2>2. /\ UNCHANGED <<live, next_delivery_tag, pc, arg, fault>>
          /\ e \in unacked /\ e.status = "DELIVERED"
          /\ size < Capacity => size # Capacity
      BY <1>0, <1>12, CapacityAssumption DEF process_timeouts_expire, threads, TimedOut, Delivered,
             RingInv, RingTyped
    <2>3. TagsInv' /\ DeadInv'
      BY <1>0, <2>1, <2>2, TagsMark DEF DeadInv
    <2>4. e \in Delivered /\ Delivered' = Delivered \ {e}
      BY <1>0, <2>1, <2>2, SettleEnds
    <2>5. QED
      BY <1>0, <2>1, <2>2, <2>3, <2>4, SettleFrees, RequeueKeeps DEF OwnInv
  <1>13. CASE process_timeouts_end
    <2>1. /\ UNCHANGED <<live, ring, next_delivery_tag, pc, arg, allocated, fault>>
          /\ unacked' \subseteq unacked /\ Delivered' = Delivered
      BY <1>13 DEF process_timeouts_end, threads, heap, Unmarked, Delivered
    <2>2. QED
      BY <1>0, <2>1, TagsShrink, OwnedKept, CarriedKept DEF OwnInv, DeadInv, Owned, ring
  <1>14. CASE UNCHANGED vars
    <2>1. UNCHANGED <<live, ring, acks, pc, arg, allocated, fault>>
      BY <1>14 DEF vars, threads, heap
    <2>2. QED
      BY <1>0, <2>1, OwnedKept, CarriedKept DEF OwnInv, TagsInv, DeadInv, Delivered, Owned, acks,
             ring
  <1>15. QED
    BY <1>1, <1>2, <1>3, <1>4, <1>5, <1>7, <1>8, <1>9, <1>10, <1>11, <1>12, <1>13, <1>14
       DEF Next

\* ... which therefore holds always.
LEMMA AlwaysOwnInv == Spec => []OwnInv
  BY InitOwnInv, NextOwnInv, PTL DEF Spec

\* Every message the queue has taken and not freed is in one slot of the ring, in one
\* delivery or in one blocked queue_enqueue, whatever acks, rejects, timeouts and
\* failed allocations do, until a delivery that was disposed of is settled again.
THEOREM EveryMessageHasOneOwner == Spec => []Ownership
  BY AlwaysOwnInv, OwnInvImplies, PTL

-----------------------------------------------------------------------------
(***************************************************************************)
(* The window of the ring as the sequence of ready messages.               *)
(***************************************************************************)
WindowSeq ==
    /\ RingSequence \in Seq(Message) /\ Len(RingSequence) = size
    /\ \A i \in 1 .. size : RingSequence[i] = RingAt(i - 1)
    /\ size \in Nat /\ size <= Capacity

\* The occupied part of the ring is a sequence of messages.
LEMMA ReadyIsSeq == RingInv => WindowSeq
  <1> SUFFICES ASSUME RingInv PROVE WindowSeq
    OBVIOUS
  <1>1. size \in Nat /\ size <= Capacity
    BY CapacityAssumption DEF RingInv, RingTyped
  <1>2. \A i \in 1 .. size : RingAt(i - 1) \in Message
    BY <1>1 DEF RingInv
  <1>3. RingSequence \in [1 .. size -> Message]
    BY <1>2 DEF RingSequence
  <1>4. RingSequence \in Seq(Message) /\ Len(RingSequence) = size
    BY <1>1, <1>3
  <1>5. QED
    BY <1>1, <1>4 DEF WindowSeq, RingSequence

\* The same of the state after a step.
LEMMA ReadyIsSeqNext == RingInv' => WindowSeq'
  BY ReadyIsSeq, PTL

\* Enqueueing appends, ...
LEMMA ReadyPutTail ==
    ASSUME RingInv, NEW m \in Message, PutTail(m)
    PROVE  Len(RingSequence) < Capacity /\ RingSequence' = Append(RingSequence, m)
  <1> DEFINE s == RingSequence
             t == Append(s, m)
  <1>1. s \in Seq(Message) /\ Len(s) = size /\ size \in Nat /\ size < Capacity
    BY ReadyIsSeq, CapacityAssumption DEF WindowSeq, PutTail
  <1>2. RingInv'
    BY RingInvPutTail
  <1>3. /\ s' \in Seq(Message) /\ Len(s') = size'
        /\ \A i \in 1 .. size' : s'[i] = RingAt(i - 1)'
    BY <1>2, ReadyIsSeqNext DEF WindowSeq
  <1>4. /\ size' = size + 1
        /\ \A i \in 0 .. (size - 1) : RingAt(i)' = RingAt(i)
        /\ \A i \in {size} : RingAt(i)' = m
    BY PutTailWindow DEF RingInv
  <1>5. /\ t \in Seq(Message) /\ Len(t) = size + 1 /\ t[size + 1] = m
        /\ \A i \in 1 .. size : t[i] = s[i]
    BY <1>1, AppendProperties
  <1>6. \A i \in 1 .. size : s[i] = RingAt(i - 1)
    BY ReadyIsSeq DEF WindowSeq
  <1>7. ASSUME NEW i \in 1 .. (size + 1) PROVE s'[i] = t[i]
    <2>1. CASE i \in 1 .. size
      <3>1. i - 1 \in 0 .. (size - 1)
        BY <1>1, <2>1
      <3>2. QED
        BY <1>3, <1>4, <1>5, <1>6, <2>1, <3>1
    <2>2. CASE i = size + 1
      <3>1. i - 1 \in {size}
        BY <1>1, <2>2
      <3>2. QED
        BY <1>3, <1>4, <1>5, <2>2, <3>1
    <2>3. QED
      BY <1>1, <2>1, <2>2
  <1> HIDE DEF s, t
  <1>8. s' = t
    BY <1>1, <1>3, <1>4, <1>5, <1>7, SeqEqual
  <1>9. QED
    BY <1>1, <1>8 DEF s, t

\* ... dequeueing takes the head, ...
LEMMA ReadyTake ==
    ASSUME RingInv, TakeHead, head' = Advance(head), size' = size - 1
    PROVE  /\ RingSequence # <<>> /\ Head(RingSequence) = messages[head]
           /\ RingSequence' = Tail(RingSequence)
  <1> DEFINE s == RingSequence
             t == Tail(s)
  <1>1. s \in Seq(Message) /\ Len(s) = size /\ size \in Nat \ {0}
    BY ReadyIsSeq DEF WindowSeq, TakeHead
  <1>2. RingInv'
    BY RingInvTakeHead
  <1>3. /\ s' \in Seq(Message) /\ Len(s') = size'
        /\ \A i \in 1 .. size' : s'[i] = RingAt(i - 1)'
    BY <1>2, ReadyIsSeqNext DEF WindowSeq
  <1>4. /\ messages[head] = RingAt(0)
        /\ \A i \in 0 .. (size - 2) : RingAt(i)' = RingAt(i + 1)
    BY TakeWindow DEF RingInv, TakeHead
  <1>5. s # <<>>
    BY <1>1
  <1>6. /\ t \in Seq(Message) /\ Len(t) = size - 1
        /\ \A i \in 1 .. (size - 1) : t[i] = s[i + 1]
    BY <1>1, <1>5, HeadTailProperties
  <1>7. \A i \in 1 .. size : s[i] = RingAt(i - 1)
    BY ReadyIsSeq DEF WindowSeq
  <1>8. ASSUME NEW i \in 1 .. (size - 1) PROVE s'[i] = t[i]
    <2>1. /\ i - 1 \in 0 .. (size - 2) /\ (i - 1) + 1 = i /\ (i + 1) - 1 = i
          /\ i + 1 \in 1 .. size /\ i \in 1 .. size'
      BY <1>1
    <2>2. RingAt(i - 1)' = RingAt((i - 1) + 1)
      BY <1>4, <2>1
    <2>3. s[i + 1] = RingAt((i + 1) - 1)
      BY <1>7, <2>1
    <2>4. QED
      BY <1>3, <1>6, <2>1, <2>2, <2>3
  <1>9. Head(s) = messages[head]
    <2>1. 1 \in 1 .. size /\ 1 - 1 = 0
      BY <1>1
    <2>2. Head(s) = s[1]
      BY <1>1, <1>5
    <2>3. s[1] = RingAt(1 - 1)
      BY <1>7, <2>1
    <2>4. QED
      BY <1>4, <2>1, <2>2, <2>3
  <1> HIDE DEF s, t
  <1>10. s' = t
    BY <1>1, <1>3, <1>6, <1>8, SeqEqual
  <1>11. QED
    BY <1>5, <1>9, <1>10 DEF s, t

\* ... and requeueing puts its message in front.
LEMMA ReadyPutHead ==
    ASSUME RingInv, NEW m \in Message, size # Capacity, PutHead(m)
    PROVE  Len(RingSequence) < Capacity /\ RingSequence' = <<m>> \o RingSequence
  <1> DEFINE s == RingSequence
             t == <<m>> \o s
  <1>1. s \in Seq(Message) /\ Len(s) = size /\ size \in Nat /\ size < Capacity
    BY ReadyIsSeq, CapacityAssumption DEF WindowSeq
  <1>2. RingInv'
    BY RingInvPutHead
  <1>3. /\ s' \in Seq(Message) /\ Len(s') = size'
        /\ \A i \in 1 .. size' : s'[i] = RingAt(i - 1)'
    BY <1>2, ReadyIsSeqNext DEF WindowSeq
  <1>4. /\ size' = size + 1
        /\ RingAt(0)' = m
        /\ \A i \in 0 .. (size - 1) : RingAt(i + 1)' = RingAt(i)
    BY PutHeadWindow DEF RingInv
  <1>5. <<m>> \in Seq(Message) /\ Len(<<m>>) = 1 /\ <<m>>[1] = m
    OBVIOUS
  <1>6. /\ t \in Seq(Message) /\ Len(t) = 1 + size
        /\ \A i \in 1 .. (1 + size) : t[i] = IF i <= 1 THEN <<m>>[i] ELSE s[i - 1]
    BY <1>1, <1>5, ConcatProperties
  <1>7. \A i \in 1 .. size : s[i] = RingAt(i - 1)
    BY ReadyIsSeq DEF WindowSeq
  <1>8. ASSUME NEW i \in 1 .. (size + 1) PROVE s'[i] = t[i]
    <2>1. CASE i = 1
      <3>1. i - 1 = 0 /\ i \in 1 .. size' /\ i \in 1 .. (1 + size)
        BY <1>1, <1>4, <2>1
      <3>2. t[i] = m
        BY <1>5, <1>6, <2>1, <3>1
      <3>3. QED
        BY <1>3, <1>4, <3>1, <3>2
    <2>2. CASE i # 1
      <3>1. /\ i - 1 \in 1 .. size /\ (i - 1) - 1 \in 0 .. (size - 1)
            /\ ((i - 1) - 1) + 1 = i - 1 /\ ~(i <= 1) /\ i \in 1 .. size' /\ i \in 1 .. (1 + size)
        BY <1>1, <1>4, <2>2
      <3>2. RingAt(((i - 1) - 1) + 1)' = RingAt((i - 1) - 1)
        BY <1>4, <3>1
      <3>3. t[i] = s[i - 1] /\ s[i - 1] = RingAt((i - 1) - 1)
        BY <1>6, <1>7, <3>1
      <3>4. QED
        BY <1>3, <3>1, <3>2, <3>3
    <2>3. QED
      BY <2>1, <2>2
  <1>9. size + 1 = 1 + size
    BY <1>1
  <1> HIDE DEF s, t
  <1>10. s' = t
    BY <1>3, <1>4, <1>6, <1>8, <1>9, SeqEqual
  <1>11. QED
    BY <1>1, <1>10 DEF s, t

\* It does not change unless the ring does ...
LEMMA ReadyKept == UNCHANGED ring => RingSequence' = RingSequence
  BY DEF ring, RingSequence, RingAt

\* ... and is empty when size is 0.
LEMMA ReadyEmpty == size = 0 => RingSequence = <<>>
  <1> SUFFICES ASSUME size = 0 PROVE RingSequence = <<>>
    OBVIOUS
  <1>1. RingSequence = [i \in 1 .. 0 |-> RingAt(i - 1)]
    BY DEF RingSequence
  <1>2. 1 .. 0 = {}
    OBVIOUS
  <1>3. QED
    BY <1>1, <1>2

-----------------------------------------------------------------------------
(***************************************************************************)
(* The steps of the queue as steps of the promise.                         *)
(***************************************************************************)
Delivery(e) == [message |-> e.message, delivery_tag |-> e.delivery_tag]

InHand == {Delivery(e) : e \in Delivered}

\* Storing a message behind the tail is a Publish.
LEMMA PublishStep ==
    ASSUME RingInv, NEW m \in Message, PutTail(m),
           UNCHANGED <<unacked, next_delivery_tag, fault>>
    PROVE  Promise!Publish(m)
  BY ReadyPutTail DEF Promise!Publish, Delivered

\* Taking the head is a Deliver, or a stutter when the list of deliveries cannot grow.
LEMMA DeliverStep ==
    ASSUME RingInv, AcksInv, TagsInv, TakeHead, UNCHANGED fault
    PROVE  Promise!Deliver \/ UNCHANGED Promise!vars
  <1>1. messages[head] \in Message
    BY RingInvTakeHead
  <1>2. CASE head' = Advance(head) /\ size' = size - 1 /\ add_to_unacked(messages[head])
    <2> DEFINE e == [message |-> messages[head], delivery_tag |-> next_delivery_tag,
                     status |-> "DELIVERED"]
    <2>1. Delivered' = Delivered \union {e}
      BY <1>1, <1>2, AddDelivers
    <2>2. InHand' = InHand \union {Delivery(e)}
      BY <2>1 DEF InHand
    <2>3. Delivery(e) = [message |-> messages[head], delivery_tag |-> next_delivery_tag]
      BY DEF Delivery
    <2>4. next_delivery_tag' = next_delivery_tag + 1
      BY <1>2 DEF add_to_unacked
    <2>5. /\ RingSequence # <<>> /\ Head(RingSequence) = messages[head]
          /\ RingSequence' = Tail(RingSequence)
      BY <1>2, ReadyTake
    <2>6. QED
      BY <2>2, <2>3, <2>4, <2>5 DEF Promise!Deliver, InHand, Delivery
  <1>3. CASE head' = Retreat(Advance(head)) /\ size' = (size - 1) + 1 /\ UNCHANGED acks
    <2>1. UNCHANGED ring
      BY <1>3, ThereAndBack DEF TakeHead, ring, RingInv, RingTyped
    <2>2. QED
      BY <1>3, <2>1, ReadyKept DEF acks, Delivered, Promise!vars
  <1>4. QED
    BY <1>2, <1>3 DEF TakeHead

\* Tags are unique, so that the end of one delivery is the end of one record.
LEMMA EndStep ==
    ASSUME TagsInv, NEW e \in Delivered, Delivered' = Delivered \ {e}
    PROVE  Delivery(e) \in InHand /\ InHand' = InHand \ {Delivery(e)}
  <1>1. \A f \in Delivered : Delivery(f) = Delivery(e) => f = e
    BY DEF Delivery, TagsInv, Delivered
  <1>2. QED
    BY <1>1 DEF InHand

\* The end of a delivery, without requeueing, is a step of QueueSpec.
LEMMA SettleStep ==
    ASSUME TagsInv, NEW e \in Delivered, Delivered' = Delivered \ {e},
           UNCHANGED ring, UNCHANGED <<next_delivery_tag, fault>>
    PROVE  Promise!Next
  <1>1. Delivery(e) \in InHand /\ InHand' = InHand \ {Delivery(e)}
    BY EndStep
  <1>2. Promise!Settle(Delivery(e))
    BY <1>1, ReadyKept DEF Promise!Settle, InHand, Delivery
  <1>3. QED
    BY <1>1, <1>2 DEF Promise!Next, InHand, Delivery

\* So is the return of its message to the front of the ring.
LEMMA RedeliverStep ==
    ASSUME RingInv, AcksInv, TagsInv, NEW e \in Delivered, Delivered' = Delivered \ {e},
           size # Capacity, PutHead(e.message), UNCHANGED <<next_delivery_tag, fault>>
    PROVE  Promise!Next
  <1>1. Delivery(e) \in InHand /\ InHand' = InHand \ {Delivery(e)}
    BY EndStep
  <1>2. e.message \in Message /\ Delivery(e).message = e.message
    BY DEF Delivered, AcksInv, DeliveryInfo, Delivery
  <1>3. Promise!Redeliver(Delivery(e))
    BY <1>1, <1>2, ReadyPutHead DEF Promise!Redeliver, InHand, Delivery
  <1>4. QED
    BY <1>1, <1>3 DEF Promise!Next, InHand, Delivery

\* A queue that is created anew is a Reset.
LEMMA ResetStep ==
    ASSUME FreshQueue, UNCHANGED fault
    PROVE  Promise!Reset
  <1>1. size' = 0 /\ unacked' = {} /\ next_delivery_tag' = 1
    BY DEF FreshQueue
  <1>2. RingSequence' = <<>>
    <2>1. (size = 0 => RingSequence = <<>>)'
      BY ReadyEmpty, PTL
    <2>2. QED
      BY <1>1, <2>1
  <1>3. QED
    BY <1>1, <1>2 DEF Promise!Reset, Delivered

\* A step that touches neither ring nor deliveries is a stutter.
LEMMA StutterStep ==
    ASSUME UNCHANGED ring, Delivered' = Delivered, UNCHANGED <<next_delivery_tag, fault>>
    PROVE  UNCHANGED Promise!vars
  BY ReadyKept DEF Promise!vars

-----------------------------------------------------------------------------
(***************************************************************************)
(* The refinement.                                                         *)
(***************************************************************************)
\* A new queue is an empty promise.
LEMMA InitRefines == Init => Promise!Init
  BY ReadyEmpty DEF Init, Promise!Init, Delivered

\* Every step of the queue is a step of the promise or changes nothing it speaks of.
LEMMA NextRefines == OwnInv /\ [Next]_vars => [Promise!Next]_(Promise!vars)
  <1> DEFINE Goal == Promise!Next \/ UNCHANGED Promise!vars
  <1> SUFFICES ASSUME OwnInv, [Next]_vars PROVE Goal
    OBVIOUS
  <1>0. RingInv /\ AcksInv /\ CallsInv /\ TagsInv
    BY DEF OwnInv, IInv
  <1>1. CASE queue_create
    BY <1>1, ResetStep, StutterStep DEF queue_create, heap, acks, Delivered, Promise!Next
  <1>2. CASE queue_free
    BY <1>2, ResetStep DEF queue_free, Promise!Next
  <1>3. ASSUME NEW t \in Thread, NEW m \in Message, queue_enqueue(t, m)
        PROVE  Goal
    BY <1>0, <1>3, PublishStep, StutterStep DEF queue_enqueue, acks, Delivered, Promise!Next
  <1>4. ASSUME NEW t \in Thread, enqueue_resume(t)
        PROVE  Goal
    <2>1. arg[t] \in Message
      BY <1>0, <1>4 DEF enqueue_resume, CallsInv
    <2>2. QED
      BY <1>0, <1>4, <2>1, PublishStep, StutterStep DEF enqueue_resume, acks, heap, Delivered,
             Promise!Next
  <1>5. ASSUME NEW m \in Message, queue_try_enqueue(m)
        PROVE  Goal
    BY <1>0, <1>5, PublishStep, StutterStep DEF queue_try_enqueue, acks, Delivered, Promise!Next
  <1>6. ASSUME TakeHead \/ UNCHANGED <<ring, acks>>, UNCHANGED fault
        PROVE  Goal
    BY <1>0, <1>6, DeliverStep, StutterStep DEF acks, Delivered, Promise!Next
  <1>7. ASSUME NEW t \in Thread, queue_dequeue(t) \/ dequeue_resume(t) \/ spurious_wakeup(t)
        PROVE  Goal
    BY <1>6, <1>7 DEF queue_dequeue, dequeue_resume, spurious_wakeup, heap
  <1>8. CASE queue_try_dequeue
    BY <1>6, <1>8 DEF queue_try_dequeue, heap
  <1>9. ASSUME NEW tag \in 1 .. MaxTag, NEW requeue \in BOOLEAN,
               queue_ack(tag) \/ queue_reject(tag, requeue)
        PROVE  Goal
    <2>1. UNCHANGED next_delivery_tag
      BY <1>9 DEF queue_ack, queue_reject
    <2>2. ASSUME NEW e \in EntryOf(tag), unacked' = Unmarked(unacked \ {e}),
                 fault' = (fault \/ Stale(e)),
                 \/ UNCHANGED ring
                 \/ size # Capacity /\ PutHead(e.message)
          PROVE  Goal
      <3>1. CASE fault'
        BY <3>1 DEF Promise!Next, Promise!Void
      <3>2. CASE ~fault'
        <4>1. fault' = fault /\ e \in unacked /\ e.status = "DELIVERED"
          BY <1>0, <2>2, <3>2 DEF OwnInv, IInv, RestInv, EntryOf, Stale, AcksInv, DeliveryInfo,
                 MessageStatus
        <4>2. e \in Delivered /\ Delivered' = Delivered \ {e}
          BY <1>0, <2>2, <4>1, SettleEnds
        <4>3. QED
          BY <1>0, <2>1, <2>2, <4>1, <4>2, SettleStep, RedeliverStep
      <3>3. QED
        BY <3>1, <3>2
    <2>3. ASSUME UNCHANGED <<fault, unacked, ring>> PROVE Goal
      BY <2>1, <2>3, StutterStep DEF Delivered
    <2>4. CASE queue_ack(tag)
      BY <2>2, <2>3, <2>4 DEF queue_ack, heap
    <2>5. CASE queue_reject(tag, requeue)
      BY <2>2, <2>3, <2>5 DEF queue_reject, heap
    <2>6. QED
      BY <1>9, <2>4, <2>5
  <1>10. ASSUME NEW deadline \in 0 .. MaxTag, process_timeouts_begin(deadline)
         PROVE  Goal
    BY <1>10, StutterStep DEF process_timeouts_begin, acks, heap, Delivered
  <1>11. CASE process_timeouts_expire
    <2>1. PICK e \in TimedOut :
            /\ unacked' = (unacked \ {e}) \union {[e EXCEPT !.status = "ACKNOWLEDGED"]}
            /\ (size < Capacity /\ PutHead(e.message)) \/ UNCHANGED ring
      BY <1>11 DEF process_timeouts_expire
    <2>2. /\ UNCHANGED <<next_delivery_tag, fault>>
          /\ e \in unacked /\ e.status = "DELIVERED"
          /\ size < Capacity => size # Capacity
      BY <1>0, <1>11, CapacityAssumption DEF process_timeouts_expire, TimedOut, Delivered,
             RingInv, RingTyped
    <2>3. e \in Delivered /\ Delivered' = Delivered \ {e}
      BY <1>0, <2>1, <2>2, SettleEnds
    <2>4. QED
      BY <1>0, <2>1, <2>2, <2>3, SettleStep, RedeliverStep
  <1>12. CASE process_timeouts_end
    <2>1. UNCHANGED <<ring, next_delivery_tag, fault>> /\ Delivered' = Delivered
      BY <1>12 DEF process_timeouts_end, heap, Unmarked, Delivered
    <2>2. QED
      BY <2>1, StutterStep
  <1>13. CASE UNCHANGED vars
    BY <1>13, StutterStep DEF vars, acks, heap, Delivered
  <1>14. QED
    BY <1>1, <1>2, <1>3, <1>4, <1>5, <1>7, <1>8, <1>9, <1>10, <1>11, <1>12, <1>13 DEF Next

\* The ring, the two conditions and the list of deliveries implement the bounded queue
\* with redelivery: every behaviour of queue.c is one that QueueSpec allows.
THEOREM QueueKeepsPromise == Spec => KeepsPromise
  BY InitRefines, NextRefines, AlwaysOwnInv, PTL DEF Spec, KeepsPromise, Promise!Spec

=============================================================================
