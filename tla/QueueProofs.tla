---------------------------- MODULE QueueProofs ----------------------------
(***************************************************************************)
(* Proofs about the queue of src/core/queue.c, for every capacity, every   *)
(* set of messages and every finite set of threads.                        *)
(***************************************************************************)
EXTENDS Queue, FiniteSetTheorems, TLAPS

-----------------------------------------------------------------------------
(***************************************************************************)
(* Index arithmetic.                                                       *)
(***************************************************************************)
\* A slot number plus a fill, reduced modulo the capacity, wraps at most once.
LEMMA WrapOnce ==
    \A x \in Nat : x < 2 * Capacity =>
        Wrap(x) = IF x < Capacity THEN x ELSE x - Capacity
  BY CapacityAssumption DEF Wrap

\* Where the i-th slot from a given one lies, without the modulus.
LEMMA SlotFrom ==
    \A h \in Slot, i \in 0 .. Capacity :
        /\ Wrap(h + i) \in Slot
        /\ Wrap(h + i) = IF h + i < Capacity THEN h + i ELSE h + i - Capacity
  <1> SUFFICES ASSUME NEW h \in Slot, NEW i \in 0 .. Capacity
               PROVE  /\ Wrap(h + i) \in Slot
                      /\ Wrap(h + i) = IF h + i < Capacity THEN h + i
                                       ELSE h + i - Capacity
    OBVIOUS
  <1>1. h + i \in Nat /\ h + i < 2 * Capacity
    BY CapacityAssumption DEF Slot
  <1>2. QED
    BY <1>1, WrapOnce, CapacityAssumption DEF Slot

\* What the step forward and the step back of queue.c compute on a slot.
LEMMA StepForward ==
    ASSUME NEW i \in Slot
    PROVE  /\ Advance(i) \in Slot
           /\ Advance(i) = IF i + 1 = Capacity THEN 0 ELSE i + 1
  BY CapacityAssumption, WrapOnce DEF Advance, Slot

\* The slot before a slot, around the ring, as PutHead computes it.
LEMMA StepBack ==
    ASSUME NEW i \in Slot
    PROVE  /\ Retreat(i) \in Slot
           /\ Retreat(i) = IF i = 0 THEN Capacity - 1 ELSE i - 1
  <1>1. i + Capacity - 1 \in Nat /\ i + Capacity - 1 < 2 * Capacity
    BY CapacityAssumption DEF Slot
  <1>2. QED
    BY <1>1, CapacityAssumption, WrapOnce DEF Retreat, Slot

\* A dequeue that puts its message back leaves the head where it was.
LEMMA ThereAndBack ==
    ASSUME NEW i \in Slot
    PROVE  Retreat(Advance(i)) = i
  BY StepForward, StepBack, CapacityAssumption DEF Slot

-----------------------------------------------------------------------------
(***************************************************************************)
(* What the three moves do to the window of the ring that is in use: the   *)
(* messages from head, size of them, oldest first.                         *)
(***************************************************************************)
RingTyped ==
    /\ messages \in [Slot -> Message \union {NULL}]
    /\ head \in Slot /\ tail \in Slot
    /\ size \in 0 .. Capacity
    /\ RingConsistent

\* Where the i-th message of the window lies, without the modulus.
LEMMA WindowSlot ==
    ASSUME RingTyped, NEW i \in 0 .. Capacity
    PROVE  /\ Wrap(head + i) \in Slot
           /\ Wrap(head + i) =
                  IF head + i < Capacity THEN head + i ELSE head + i - Capacity
  BY SlotFrom DEF RingTyped

\* Enqueueing adds one message behind the window and moves nothing.
LEMMA PutTailWindow ==
    ASSUME RingTyped, NEW m \in Message, PutTail(m)
    PROVE  /\ RingTyped'
           /\ size' = size + 1
           /\ \A i \in 0 .. (size - 1) : RingAt(i)' = RingAt(i)
           /\ \A i \in {size} : RingAt(i)' = m
  <1>1. tail = IF head + size < Capacity THEN head + size ELSE head + size - Capacity
    BY WindowSlot DEF RingTyped, RingConsistent
  <1>2. size < Capacity /\ size + 1 \in 0 .. Capacity
    BY CapacityAssumption DEF RingTyped, PutTail
  <1>3. /\ head' = head /\ size' = size + 1 /\ tail' = Advance(tail)
        /\ messages' = [messages EXCEPT ![tail] = m]
    BY DEF PutTail
  <1>4. Wrap(head + (size + 1)) = Advance(tail)
    <2>1. Wrap(head + (size + 1)) =
              IF head + (size + 1) < Capacity THEN head + (size + 1)
              ELSE head + (size + 1) - Capacity
      BY <1>2, WindowSlot
    <2>2. Advance(tail) = IF tail + 1 = Capacity THEN 0 ELSE tail + 1
      BY StepForward DEF RingTyped
    <2>3. QED
      BY <1>1, <1>2, <2>1, <2>2, CapacityAssumption DEF RingTyped, Slot
  <1>5. RingTyped'
    BY <1>2, <1>3, <1>4, StepForward, CapacityAssumption DEF RingTyped, RingConsistent
  <1>6. ASSUME NEW i \in {size}
        PROVE  RingAt(i)' = m
    <2>1. Wrap(head' + i) = tail /\ tail \in Slot
      BY <1>3 DEF RingTyped, RingConsistent
    <2>2. QED
      BY <1>3, <2>1 DEF RingAt, RingTyped
  <1>7. ASSUME NEW i \in 0 .. (size - 1)
        PROVE  RingAt(i)' = RingAt(i)
    <2>1. Wrap(head + i) # tail
      BY <1>1, <1>2, WindowSlot, CapacityAssumption DEF RingTyped, Slot
    <2>2. QED
      BY <1>3, <2>1 DEF RingAt, RingTyped
  <1>8. QED
    BY <1>3, <1>5, <1>6, <1>7

\* Dequeueing, when it succeeds, removes the first message of the window.
LEMMA TakeWindow ==
    ASSUME RingTyped, size # 0, head' = Advance(head), size' = size - 1,
           UNCHANGED <<messages, tail>>
    PROVE  /\ RingTyped'
           /\ messages[head] = RingAt(0)
           /\ \A i \in 0 .. (size - 2) : RingAt(i)' = RingAt(i + 1)
  <1>1. size \in 1 .. Capacity /\ size - 1 \in 0 .. Capacity
    BY CapacityAssumption DEF RingTyped
  <1>2. head' \in Slot /\ head' = IF head + 1 = Capacity THEN 0 ELSE head + 1
    BY StepForward DEF RingTyped
  <1>3. ASSUME NEW i \in 0 .. (size - 1)
        PROVE  Wrap(head' + i) = Wrap(head + (i + 1))
    <2>1. i \in 0 .. Capacity /\ i + 1 \in 0 .. Capacity
      BY <1>1, <1>2, CapacityAssumption DEF Slot
    <2>2. Wrap(head' + i) =
              IF head' + i < Capacity THEN head' + i ELSE head' + i - Capacity
      BY <1>2, <2>1, SlotFrom
    <2>3. Wrap(head + (i + 1)) =
              IF head + (i + 1) < Capacity THEN head + (i + 1)
              ELSE head + (i + 1) - Capacity
      BY <2>1, WindowSlot
    <2>4. QED
      BY <1>1, <1>2, <2>2, <2>3, CapacityAssumption DEF RingTyped, Slot
  <1>4. RingTyped'
    <2>1. size - 1 \in 0 .. (size - 1) /\ (size - 1) + 1 = size
      BY <1>1, CapacityAssumption
    <2>2. Wrap(head' + (size - 1)) = Wrap(head + size)
      BY <1>3, <2>1
    <2>3. QED
      BY <1>1, <1>2, <2>2 DEF RingTyped, RingConsistent
  <1>5. messages[head] = RingAt(0)
    <2>1. 0 \in 0 .. Capacity /\ head + 0 = head /\ head < Capacity
      BY CapacityAssumption DEF RingTyped, Slot
    <2>2. Wrap(head + 0) = IF head + 0 < Capacity THEN head + 0 ELSE head + 0 - Capacity
      BY <2>1, WindowSlot
    <2>3. QED
      BY <2>1, <2>2 DEF RingAt
  <1>6. ASSUME NEW i \in 0 .. (size - 2)
        PROVE  RingAt(i)' = RingAt(i + 1)
    BY <1>1, <1>3, CapacityAssumption DEF RingAt
  <1>7. QED
    BY <1>4, <1>5, <1>6

\* Requeueing puts a message in front of the window.
LEMMA PutHeadWindow ==
    ASSUME RingTyped, NEW m \in Message, size # Capacity, PutHead(m)
    PROVE  /\ RingTyped'
           /\ size' = size + 1
           /\ RingAt(0)' = m
           /\ \A i \in 0 .. (size - 1) : RingAt(i + 1)' = RingAt(i)
  <1>1. size < Capacity /\ size + 1 \in 0 .. Capacity
    BY CapacityAssumption DEF RingTyped
  <1>2. /\ head' = Retreat(head) /\ size' = size + 1 /\ tail' = tail
        /\ messages' = [messages EXCEPT ![head'] = m]
    BY DEF PutHead
  <1>3. head' \in Slot /\ head' = IF head = 0 THEN Capacity - 1 ELSE head - 1
    BY <1>2, StepBack DEF RingTyped
  <1>4. ASSUME NEW i \in 0 .. size
        PROVE  Wrap(head' + (i + 1)) = Wrap(head + i)
    <2>1. i \in 0 .. Capacity /\ i + 1 \in 0 .. Capacity
      BY <1>1, <1>3, CapacityAssumption DEF RingTyped, Slot
    <2>2. Wrap(head' + (i + 1)) =
              IF head' + (i + 1) < Capacity THEN head' + (i + 1)
              ELSE head' + (i + 1) - Capacity
      BY <1>3, <2>1, SlotFrom
    <2>3. Wrap(head + i) =
              IF head + i < Capacity THEN head + i ELSE head + i - Capacity
      BY <2>1, WindowSlot
    <2>4. CASE head = 0
      BY <1>3, <2>1, <2>2, <2>3, <2>4, CapacityAssumption DEF Slot
    <2>5. CASE head # 0
      BY <1>3, <2>1, <2>2, <2>3, <2>5, CapacityAssumption DEF RingTyped, Slot
    <2>6. QED
      BY <2>4, <2>5
  <1>5. RingTyped'
    <2>1. Wrap(head' + (size + 1)) = Wrap(head + size)
      BY <1>1, <1>4 DEF RingTyped
    <2>2. QED
      BY <1>1, <1>2, <1>3, <2>1 DEF RingTyped, RingConsistent
  <1>6. RingAt(0)' = m
    <2>1. Wrap(head' + 0) = head'
      BY <1>3, WrapOnce, CapacityAssumption DEF Slot
    <2>2. QED
      BY <1>2, <1>3, <2>1 DEF RingAt, RingTyped
  <1>7. ASSUME NEW i \in 0 .. (size - 1)
        PROVE  RingAt(i + 1)' = RingAt(i)
    <2>1. i \in 0 .. size /\ i \in 0 .. Capacity
      BY <1>1, CapacityAssumption DEF RingTyped
    <2>2. Wrap(head + i) # head'
      BY <1>1, <1>3, <2>1, WindowSlot, CapacityAssumption DEF RingTyped, Slot
    <2>3. QED
      BY <1>2, <1>4, <2>1, <2>2, WindowSlot DEF RingAt, RingTyped
  <1>8. QED
    BY <1>2, <1>5, <1>6, <1>7

-----------------------------------------------------------------------------
(***************************************************************************)
(* The first inductive invariant: the types, and what they need to be      *)
(* inductive. The ring's tail agrees with its head and size, its window    *)
(* holds messages only, a thread sleeps only inside the call it sleeps in, *)
(* a blocked producer carries a message, and a dead queue has no callers.  *)
(***************************************************************************)
RingInv ==
    /\ RingTyped
    /\ \A i \in 0 .. (size - 1) : RingAt(i) \in Message

AcksInv ==
    /\ unacked \subseteq DeliveryInfo /\ IsFiniteSet(unacked)
    /\ unacked_capacity \in Nat \ {0}
    /\ next_delivery_tag \in Nat \ {0}
    /\ UnackedInBounds

CallsInv ==
    /\ not_empty \subseteq Thread /\ not_full \subseteq Thread
    /\ pc \in [Thread -> {"idle", "enqueue", "dequeue"}]
    /\ arg \in [Thread -> Message \union {NULL}]
    /\ \A t \in not_full : pc[t] = "enqueue"
    /\ \A t \in not_empty : pc[t] = "dequeue"
    /\ \A t \in Thread : pc[t] = "enqueue" => arg[t] \in Message
    /\ ~live => \A t \in Thread : Idle(t)

RestInv ==
    /\ live \in BOOLEAN
    /\ sweep \in [active : BOOLEAN, deadline : Nat, requeued : BOOLEAN]
    /\ allocated \subseteq Message
    /\ fault \in BOOLEAN

IInv == RingInv /\ AcksInv /\ CallsInv /\ RestInv

\* The invariant contains the properties it is for.
LEMMA IInvImplies == IInv => TypeOK /\ RingConsistent /\ UnackedInBounds
  BY DEF IInv, RingInv, RingTyped, AcksInv, CallsInv, RestInv, TypeOK

\* The three moves keep the ring well formed, and so do the moves that leave
\* the ring alone or make it anew.
LEMMA RingInvPutTail ==
    ASSUME RingInv, NEW m \in Message, PutTail(m)
    PROVE  RingInv'
  <1>1. RingTyped
    BY DEF RingInv
  <1>2. /\ RingTyped'
        /\ size' = size + 1
        /\ \A i \in 0 .. (size - 1) : RingAt(i)' = RingAt(i)
        /\ \A i \in {size} : RingAt(i)' = m
    BY <1>1, PutTailWindow
  <1>3. ASSUME NEW i \in 0 .. (size' - 1)
        PROVE  RingAt(i)' \in Message
    <2>1. i \in 0 .. (size - 1) \/ i \in {size}
      BY <1>1, <1>2, CapacityAssumption DEF RingTyped
    <2>2. QED
      BY <1>2, <2>1 DEF RingInv
  <1>4. QED
    BY <1>2, <1>3 DEF RingInv

\* Taking the head of the ring yields a message and keeps the ring in order.
LEMMA RingInvTakeHead ==
    ASSUME RingInv, TakeHead
    PROVE  RingInv' /\ messages[head] \in Message
  <1>1. RingTyped /\ size # 0
    BY DEF RingInv, TakeHead
  <1>2. size \in 1 .. Capacity
    BY <1>1, CapacityAssumption DEF RingTyped
  <1>3. UNCHANGED <<messages, tail>>
    BY DEF TakeHead
  <1>4. CASE head' = Advance(head) /\ size' = size - 1
    <2>1. /\ RingTyped'
          /\ messages[head] = RingAt(0)
          /\ \A i \in 0 .. (size - 2) : RingAt(i)' = RingAt(i + 1)
      BY <1>1, <1>3, <1>4, TakeWindow
    <2>2. messages[head] \in Message
      BY <1>2, <2>1, CapacityAssumption DEF RingInv
    <2>3. ASSUME NEW i \in 0 .. (size' - 1)
          PROVE  RingAt(i)' \in Message
      <3>1. i \in 0 .. (size - 2) /\ i + 1 \in 0 .. (size - 1)
        BY <1>2, <1>4, CapacityAssumption
      <3>2. QED
        BY <2>1, <3>1 DEF RingInv
    <2>4. QED
      BY <2>1, <2>2, <2>3 DEF RingInv
  <1>5. CASE head' = Retreat(Advance(head)) /\ size' = (size - 1) + 1
    <2>1. head' = head /\ size' = size
      BY <1>1, <1>2, <1>5, ThereAndBack, CapacityAssumption DEF RingTyped
    <2>2. RingInv'
      BY <1>3, <2>1 DEF RingInv, RingTyped, RingConsistent, RingAt
    <2>3. 0 \in 0 .. (size - 1) /\ 0 \in 0 .. Capacity /\ head + 0 = head
             /\ head < Capacity
      BY <1>1, <1>2, CapacityAssumption DEF RingTyped, Slot
    <2>4. Wrap(head + 0) =
              IF head + 0 < Capacity THEN head + 0 ELSE head + 0 - Capacity
      BY <1>1, <2>3, WindowSlot
    <2>5. messages[head] = RingAt(0)
      BY <2>3, <2>4 DEF RingAt
    <2>6. QED
      BY <2>2, <2>3, <2>5 DEF RingInv
  <1>6. QED
    BY <1>4, <1>5 DEF TakeHead

\* So does putting a requeued message before the head ...
LEMMA RingInvPutHead ==
    ASSUME RingInv, NEW m \in Message, size # Capacity, PutHead(m)
    PROVE  RingInv'
  <1>1. RingTyped
    BY DEF RingInv
  <1>2. /\ RingTyped'
        /\ size' = size + 1
        /\ RingAt(0)' = m
        /\ \A i \in 0 .. (size - 1) : RingAt(i + 1)' = RingAt(i)
    BY <1>1, PutHeadWindow
  <1>3. ASSUME NEW i \in 0 .. (size' - 1)
        PROVE  RingAt(i)' \in Message
    <2>1. CASE i = 0
      BY <1>2, <2>1
    <2>2. CASE i # 0
      <3>1. i - 1 \in 0 .. (size - 1) /\ (i - 1) + 1 = i
        BY <1>1, <1>2, <2>2, CapacityAssumption DEF RingTyped
      <3>2. RingAt((i - 1) + 1)' = RingAt(i - 1)
        BY <1>2, <3>1
      <3>3. QED
        BY <3>1, <3>2 DEF RingInv
    <2>3. QED
      BY <2>1, <2>2
  <1>4. QED
    BY <1>2, <1>3 DEF RingInv

\* ... and a queue that was just created is in order.
LEMMA RingInvFresh ==
    ASSUME FreshQueue
    PROVE  RingInv'
  <1>1. head' = 0 /\ tail' = 0 /\ size' = 0 /\ messages' = [i \in Slot |-> NULL]
    BY DEF FreshQueue
  <1>2. 0 \in Slot /\ 0 \in 0 .. Capacity /\ 0 + 0 = 0 /\ 0 < Capacity
    BY CapacityAssumption DEF Slot
  <1>3. Wrap(0 + 0) = 0
    BY <1>2, SlotFrom
  <1>4. QED
    BY <1>1, <1>2, <1>3 DEF RingInv, RingTyped, RingConsistent

\* A step that does not touch the ring keeps it in order.
LEMMA RingInvUnchanged ==
    ASSUME RingInv, UNCHANGED ring
    PROVE  RingInv'
  BY DEF ring, RingInv, RingTyped, RingConsistent, RingAt

-----------------------------------------------------------------------------
(***************************************************************************)
(* What a call does to the list of deliveries.                             *)
(***************************************************************************)
LEMMA AcksInvAdd ==
    ASSUME AcksInv, NEW m \in Message, add_to_unacked(m)
    PROVE  AcksInv'
  <1> DEFINE e == [message |-> m, delivery_tag |-> next_delivery_tag,
                   status |-> "DELIVERED"]
  <1>1. /\ unacked' = unacked \union {e}
        /\ next_delivery_tag' = next_delivery_tag + 1
        /\ unacked_capacity' =
               IF UnackedIsFull THEN 2 * unacked_capacity ELSE unacked_capacity
    BY DEF add_to_unacked
  <1>2. e \in DeliveryInfo
    BY DEF AcksInv, DeliveryInfo, MessageStatus
  <1> HIDE DEF e
  <1>3. /\ IsFiniteSet(unacked') /\ Cardinality(unacked) \in Nat
        /\ \/ Cardinality(unacked') = Cardinality(unacked)
           \/ Cardinality(unacked') = Cardinality(unacked) + 1
    BY <1>1, FS_AddElement, FS_CardinalityType DEF AcksInv
  <1>4. unacked_capacity' \in Nat \ {0} /\ Cardinality(unacked') <= unacked_capacity'
    BY <1>1, <1>3 DEF AcksInv, UnackedInBounds, UnackedIsFull
  <1>5. QED
    BY <1>1, <1>2, <1>3, <1>4 DEF AcksInv, UnackedInBounds

\* Taking entries out of the list of deliveries keeps it within its array ...
LEMMA AcksInvShrink ==
    ASSUME AcksInv, unacked' \subseteq unacked,
           UNCHANGED <<unacked_capacity, next_delivery_tag>>
    PROVE  AcksInv'
  <1>1. IsFiniteSet(unacked') /\ Cardinality(unacked') <= Cardinality(unacked)
    BY FS_Subset DEF AcksInv
  <1>2. Cardinality(unacked') \in Nat /\ Cardinality(unacked) \in Nat
    BY <1>1, FS_CardinalityType DEF AcksInv
  <1>3. QED
    BY <1>1, <1>2 DEF AcksInv, UnackedInBounds

\* ... as does marking one as acknowledged ...
LEMMA AcksInvMark ==
    ASSUME AcksInv, NEW e \in unacked,
           unacked' = (unacked \ {e}) \union {[e EXCEPT !.status = "ACKNOWLEDGED"]},
           UNCHANGED <<unacked_capacity, next_delivery_tag>>
    PROVE  AcksInv'
  <1> DEFINE f == [e EXCEPT !.status = "ACKNOWLEDGED"]
  <1> DEFINE rest == unacked \ {e}
  <1>1. f \in DeliveryInfo
    BY DEF AcksInv, DeliveryInfo, MessageStatus
  <1>2. unacked' = rest \union {f}
    OBVIOUS
  <1>3. IsFiniteSet(rest) /\ Cardinality(rest) = Cardinality(unacked) - 1
    BY FS_RemoveElement DEF AcksInv
  <1>4. Cardinality(unacked) \in Nat /\ Cardinality(rest) \in Nat
    BY <1>3, FS_CardinalityType DEF AcksInv
  <1>5. unacked' \subseteq DeliveryInfo
    BY <1>1, <1>2 DEF AcksInv
  <1> HIDE DEF f, rest
  <1>6. /\ IsFiniteSet(unacked')
        /\ \/ Cardinality(unacked') = Cardinality(rest)
           \/ Cardinality(unacked') = Cardinality(rest) + 1
    BY <1>2, <1>3, FS_AddElement
  <1>7. QED
    BY <1>3, <1>4, <1>5, <1>6 DEF AcksInv, UnackedInBounds

\* ... and creating the queue ...
LEMMA AcksInvFresh ==
    ASSUME FreshQueue
    PROVE  AcksInv'
  <1>1. unacked' = {} /\ unacked_capacity' = UnackedCapacity /\ next_delivery_tag' = 1
    BY DEF FreshQueue
  <1>2. IsFiniteSet({}) /\ Cardinality({}) = 0
    BY FS_EmptySet
  <1>3. QED
    BY <1>1, <1>2, UnackedCapacityAssumption DEF AcksInv, UnackedInBounds

\* ... and a step that does not touch the list ...
LEMMA AcksInvUnchanged ==
    ASSUME AcksInv, UNCHANGED acks
    PROVE  AcksInv'
  BY DEF acks, AcksInv, UnackedInBounds

\* ... and a delivery, which grows the array first if it is full.
LEMMA AcksInvTakeHead ==
    ASSUME AcksInv, TakeHead, messages[head] \in Message
    PROVE  AcksInv'
  BY AcksInvAdd, AcksInvUnchanged DEF TakeHead

-----------------------------------------------------------------------------
(***************************************************************************)
(* The invariant is inductive.                                             *)
(***************************************************************************)
LEMMA InitIInv == Init => IInv
  <1> SUFFICES ASSUME Init PROVE IInv
    OBVIOUS
  <1>1. RingInv
    <2>1. 0 \in Slot /\ 0 \in 0 .. Capacity /\ 0 + 0 = 0 /\ 0 < Capacity
      BY CapacityAssumption DEF Slot
    <2>2. Wrap(0 + 0) = 0
      BY <2>1, SlotFrom
    <2>3. QED
      BY <2>1, <2>2 DEF Init, RingInv, RingTyped, RingConsistent
  <1>2. AcksInv
    BY FS_EmptySet, UnackedCapacityAssumption DEF Init, AcksInv, UnackedInBounds
  <1>3. CallsInv
    BY DEF Init, CallsInv, Idle
  <1>4. RestInv
    BY DEF Init, RestInv, NoSweep
  <1>5. QED
    BY <1>1, <1>2, <1>3, <1>4 DEF IInv

\* Waking sleepers, or nobody, never disturbs the calls in progress.
LEMMA CallsInvWake ==
    ASSUME CallsInv, live' = live, UNCHANGED <<pc, arg>>,
           not_empty' \subseteq not_empty, not_full' \subseteq not_full
    PROVE  CallsInv'
  BY DEF CallsInv, Idle

\* A signal puts nobody to sleep.
LEMMA SignalNotEmptyWakes == SignalNotEmpty => not_empty' \subseteq not_empty
  BY DEF SignalNotEmpty

\* Nor does the signal after a message was taken.
LEMMA TakeHeadWakes == TakeHead => not_full' \subseteq not_full
  BY DEF TakeHead, SignalNotFull

\* Every call and every step of a call keeps the invariant ...
LEMMA NextIInv == IInv /\ [Next]_vars => IInv'
  <1> SUFFICES ASSUME IInv, [Next]_vars PROVE IInv'
    OBVIOUS
  <1> USE DEF IInv
  <1>1. CASE queue_create
    <2>1. CASE live' = TRUE /\ FreshQueue
      <3>1. CallsInv'
        BY <1>1, <2>1 DEF queue_create, threads, CallsInv
      <3>2. RestInv'
        BY <1>1, <2>1 DEF queue_create, heap, RestInv
      <3>3. QED
        BY <2>1, <3>1, <3>2, RingInvFresh, AcksInvFresh
    <2>2. CASE UNCHANGED <<live, ring, acks>>
      <3>1. CallsInv'
        BY <1>1, <2>2 DEF queue_create, threads, CallsInv, Idle
      <3>2. RestInv'
        BY <1>1, <2>2 DEF queue_create, heap, RestInv
      <3>3. QED
        BY <2>2, <3>1, <3>2, RingInvUnchanged, AcksInvUnchanged
    <2>3. QED
      BY <1>1, <2>1, <2>2 DEF queue_create
  <1>2. CASE queue_free
    <2>1. FreshQueue
      BY <1>2 DEF queue_free
    <2>2. CallsInv'
      BY <1>2 DEF queue_free, threads, CallsInv, Idle
    <2>3. RestInv'
      BY <1>2 DEF queue_free, RestInv
    <2>4. QED
      BY <2>1, <2>2, <2>3, RingInvFresh, AcksInvFresh
  <1>3. ASSUME NEW t \in Thread, NEW m \in Message, queue_enqueue(t, m)
        PROVE  IInv'
    <2>1. AcksInv' /\ RestInv'
      BY <1>3, AcksInvUnchanged DEF queue_enqueue, RestInv
    <2>2. CASE PutTail(m) /\ UNCHANGED <<not_full, pc, arg>>
      <3>1. CallsInv'
        BY <1>3, <2>2, CallsInvWake, SignalNotEmptyWakes DEF queue_enqueue, PutTail
      <3>2. QED
        BY <2>1, <2>2, <3>1, RingInvPutTail
    <2>3. CASE /\ not_full' = not_full \union {t}
               /\ pc' = [pc EXCEPT ![t] = "enqueue"]
               /\ arg' = [arg EXCEPT ![t] = m]
               /\ UNCHANGED <<ring, not_empty>>
      <3>1. CallsInv'
        BY <1>3, <2>3 DEF queue_enqueue, MutexFree, CallsInv, Idle
      <3>2. QED
        BY <2>1, <2>3, <3>1, RingInvUnchanged
    <2>4. QED
      BY <1>3, <2>2, <2>3 DEF queue_enqueue
  <1>4. ASSUME NEW t \in Thread, enqueue_resume(t)
        PROVE  IInv'
    <2>1. AcksInv' /\ RestInv'
      BY <1>4, AcksInvUnchanged DEF enqueue_resume, heap, RestInv
    <2>2. CASE /\ PutTail(arg[t])
               /\ pc' = [pc EXCEPT ![t] = "idle"]
               /\ arg' = [arg EXCEPT ![t] = NULL]
               /\ UNCHANGED not_full
      <3>1. arg[t] \in Message
        BY <1>4 DEF enqueue_resume, CallsInv
      <3>2. not_empty' \subseteq not_empty
        BY <2>2, SignalNotEmptyWakes DEF PutTail
      <3>3. CallsInv'
        BY <1>4, <2>2, <3>2 DEF enqueue_resume, MutexFree, CallsInv, Idle
      <3>4. QED
        BY <2>1, <2>2, <3>1, <3>3, RingInvPutTail
    <2>3. CASE /\ not_full' = not_full \union {t}
               /\ UNCHANGED <<ring, not_empty, pc, arg>>
      <3>1. CallsInv'
        BY <1>4, <2>3 DEF enqueue_resume, MutexFree, CallsInv, Idle
      <3>2. QED
        BY <2>1, <2>3, <3>1, RingInvUnchanged
    <2>4. QED
      BY <1>4, <2>2, <2>3 DEF enqueue_resume
  <1>5. ASSUME NEW m \in Message, queue_try_enqueue(m)
        PROVE  IInv'
    <2>1. AcksInv' /\ RestInv'
      BY <1>5, AcksInvUnchanged DEF queue_try_enqueue, RestInv
    <2>2. CallsInv'
      BY <1>5, CallsInvWake, SignalNotEmptyWakes DEF queue_try_enqueue, PutTail
    <2>3. RingInv'
      BY <1>5, RingInvPutTail, RingInvUnchanged DEF queue_try_enqueue
    <2>4. QED
      BY <2>1, <2>2, <2>3
  <1>6. ASSUME NEW t \in Thread, queue_dequeue(t)
        PROVE  IInv'
    <2>1. RestInv'
      BY <1>6 DEF queue_dequeue, heap, RestInv
    <2>2. CASE TakeHead /\ UNCHANGED <<not_empty, pc>>
      <3>1. CallsInv'
        BY <1>6, <2>2, CallsInvWake, TakeHeadWakes DEF queue_dequeue
      <3>2. QED
        BY <2>1, <2>2, <3>1, RingInvTakeHead, AcksInvTakeHead
    <2>3. CASE /\ not_empty' = not_empty \union {t}
               /\ pc' = [pc EXCEPT ![t] = "dequeue"]
               /\ UNCHANGED <<ring, acks, not_full>>
      <3>1. CallsInv'
        BY <1>6, <2>3 DEF queue_dequeue, MutexFree, CallsInv, Idle
      <3>2. QED
        BY <2>1, <2>3, <3>1, RingInvUnchanged, AcksInvUnchanged
    <2>4. QED
      BY <1>6, <2>2, <2>3 DEF queue_dequeue
  <1>7. ASSUME NEW t \in Thread, dequeue_resume(t)
        PROVE  IInv'
    <2>1. RestInv'
      BY <1>7 DEF dequeue_resume, heap, RestInv
    <2>2. CASE /\ TakeHead
               /\ pc' = [pc EXCEPT ![t] = "idle"]
               /\ UNCHANGED not_empty
      <3>1. not_full' \subseteq not_full
        BY <2>2, TakeHeadWakes
      <3>2. CallsInv'
        BY <1>7, <2>2, <3>1 DEF dequeue_resume, MutexFree, CallsInv, Idle
      <3>3. QED
        BY <2>1, <2>2, <3>2, RingInvTakeHead, AcksInvTakeHead
    <2>3. CASE /\ not_empty' = not_empty \union {t}
               /\ UNCHANGED <<ring, acks, not_full, pc>>
      <3>1. CallsInv'
        BY <1>7, <2>3 DEF dequeue_resume, MutexFree, CallsInv, Idle
      <3>2. QED
        BY <2>1, <2>3, <3>1, RingInvUnchanged, AcksInvUnchanged
    <2>4. QED
      BY <1>7, <2>2, <2>3 DEF dequeue_resume
  <1>8. CASE queue_try_dequeue
    <2>1. RestInv'
      BY <1>8 DEF queue_try_dequeue, heap, RestInv
    <2>2. CallsInv'
      BY <1>8, CallsInvWake, TakeHeadWakes DEF queue_try_dequeue
    <2>3. RingInv' /\ AcksInv'
      BY <1>8, RingInvTakeHead, AcksInvTakeHead, RingInvUnchanged, AcksInvUnchanged
         DEF queue_try_dequeue
    <2>4. QED
      BY <2>1, <2>2, <2>3
  <1>9. ASSUME NEW t \in Thread, spurious_wakeup(t)
        PROVE  IInv'
    <2>1. CallsInv'
      BY <1>9, CallsInvWake DEF spurious_wakeup
    <2>2. RestInv'
      BY <1>9 DEF spurious_wakeup, heap, RestInv
    <2>3. QED
      BY <1>9, <2>1, <2>2, RingInvUnchanged, AcksInvUnchanged DEF spurious_wakeup
  <1>10. ASSUME NEW tag \in 1 .. MaxTag, queue_ack(tag)
         PROVE  IInv'
    <2>1. unacked' \subseteq unacked
      BY <1>10 DEF queue_ack, Unmarked
    <2>2. AcksInv'
      BY <1>10, <2>1, AcksInvShrink DEF queue_ack
    <2>3. CallsInv'
      BY <1>10, CallsInvWake DEF queue_ack, threads
    <2>4. RestInv'
      BY <1>10 DEF queue_ack, heap, RestInv, Stale
    <2>5. QED
      BY <1>10, <2>2, <2>3, <2>4, RingInvUnchanged DEF queue_ack
  <1>11. ASSUME NEW tag \in 1 .. MaxTag, NEW requeue \in BOOLEAN,
                queue_reject(tag, requeue)
         PROVE  IInv'
    <2>1. unacked' \subseteq unacked
      BY <1>11 DEF queue_reject, Unmarked
    <2>2. AcksInv'
      BY <1>11, <2>1, AcksInvShrink DEF queue_reject
    <2>3. CallsInv'
      BY <1>11, CallsInvWake DEF queue_reject, threads
    <2>4. RestInv'
      BY <1>11 DEF queue_reject, heap, RestInv, Stale
    <2>5. \A e \in EntryOf(tag) : e.message \in Message
      BY DEF EntryOf, AcksInv, DeliveryInfo
    <2>6. RingInv'
      BY <1>11, <2>5, RingInvPutHead, RingInvUnchanged DEF queue_reject
    <2>7. QED
      BY <2>2, <2>3, <2>4, <2>6
  <1>12. ASSUME NEW deadline \in 0 .. MaxTag, process_timeouts_begin(deadline)
         PROVE  IInv'
    <2>1. CallsInv'
      BY <1>12, CallsInvWake DEF process_timeouts_begin, threads
    <2>2. RestInv'
      BY <1>12, MaxTagAssumption DEF process_timeouts_begin, heap, RestInv
    <2>3. QED
      BY <1>12, <2>1, <2>2, RingInvUnchanged, AcksInvUnchanged
         DEF process_timeouts_begin
  <1>13. CASE process_timeouts_expire
    <2>1. PICK e \in TimedOut :
            /\ unacked' = (unacked \ {e}) \union
                              {[e EXCEPT !.status = "ACKNOWLEDGED"]}
            /\ \/ /\ size < Capacity
                  /\ PutHead(e.message)
                  /\ sweep' = [sweep EXCEPT !.requeued = TRUE]
                  /\ UNCHANGED allocated
               \/ /\ size >= Capacity
                  /\ allocated' = allocated \ {e.message}
                  /\ UNCHANGED <<ring, sweep>>
      BY <1>13 DEF process_timeouts_expire
    <2>2. e \in unacked /\ e.message \in Message
      BY DEF TimedOut, Delivered, AcksInv, DeliveryInfo
    <2>3. AcksInv'
      BY <1>13, <2>1, <2>2, AcksInvMark DEF process_timeouts_expire
    <2>4. CallsInv'
      BY <1>13, CallsInvWake DEF process_timeouts_expire, threads
    <2>5. RestInv'
      BY <1>13, <2>1 DEF process_timeouts_expire, RestInv
    <2>6. RingInv'
      <3>1. CASE size < Capacity /\ PutHead(e.message)
        <4>1. size # Capacity
          BY <3>1, CapacityAssumption DEF RingInv, RingTyped
        <4>2. QED
          BY <2>2, <3>1, <4>1, RingInvPutHead
      <3>2. QED
        BY <2>1, <3>1, RingInvUnchanged
    <2>7. QED
      BY <2>3, <2>4, <2>5, <2>6
  <1>14. CASE process_timeouts_end
    <2>1. unacked' \subseteq unacked
      BY <1>14 DEF process_timeouts_end, Unmarked
    <2>2. AcksInv'
      BY <1>14, <2>1, AcksInvShrink DEF process_timeouts_end
    <2>3. CallsInv'
      BY <1>14, CallsInvWake DEF process_timeouts_end, threads
    <2>4. RestInv'
      BY <1>14 DEF process_timeouts_end, heap, RestInv, NoSweep
    <2>5. QED
      BY <1>14, <2>2, <2>3, <2>4, RingInvUnchanged DEF process_timeouts_end
  <1>15. CASE UNCHANGED vars
    <2>1. CallsInv'
      BY <1>15, CallsInvWake DEF vars, threads
    <2>2. RestInv'
      BY <1>15 DEF vars, heap, RestInv
    <2>3. QED
      BY <1>15, <2>1, <2>2, RingInvUnchanged, AcksInvUnchanged DEF vars
  <1>16. QED
    BY <1>1, <1>2, <1>3, <1>4, <1>5, <1>6, <1>7, <1>8, <1>9, <1>10, <1>11,
       <1>12, <1>13, <1>14, <1>15 DEF Next

\* ... which therefore always holds.
LEMMA AlwaysIInv == Spec => []IInv
  BY InitIInv, NextIInv, PTL DEF Spec

\* Every field of struct Queue stays within its type under any sequence of
\* calls: indices in range, the ring never above its capacity, and only
\* message pointers in the list of deliveries.
THEOREM TypeCorrect == Spec => []TypeOK
  BY AlwaysIInv, IInvImplies, PTL

\* The redundant tail index of the ring always agrees with head and size.
THEOREM RingIsConsistent == Spec => []RingConsistent
  BY AlwaysIInv, IInvImplies, PTL

\* unacked_messages is never filled past the length realloc gave it.
THEOREM UnackedStaysInBounds == Spec => []UnackedInBounds
  BY AlwaysIInv, IInvImplies, PTL

-----------------------------------------------------------------------------
(***************************************************************************)
(* No signal of not_full is lost. The property is inductive next to IInv:  *)
(* a call that frees a slot wakes a sleeper if there is one, and one that  *)
(* puts a producer to sleep finds no free slot.                            *)
(***************************************************************************)
\* Sets of threads can be counted, and the count grows with the set.
LEMMA ThreadSets ==
    \A S \in SUBSET Thread :
        /\ IsFiniteSet(S) /\ Cardinality(S) \in Nat
        /\ \A R \in SUBSET S : Cardinality(R) <= Cardinality(S)
  <1> SUFFICES ASSUME NEW S \in SUBSET Thread
               PROVE  /\ IsFiniteSet(S) /\ Cardinality(S) \in Nat
                      /\ \A R \in SUBSET S : Cardinality(R) <= Cardinality(S)
    OBVIOUS
  <1>1. IsFiniteSet(S)
    BY ThreadAssumption, FS_Subset
  <1>2. QED
    BY <1>1, FS_Subset, FS_CardinalityType

\* The producers that are awake can be counted.
LEMMA AwakeCount ==
    /\ AwakeEnqueuers \in SUBSET Thread /\ AwakeEnqueuers' \in SUBSET Thread
    /\ Cardinality(AwakeEnqueuers) \in Nat /\ Cardinality(AwakeEnqueuers') \in Nat
  <1>1. AwakeEnqueuers \in SUBSET Thread /\ AwakeEnqueuers' \in SUBSET Thread
    BY DEF AwakeEnqueuers
  <1>2. QED
    BY <1>1, ThreadSets

\* Whoever takes nothing from the ring, and puts no producer to sleep, keeps
\* the property.
LEMMA WakeupKeptByAdding ==
    ASSUME IInv, IInv', NoLostWakeupFull, size <= size',
           AwakeEnqueuers \subseteq AwakeEnqueuers', not_full' \subseteq not_full
    PROVE  NoLostWakeupFull'
  <1>1. Cardinality(AwakeEnqueuers) <= Cardinality(AwakeEnqueuers')
    BY AwakeCount, ThreadSets
  <1>2. size \in 0 .. Capacity /\ size' \in 0 .. Capacity
    BY DEF IInv, RingInv, RingTyped
  <1>3. QED
    BY <1>1, <1>2, AwakeCount, CapacityAssumption DEF NoLostWakeupFull

\* Whoever leaves the ring full keeps it.
LEMMA WakeupKeptWhenFull ==
    ASSUME size' = Capacity
    PROVE  NoLostWakeupFull'
  BY AwakeCount, CapacityAssumption DEF NoLostWakeupFull

\* A producer that leaves queue_enqueue takes a free slot with it.
LEMMA WakeupKeptByResuming ==
    ASSUME IInv, IInv', NoLostWakeupFull, NEW t \in AwakeEnqueuers,
           AwakeEnqueuers' = AwakeEnqueuers \ {t},
           size' = size + 1, UNCHANGED not_full
    PROVE  NoLostWakeupFull'
  <1>1. Cardinality(AwakeEnqueuers') = Cardinality(AwakeEnqueuers) - 1
    BY AwakeCount, ThreadSets, FS_RemoveElement
  <1>2. size \in 0 .. Capacity /\ size' \in 0 .. Capacity
    BY DEF IInv, RingInv, RingTyped
  <1>3. QED
    BY <1>1, <1>2, AwakeCount, CapacityAssumption DEF NoLostWakeupFull

\* A consumer that frees a slot wakes a producer, if one sleeps.
LEMMA WakeupKeptByTaking ==
    ASSUME IInv, IInv', NoLostWakeupFull, TakeHead,
           \A t \in Thread : (pc[t] = "enqueue") = (pc'[t] = "enqueue")
    PROVE  NoLostWakeupFull'
  <1>1. size \in 0 .. Capacity /\ size' \in 0 .. Capacity
    BY DEF IInv, RingInv, RingTyped
  <1>2. CASE not_full' = {}
    BY <1>2 DEF NoLostWakeupFull
  <1>3. CASE size' = size - 1 /\ \E t \in not_full : not_full' = not_full \ {t}
    <2>1. PICK t \in not_full : not_full' = not_full \ {t}
      BY <1>3
    <2>2. t \in Thread /\ pc[t] = "enqueue" /\ t \notin AwakeEnqueuers
      BY DEF IInv, CallsInv, AwakeEnqueuers
    <2>3. AwakeEnqueuers' = AwakeEnqueuers \union {t}
      BY <2>1, <2>2 DEF AwakeEnqueuers
    <2>4. Cardinality(AwakeEnqueuers') = Cardinality(AwakeEnqueuers) + 1
      BY <2>2, <2>3, AwakeCount, ThreadSets, FS_AddElement
    <2>5. QED
      BY <1>1, <1>3, <2>4, AwakeCount, CapacityAssumption DEF NoLostWakeupFull
  <1>4. CASE size' = (size - 1) + 1 /\ UNCHANGED not_full
    <2>1. size <= size'
      BY <1>1, <1>4, CapacityAssumption
    <2>2. AwakeEnqueuers \subseteq AwakeEnqueuers'
      BY <1>4 DEF AwakeEnqueuers
    <2>3. QED
      BY <1>4, <2>1, <2>2, WakeupKeptByAdding
  <1>5. QED
    BY <1>2, <1>3, <1>4 DEF TakeHead, SignalNotFull, acks

\* Every step keeps enough producers awake for the free slots.
LEMMA NextNoLostWakeup ==
    IInv /\ IInv' /\ NoLostWakeupFull /\ [Next]_vars => NoLostWakeupFull'
  <1> SUFFICES ASSUME IInv, IInv', NoLostWakeupFull, [Next]_vars
               PROVE  NoLostWakeupFull'
    OBVIOUS
  <1>0. size \in Nat /\ size <= size + 1 /\ size <= size
    BY CapacityAssumption DEF IInv, RingInv, RingTyped
  <1>1. CASE UNCHANGED <<size, not_full, pc>>
    BY <1>0, <1>1, WakeupKeptByAdding DEF AwakeEnqueuers
  <1>2. CASE size' = size + 1 /\ UNCHANGED <<not_full, pc>>
    BY <1>0, <1>2, WakeupKeptByAdding DEF AwakeEnqueuers
  <1>3. CASE TakeHead /\ UNCHANGED pc
    BY <1>3, WakeupKeptByTaking
  <1>4. CASE queue_create
    <2>1. not_full = {} /\ not_full' = not_full
      BY <1>4 DEF queue_create, threads, IInv, CallsInv, Idle
    <2>2. QED
      BY <2>1 DEF NoLostWakeupFull
  <1>5. CASE queue_free
    <2>1. not_full = {} /\ not_full' = not_full
      BY <1>5 DEF queue_free, threads, IInv, CallsInv, Idle
    <2>2. QED
      BY <2>1 DEF NoLostWakeupFull
  <1>6. ASSUME NEW t \in Thread, NEW m \in Message, queue_enqueue(t, m)
        PROVE  NoLostWakeupFull'
    BY <1>2, <1>6, WakeupKeptWhenFull DEF queue_enqueue, PutTail, ring
  <1>7. ASSUME NEW t \in Thread, enqueue_resume(t)
        PROVE  NoLostWakeupFull'
    <2>1. CASE /\ PutTail(arg[t])
               /\ pc' = [pc EXCEPT ![t] = "idle"]
               /\ UNCHANGED not_full
      <3>1. t \in AwakeEnqueuers
        BY <1>7 DEF enqueue_resume, AwakeEnqueuers
      <3>2. AwakeEnqueuers' = AwakeEnqueuers \ {t}
        BY <2>1 DEF AwakeEnqueuers, IInv, CallsInv
      <3>3. QED
        BY <2>1, <3>1, <3>2, WakeupKeptByResuming DEF PutTail
    <2>2. CASE size = Capacity /\ UNCHANGED ring
      BY <2>2, WakeupKeptWhenFull DEF ring
    <2>3. QED
      BY <1>7, <2>1, <2>2 DEF enqueue_resume
  <1>8. ASSUME NEW m \in Message, queue_try_enqueue(m)
        PROVE  NoLostWakeupFull'
    BY <1>1, <1>2, <1>8 DEF queue_try_enqueue, PutTail, ring
  <1>9. ASSUME NEW t \in Thread, queue_dequeue(t)
        PROVE  NoLostWakeupFull'
    <2>1. CASE /\ pc' = [pc EXCEPT ![t] = "dequeue"]
               /\ UNCHANGED <<ring, not_full>>
      <3>1. AwakeEnqueuers \subseteq AwakeEnqueuers'
        BY <1>9, <2>1 DEF queue_dequeue, Idle, AwakeEnqueuers, IInv, CallsInv
      <3>2. QED
        BY <1>0, <2>1, <3>1, WakeupKeptByAdding DEF ring
    <2>2. QED
      BY <1>3, <1>9, <2>1 DEF queue_dequeue
  <1>10. ASSUME NEW t \in Thread, dequeue_resume(t)
         PROVE  NoLostWakeupFull'
    <2>1. CASE TakeHead /\ pc' = [pc EXCEPT ![t] = "idle"]
      <3>1. \A u \in Thread : (pc[u] = "enqueue") = (pc'[u] = "enqueue")
        BY <1>10, <2>1 DEF dequeue_resume, IInv, CallsInv
      <3>2. QED
        BY <2>1, <3>1, WakeupKeptByTaking
    <2>2. QED
      BY <1>1, <1>10, <2>1 DEF dequeue_resume, ring
  <1>11. CASE queue_try_dequeue
    BY <1>1, <1>3, <1>11 DEF queue_try_dequeue, ring
  <1>12. ASSUME NEW t \in Thread, spurious_wakeup(t)
         PROVE  NoLostWakeupFull'
    <2>1. AwakeEnqueuers \subseteq AwakeEnqueuers' /\ not_full' \subseteq not_full
      BY <1>12 DEF spurious_wakeup, AwakeEnqueuers
    <2>2. QED
      BY <1>0, <1>12, <2>1, WakeupKeptByAdding DEF spurious_wakeup, ring
  <1>13. ASSUME NEW tag \in 1 .. MaxTag, queue_ack(tag)
         PROVE  NoLostWakeupFull'
    BY <1>1, <1>13 DEF queue_ack, ring, threads
  <1>14. ASSUME NEW tag \in 1 .. MaxTag, NEW requeue \in BOOLEAN,
                queue_reject(tag, requeue)
         PROVE  NoLostWakeupFull'
    BY <1>1, <1>2, <1>14 DEF queue_reject, PutHead, ring, threads
  <1>15. ASSUME NEW deadline \in 0 .. MaxTag, process_timeouts_begin(deadline)
         PROVE  NoLostWakeupFull'
    BY <1>1, <1>15 DEF process_timeouts_begin, ring, threads
  <1>16. CASE process_timeouts_expire
    BY <1>1, <1>2, <1>16 DEF process_timeouts_expire, PutHead, ring, threads
  <1>17. CASE process_timeouts_end
    BY <1>1, <1>17 DEF process_timeouts_end, ring, threads
  <1>18. CASE UNCHANGED vars
    BY <1>1, <1>18 DEF vars, ring, threads
  <1>19. QED
    BY <1>4, <1>5, <1>6, <1>7, <1>8, <1>9, <1>10, <1>11, <1>12, <1>13, <1>14,
       <1>15, <1>16, <1>17, <1>18 DEF Next

\* No producer sleeps in queue_enqueue beside a free slot that nobody awake is
\* about to take: the code's one signal of not_full per dequeue is enough.
THEOREM NoWakeupIsLost == Spec => []NoLostWakeupFull
  <1>1. Init => NoLostWakeupFull
    BY DEF Init, NoLostWakeupFull
  <1>2. QED
    BY <1>1, AlwaysIInv, NextNoLostWakeup, PTL DEF Spec

=============================================================================
