----------------------------- MODULE QueueSpec -----------------------------
(***************************************************************************)
(* What the queue of include/core/queue.h promises its callers, without    *)
(* ring, locks or condition variables: a bounded sequence of ready         *)
(* messages and the set of deliveries that wait for a settlement. A        *)
(* message that is handed out keeps its tag until it is settled; settling  *)
(* either ends it or puts it back in front of every ready message.         *)
(*                                                                         *)
(* The promise ends with the first step that settles a delivery twice      *)
(* (void becomes TRUE).                                                    *)
(***************************************************************************)
EXTENDS Naturals, Sequences

CONSTANTS Message, Capacity

VARIABLES
    ready,      \* messages that wait for a consumer, oldest first
    delivered,  \* deliveries in progress: [message, delivery_tag]
    next_tag,
    void

vars == <<ready, delivered, next_tag, void>>

Init ==
    /\ ready = <<>>
    /\ delivered = {}
    /\ next_tag = 1
    /\ void = FALSE

Publish(m) ==
    /\ Len(ready) < Capacity
    /\ ready' = Append(ready, m)
    /\ UNCHANGED <<delivered, next_tag, void>>

Deliver ==
    /\ ready # <<>>
    /\ delivered' = delivered \union
           {[message |-> Head(ready), delivery_tag |-> next_tag]}
    /\ next_tag' = next_tag + 1
    /\ ready' = Tail(ready)
    /\ UNCHANGED void

\* Acknowledged, rejected for good, or given up because the queue is full.
Settle(d) ==
    /\ delivered' = delivered \ {d}
    /\ UNCHANGED <<ready, next_tag, void>>

\* Rejected with requeue, or timed out.
Redeliver(d) ==
    /\ Len(ready) < Capacity
    /\ delivered' = delivered \ {d}
    /\ ready' = <<d.message>> \o ready
    /\ UNCHANGED <<next_tag, void>>

\* The queue is freed; its successor starts empty.
Reset ==
    /\ ready' = <<>>
    /\ delivered' = {}
    /\ next_tag' = 1
    /\ UNCHANGED void

\* No promise covers this step or a later one.
Void == void' = TRUE

Next ==
    \/ \E m \in Message : Publish(m)
    \/ Deliver
    \/ \E d \in delivered : Settle(d) \/ Redeliver(d)
    \/ Reset
    \/ Void

Spec == Init /\ [][Next]_vars

=============================================================================
