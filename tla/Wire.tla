-------------------------------- MODULE Wire --------------------------------
(***************************************************************************)
(* The frames on a socket (send_message_data and receive_message_data of   *)
(* src/core/connection.c). A frame is ten fields, each sent and received   *)
(* by one call. recv may return a part of a field, and the code then       *)
(* abandons the frame; send may be cut short.                              *)
(*                                                                         *)
(* One direction of a connection is modelled, either one. Towards the      *)
(* broker, any thread of the client sends when it likes, and the reader is *)
(* client_handler_thread, which ends with the first frame it cannot read.  *)
(* Towards the client, the senders are handlers of the broker, one at a    *)
(* time because they hold the broker's mutex, and the reader is            *)
(* connection_receiver_thread, which starts over with the next bytes.      *)
(***************************************************************************)
EXTENDS Naturals, Sequences, FiniteSets

CONSTANTS
    Sender,         \* threads that send
    Message,        \* messages: the lengths of their exchange, key and body
    WordSize,       \* sizeof(uint32_t)
    MaxFrames,      \* bound: how many frames are begun
    MaxLength,      \* bound: lengths that a reader takes from other bytes
    SocketBuffer    \* how many bytes a socket takes before its reader reads

ASSUME BoundsAssumption ==
    /\ MaxFrames \in Nat /\ MaxLength \in Nat
    /\ WordSize \in Nat \ {0}
    /\ SocketBuffer \in Nat /\ SocketBuffer >= 2 * WordSize
ASSUME MessageAssumption ==
    Message \subseteq [exchange : 0 .. SocketBuffer, routing_key : 0 .. SocketBuffer,
                       body : 0 .. SocketBuffer]

\* The calls that send_message_data makes, in order; receive_message_data makes
\* the same. A body of no bytes is skipped, which is as good as sending none.
Fields ==
    <<"magic", "exchange_len", "exchange", "routing_key_len", "routing_key",
      "body_size", "body", "priority", "expiration", "persistent">>

Field == DOMAIN Fields
LastField == Len(Fields)

LengthFields == {2, 4, 6}
TextFields == {3, 5, 7}

\* The other fields are of type uint32_t, or uint64_t, or uint8_t.
FixedSize(i) ==
    CASE Fields[i] = "expiration" -> 2 * WordSize
      [] Fields[i] = "persistent" -> 1
      [] OTHER -> WordSize

Size(i, m) == IF i \in TextFields THEN m[Fields[i]] ELSE FixedSize(i)

VARIABLES
    towards,        \* the end that reads: "broker" or "client"
    frames,         \* the messages whose frames were begun
    sender,         \* a thread's frame, and the field it sends next
    wire,           \* bytes sent and not received, as <<frame, field, byte>>
    closed,         \* the senders' end was closed
    at,             \* the field the reader receives; 0 when it has ended
    len,            \* the length it has received for the next field
    first,          \* history: the frame its magic came from; 0 before it has
                    \* one, and when other bytes passed for it
    intact,         \* history: all its fields are those of that frame so far
    blocks,         \* memory that receive_message_data holds
    misfreed,       \* it has freed what it does not hold
    received,       \* the messages it has returned
    handling,       \* the reader's thread is busy with the last of them
    lost,           \* history: it has abandoned a frame
    damaged         \* history: the first frame that was cut short, or sent
                    \* beside another one

sending == <<frames, sender, closed>>
reading == <<at, len, first, intact, blocks, misfreed, received, handling, lost>>
vars    == <<towards, sending, wire, reading, damaged>>

-----------------------------------------------------------------------------
(***************************************************************************)
(* send_message_data.                                                      *)
(***************************************************************************)
Idle == [frame |-> 0, field |-> 1]

Busy == {t \in Sender : sender[t] # Idle}

Bytes(f, i, n) == [b \in 1 .. n |-> <<f, i, b>>]

SetMin(S) == CHOOSE n \in S : \A k \in S : n <= k

\* send blocks until the socket has taken the field.
Room(n) == Len(wire) + n <= SocketBuffer

\* The broker forwards under its mutex; connection_send holds none.
MaySend(t) == towards = "client" => Busy = {}

send_message_data(t, m) ==
    /\ ~closed
    /\ t \notin Busy /\ MaySend(t)
    /\ Len(frames) < MaxFrames
    /\ frames' = Append(frames, m)
    /\ sender' = [sender EXCEPT ![t] = [frame |-> Len(frames) + 1, field |-> 1]]
    /\ damaged' = SetMin({damaged} \union {sender[u].frame : u \in Busy})
    /\ UNCHANGED <<towards, closed, wire, reading>>

\* The next field; with the last one the call returns 1.
send_field(t) ==
    /\ ~closed
    /\ t \in Busy
    /\ LET f == sender[t].frame
           i == sender[t].field
           n == Size(i, frames[f])
       IN  /\ Room(n)
           /\ wire' = wire \o Bytes(f, i, n)
           /\ sender' = [sender EXCEPT ![t] =
                IF i = LastField THEN Idle ELSE [frame |-> f, field |-> i + 1]]
    /\ UNCHANGED <<towards, frames, closed, reading, damaged>>

\* A signal interrupts the call of send after some of the bytes, and
\* send_message_data returns 0. The bytes that went out stay in the stream.
send_short(t) ==
    /\ ~closed
    /\ t \in Busy
    /\ LET f == sender[t].frame
           i == sender[t].field
       IN  /\ \E n \in 0 .. (Size(i, frames[f]) - 1) :
                Room(n) /\ wire' = wire \o Bytes(f, i, n)
           /\ damaged' = SetMin({damaged, f})
    /\ sender' = [sender EXCEPT ![t] = Idle]
    /\ UNCHANGED <<towards, frames, closed, reading>>

\* The senders' process closes the socket, or ends.
close ==
    /\ ~closed
    /\ closed' = TRUE
    /\ UNCHANGED <<towards, frames, sender, wire, reading, damaged>>

-----------------------------------------------------------------------------
(***************************************************************************)
(* receive_message_data.                                                   *)
(***************************************************************************)
Mutant_Want_terminated == IF at \in TextFields THEN len + 1 ELSE FixedSize(at)

Want == IF at \in TextFields THEN len ELSE FixedSize(at)

\* The bytes of a magic. Others may be equal to them: a name, a body or a number
\* can be anything.
IsMagic(word) == \A b \in DOMAIN word : word[b][2] = 1 /\ word[b][3] = b

\* A length is what some length field says; other bytes may be any number. (The
\* bound leaves out 2^32 - 1, to which the code adds 1 before it calls malloc.)
Decode(word) ==
    IF \E f \in DOMAIN frames, i \in LengthFields : word = Bytes(f, i, WordSize)
    THEN {Size(word[1][2] + 1, frames[word[1][1]])}
    ELSE 0 .. MaxLength

\* What is freed when recv of field i is short, ...
Mutant_FreedWhenShort_keyForgotten(i) ==
    CASE i \in {3, 4} -> {"exchange"}
      [] i \in {5, 6} -> {"exchange"}
      [] i = 7 -> {"exchange", "routing_key", "body"}
      [] i \in {8, 9, 10} -> {"message"}
      [] OTHER -> {}

FreedWhenShort(i) ==
    CASE i \in {3, 4} -> {"exchange"}
      [] i \in {5, 6} -> {"exchange", "routing_key"}
      [] i = 7 -> {"exchange", "routing_key", "body"}
      [] i \in {8, 9, 10} -> {"message"}
      [] OTHER -> {}

\* ... and when the memory that is needed after field i cannot be had.
FreedWithoutMemory(i) ==
    CASE i = 4 -> {"exchange"}
      [] i = 6 -> {"exchange", "routing_key"}
      [] i = 7 -> blocks \ {"message"}
      [] OTHER -> {}

Mutant_NextFrame_always == 1

Mutant_NextFrame_never == 0

\* A handler of the broker ends; the receiver thread of a client sleeps a
\* little and calls again.
NextFrame == IF towards = "broker" THEN 0 ELSE 1

\* receive_message_data returns NULL, having freed some blocks.
Abandons(freed) ==
    /\ at' = NextFrame
    /\ blocks' = blocks \ freed
    /\ misfreed' = (misfreed \/ ~(freed \subseteq blocks))
    /\ len' = 0 /\ first' = 0 /\ intact' = FALSE
    /\ lost' = TRUE
    /\ UNCHANGED <<received, handling>>

\* recv returns fewer bytes than were asked for: 0 at the end of the stream.
recv_short ==
    /\ at # 0 /\ ~handling /\ Want > 0
    /\ \/ \E n \in 1 .. SetMin({Want - 1, Len(wire)}) :
            wire' = SubSeq(wire, n + 1, Len(wire))
       \/ closed /\ wire = <<>> /\ UNCHANGED wire
    /\ Abandons(FreedWhenShort(at))
    /\ UNCHANGED <<towards, sending, damaged>>

\* The memory that is allocated once field at has arrived, if any.
Allocated ==
    CASE at = 2 -> {"exchange"}
      [] at = 4 -> {"routing_key"}
      [] at = 6 /\ len' > 0 -> {"body"}
      [] at = 7 -> {"message"}
      [] OTHER -> {}

\* message_create copies its arguments, which are then freed.
Released == IF at = 7 THEN {"exchange", "routing_key", "body"} ELSE {}

\* The bytes are field at of frame f.
Belongs(word, f) == word = Bytes(f, at, Size(at, frames[f]))

\* The field arrived whole, and the reader goes on with the next one, or
\* returns the message.
Proceeds(word) ==
    /\ first' = IF at > 1 THEN first ELSE IF IsMagic(word) THEN word[1][1] ELSE 0
    /\ intact' = ((at = 1 \/ intact) /\ Belongs(word, first'))
    /\ len' \in IF at \in LengthFields THEN Decode(word) ELSE {0}
    /\ blocks' = (blocks \ Released) \union Allocated
    /\ at' = at + 1
    /\ UNCHANGED <<misfreed, received, handling, lost>>

Returns(word) ==
    /\ received' = Append(received,
         [frame |-> first, intact |-> intact /\ Belongs(word, first)])
    /\ at' = 1 /\ len' = 0 /\ first' = 0 /\ intact' = FALSE
    /\ blocks' = blocks \ {"message"}
    /\ handling' = TRUE
    /\ UNCHANGED <<misfreed, lost>>

\* A whole field arrives. Bytes in the place of the magic that are none are
\* refused, unless they happen to be equal to it.
recv_field ==
    /\ at # 0 /\ ~handling /\ Want <= Len(wire)
    /\ wire' = SubSeq(wire, Want + 1, Len(wire))
    /\ LET word == SubSeq(wire, 1, Want)
       IN  \/ at = 1 /\ ~IsMagic(word) /\ Abandons({})
           \/ at < LastField /\ Proceeds(word)
           \/ at = LastField /\ Returns(word)
           \/ /\ at \in {2, 4, 7} \/ (at = 6 /\ Decode(word) # {0})
              /\ Abandons(FreedWithoutMemory(at))
    /\ UNCHANGED <<towards, sending, damaged>>

\* The reader's thread is done with the message, that is broker_publish or the
\* program's onMessage has returned. A handler whose flag was cleared meanwhile
\* ends.
handle_message ==
    /\ handling
    /\ handling' = FALSE
    /\ at' \in {1, NextFrame}
    /\ UNCHANGED <<towards, sending, wire, len, first, intact, blocks, misfreed, received,
                   lost, damaged>>

-----------------------------------------------------------------------------
Init ==
    /\ towards \in {"broker", "client"}
    /\ frames = <<>>
    /\ sender = [t \in Sender |-> Idle]
    /\ wire = <<>> /\ closed = FALSE
    /\ at = 1 /\ len = 0 /\ first = 0 /\ intact = FALSE
    /\ blocks = {} /\ misfreed = FALSE
    /\ received = <<>> /\ handling = FALSE /\ lost = FALSE
    /\ damaged = MaxFrames + 1

Read == recv_short \/ recv_field

Next ==
    \/ \E t \in Sender :
         \/ \E m \in Message : send_message_data(t, m)
         \/ send_field(t)
         \/ send_short(t)
    \/ close
    \/ Read
    \/ handle_message

Spec == Init /\ [][Next]_vars

\* Inside receive_message_data the reader reads what there is, and a thread that
\* waits for room in the socket gets it in the end. Nobody need begin to send, and
\* nobody need be done with a message: a publish waits for the broker's mutex and
\* for other clients, and onMessage is the program's.
FairSpec == Spec /\ WF_vars(Read) /\ \A t \in Sender : SF_vars(send_field(t))

-----------------------------------------------------------------------------
(***************************************************************************)
(* Properties that hold.                                                   *)
(***************************************************************************)
\* Counters and positions keep their types, and the socket its limit.
TypeOK ==
    /\ towards \in {"broker", "client"} /\ closed \in BOOLEAN
    /\ Len(frames) <= MaxFrames /\ \A f \in DOMAIN frames : frames[f] \in Message
    /\ sender \in [Sender -> [frame : 0 .. MaxFrames, field : Field]]
    /\ Len(wire) <= SocketBuffer
    /\ at \in Field \/ (at = 0 /\ towards = "broker")
    /\ len \in Nat
    /\ first \in 0 .. Len(frames) /\ intact \in BOOLEAN
    /\ blocks \subseteq {"exchange", "routing_key", "body", "message"}
    /\ misfreed \in BOOLEAN
    /\ handling \in BOOLEAN /\ lost \in BOOLEAN
    /\ \A i \in DOMAIN received :
         received[i] \in [frame : 0 .. Len(frames), intact : BOOLEAN]
    /\ damaged \in 1 .. (MaxFrames + 1)

\* Every way out of receive_message_data, at whatever field and for whatever
\* reason, frees exactly what it holds: between two frames it holds nothing.
NothingHeldBetweenFrames == ~misfreed /\ (at \in {0, 1} => blocks = {})

\* A message whose header is the header of a frame that was sent whole, and not
\* beside another, is that frame, however the stream was cut into reads and
\* whatever the reader took for a header before; each frame is returned at most
\* once, and they come in order. (A client that lost its place inside a frame may
\* return messages that nobody sent, made of bytes that pass for a header.)
ReturnsWhatWasSent ==
    \A i \in DOMAIN received : received[i].frame \in 1 .. (damaged - 1) =>
        /\ received[i].intact
        /\ \A j \in 1 .. (i - 1) : received[j].frame < received[i].frame

\* A reader that has abandoned no frame has made no such message up, and has missed
\* none: it has returned the first so many frames as they were sent. The handler
\* of the broker, which ends with the first frame it cannot read, never does.
NoneMissedUntilLost ==
    towards = "broker" \/ ~lost =>
        \A i \in DOMAIN received : i < damaged =>
            received[i].frame = i /\ received[i].intact

\* A thread does not block in send for ever: the reader goes on reading, whatever
\* it makes of the bytes, unless it is a handler of the broker that has ended, or
\* its thread stays for ever with a message it has returned.
SendReturns ==
    []<>~handling =>
        \A t \in Sender :
            t \in Busy ~> (t \notin Busy \/ closed \/ (towards = "broker" /\ at = 0))

=============================================================================
