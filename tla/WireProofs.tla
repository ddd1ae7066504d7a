----------------------------- MODULE WireProofs -----------------------------
(***************************************************************************)
(* Proofs about module Wire, for any number of threads, frames and bytes,  *)
(* and for every way of cutting the stream into reads.                     *)
(***************************************************************************)
EXTENDS Wire, SequenceTheorems, TLAPS

LOCAL T == INSTANCE TopicProofs

-----------------------------------------------------------------------------
(***************************************************************************)
(* Sizes, and sequences of bytes.                                          *)
(***************************************************************************)
\* A byte is named by its frame, its field and its place in the field.
Byte == Nat \X (1 .. 10) \X Nat

\* The ten fields.
LEMMA FieldNames ==
  /\ Field = 1 .. 10 /\ LastField = 10
  /\ Fields[3] = "exchange" /\ Fields[5] = "routing_key" /\ Fields[7] = "body"
  /\ Fields[9] = "expiration" /\ Fields[10] = "persistent"
  /\ \A i \in {1, 2, 4, 6, 8} : Fields[i] \notin {"expiration", "persistent"}
  BY DEF Field, LastField, Fields

\* The size of a field. Only the texts may be empty.
LEMMA FixedSizes ==
  /\ FixedSize(9) = 2 * WordSize /\ FixedSize(10) = 1
  /\ \A i \in {1, 2, 4, 6, 8} : FixedSize(i) = WordSize
  BY FieldNames DEF FixedSize

\* The same for the fields of a message.
LEMMA Sizes ==
  ASSUME NEW m \in Message
  PROVE  /\ Size(3, m) = m.exchange /\ Size(5, m) = m.routing_key /\ Size(7, m) = m.body
         /\ m.exchange \in Nat /\ m.routing_key \in Nat /\ m.body \in Nat
         /\ \A i \in {1, 2, 4, 6, 8} : Size(i, m) = WordSize
         /\ Size(9, m) = 2 * WordSize /\ Size(10, m) = 1
<1>1. /\ Size(3, m) = m.exchange /\ Size(5, m) = m.routing_key /\ Size(7, m) = m.body
  BY FieldNames DEF Size, TextFields
<1>2. m.exchange \in Nat /\ m.routing_key \in Nat /\ m.body \in Nat
  BY MessageAssumption, BoundsAssumption
<1>3. /\ \A i \in {1, 2, 4, 6, 8} : Size(i, m) = WordSize
      /\ Size(9, m) = 2 * WordSize /\ Size(10, m) = 1
  BY FixedSizes DEF Size, TextFields
<1> QED  BY <1>1, <1>2, <1>3

\* A size is a number.
LEMMA SizeIsNatural ==
  ASSUME NEW m \in Message, NEW i \in 1 .. 10
  PROVE  Size(i, m) \in Nat
  BY Sizes, BoundsAssumption

\* The bytes of a field.
LEMMA BytesAreBytes ==
  ASSUME NEW f \in Nat, NEW i \in 1 .. 10, NEW n \in Nat
  PROVE  /\ Bytes(f, i, n) \in Seq(Byte) /\ Len(Bytes(f, i, n)) = n
         /\ \A b \in 1 .. n : Bytes(f, i, n)[b] = <<f, i, b>>
<1>1. \A b \in 1 .. n : <<f, i, b>> \in Byte
  BY DEF Byte
<1>2. Bytes(f, i, n) \in [1 .. n -> Byte]
  BY <1>1 DEF Bytes
<1>3. Bytes(f, i, n) \in Seq(Byte)
  BY <1>2
<1> QED  BY <1>2, <1>3 DEF Bytes

\* What is left when n bytes are read.
LEMMA Suffix ==
  ASSUME NEW S, NEW s \in Seq(S), NEW n \in 0 .. Len(s)
  PROVE  /\ SubSeq(s, n + 1, Len(s)) \in Seq(S)
         /\ Len(SubSeq(s, n + 1, Len(s))) = Len(s) - n
         /\ \A k \in 1 .. (Len(s) - n) : SubSeq(s, n + 1, Len(s))[k] = s[k + n]
<1>1. n + 1 \in Int /\ Len(s) \in Int /\ \A i \in (n + 1) .. Len(s) : s[i] \in S
  OBVIOUS
<1>2. /\ SubSeq(s, n + 1, Len(s)) \in Seq(S)
      /\ Len(SubSeq(s, n + 1, Len(s))) = IF n + 1 <= Len(s) THEN Len(s) - (n + 1) + 1 ELSE 0
      /\ \A i \in 1 .. (Len(s) - (n + 1) + 1) : SubSeq(s, n + 1, Len(s))[i] = s[(n + 1) + i - 1]
  BY <1>1, SubSeqProperties
<1>3. /\ Len(s) - (n + 1) + 1 = Len(s) - n
      /\ \A i \in 1 .. (Len(s) - n) : (n + 1) + i - 1 = i + n
  OBVIOUS
<1>4. Len(SubSeq(s, n + 1, Len(s))) = Len(s) - n
  BY <1>2
<1>5. \A k \in 1 .. (Len(s) - n) : SubSeq(s, n + 1, Len(s))[k] = s[k + n]
  BY <1>2, <1>3
<1> QED  BY <1>2, <1>4, <1>5

\* What is read with them.
LEMMA Prefix ==
  ASSUME NEW S, NEW s \in Seq(S), NEW n \in 0 .. Len(s)
  PROVE  /\ SubSeq(s, 1, n) \in Seq(S) /\ Len(SubSeq(s, 1, n)) = n
         /\ \A k \in 1 .. n : SubSeq(s, 1, n)[k] = s[k]
<1>1. 1 \in Int /\ n \in Int /\ \A i \in 1 .. n : s[i] \in S
  OBVIOUS
<1>2. /\ SubSeq(s, 1, n) \in Seq(S)
      /\ Len(SubSeq(s, 1, n)) = IF 1 <= n THEN n - 1 + 1 ELSE 0
      /\ \A i \in 1 .. (n - 1 + 1) : SubSeq(s, 1, n)[i] = s[1 + i - 1]
  BY <1>1, SubSeqProperties
<1> QED  BY <1>2

\* The least element of a set of naturals.
LEMMA SetMinProperties ==
  ASSUME NEW S \in SUBSET Nat, S # {}
  PROVE  SetMin(S) \in S /\ \A k \in S : SetMin(S) <= k
<1>1. \E n \in S : \A k \in S : n <= k
  BY T!LeastNatural
<1> QED  BY <1>1 DEF SetMin

-----------------------------------------------------------------------------
(***************************************************************************)
(* Types.                                                                  *)
(***************************************************************************)
\* The senders: a thread that sends has a frame.
SendTypes ==
    /\ towards \in {"broker", "client"} /\ closed \in BOOLEAN
    /\ frames \in Seq(Message) /\ Len(frames) <= MaxFrames
    /\ sender \in [Sender -> [frame : 0 .. MaxFrames, field : 1 .. 10]]
    /\ \A t \in Busy : sender[t].frame \in 1 .. Len(frames)
    /\ damaged \in 1 .. (MaxFrames + 1)

\* The socket: its bytes come from frames that were begun.
WireTypes ==
    /\ wire \in Seq(Byte) /\ Len(wire) <= SocketBuffer
    /\ \A k \in 1 .. Len(wire) : wire[k][1] \in 1 .. Len(frames)

\* The reader: what it returns comes from a frame that was begun, or from none.
ReadTypes ==
    /\ at \in 1 .. 10 \/ (at = 0 /\ towards = "broker")
    /\ len \in Nat /\ intact \in BOOLEAN /\ misfreed \in BOOLEAN
    /\ handling \in BOOLEAN /\ lost \in BOOLEAN /\ (handling => at = 1)
    /\ first \in 0 .. Len(frames)
    /\ blocks \subseteq {"exchange", "routing_key", "body", "message"}
    /\ received \in Seq([frame : Nat, intact : BOOLEAN])
    /\ \A i \in 1 .. Len(received) : received[i].frame \in 0 .. Len(frames)

Types == SendTypes /\ WireTypes /\ ReadTypes

\* Bytes go into the socket at its end, ...
Enters(f, i, n) ==
    /\ wire' \in Seq(Byte) /\ Len(wire') = Len(wire) + n /\ Len(wire') <= SocketBuffer
    /\ \A k \in 1 .. Len(wire) : wire'[k] = wire[k]
    /\ \A b \in 1 .. n : wire'[Len(wire) + b] = <<f, i, b>>
    /\ \A k \in 1 .. Len(wire') :
         k \in 1 .. Len(wire) \/ \E b \in 1 .. n : k = Len(wire) + b

\* ... and leave it at its front.
Leaves(n) ==
    /\ n \in 0 .. Len(wire)
    /\ wire' \in Seq(Byte) /\ Len(wire') = Len(wire) - n
    /\ \A k \in 1 .. Len(wire') : wire'[k] = wire[k + n] /\ k + n \in 1 .. Len(wire)

\* Bytes that a call of send puts into the socket.
LEMMA Entering ==
  ASSUME Types, NEW f \in Nat, NEW i \in 1 .. 10, NEW n \in Nat, Room(n),
         wire' = wire \o Bytes(f, i, n)
  PROVE  Enters(f, i, n)
<1> DEFINE s == Bytes(f, i, n)
<1>1. s \in Seq(Byte) /\ Len(s) = n /\ \A b \in 1 .. n : s[b] = <<f, i, b>>
  BY BytesAreBytes
<1>2. wire \in Seq(Byte) /\ wire' = wire \o s
  BY DEF Types, WireTypes
<1> HIDE DEF s
<1>3. /\ wire' \in Seq(Byte) /\ Len(wire') = Len(wire) + n
      /\ \A k \in 1 .. (Len(wire) + n) :
           wire'[k] = IF k <= Len(wire) THEN wire[k] ELSE s[k - Len(wire)]
  <2>1. /\ wire \o s \in Seq(Byte) /\ Len(wire \o s) = Len(wire) + Len(s)
        /\ \A k \in 1 .. (Len(wire) + Len(s)) :
             (wire \o s)[k] = IF k <= Len(wire) THEN wire[k] ELSE s[k - Len(wire)]
    <3>1. s \in Seq(Byte) /\ wire \in Seq(Byte)
      BY <1>1, <1>2
    <3> QED  BY <3>1, ConcatProperties, Zenon
  <2> QED  BY <1>1, <1>2, <2>1
<1>4. Len(wire) \in Nat
  BY <1>2
<1>5. \A k \in 1 .. Len(wire) : wire'[k] = wire[k]
  BY <1>3, <1>4
<1>6. \A b \in 1 .. n : wire'[Len(wire) + b] = <<f, i, b>>
  <2> SUFFICES ASSUME NEW b \in 1 .. n
               PROVE  wire'[Len(wire) + b] = <<f, i, b>>
    OBVIOUS
  <2>1. /\ Len(wire) + b \in 1 .. (Len(wire) + n) /\ ~(Len(wire) + b <= Len(wire))
        /\ (Len(wire) + b) - Len(wire) = b
    BY <1>4
  <2> QED  BY <1>1, <1>3, <2>1
<1>7. \A k \in 1 .. Len(wire') :
        k \in 1 .. Len(wire) \/ \E b \in 1 .. n : k = Len(wire) + b
  <2> SUFFICES ASSUME NEW k \in 1 .. Len(wire'), k \notin 1 .. Len(wire)
               PROVE  \E b \in 1 .. n : k = Len(wire) + b
    OBVIOUS
  <2>1. k - Len(wire) \in 1 .. n /\ k = Len(wire) + (k - Len(wire))
    BY <1>3, <1>4
  <2> QED  BY <2>1
<1>8. Len(wire') <= SocketBuffer
  BY <1>3 DEF Room
<1> QED  BY <1>3, <1>5, <1>6, <1>7, <1>8 DEF Enters

\* They come from a frame that was begun.
LEMMA EnteredTypes ==
  ASSUME Types, NEW f \in 1 .. Len(frames), NEW i, NEW n \in Nat, Enters(f, i, n),
         UNCHANGED frames
  PROVE  WireTypes'
<1> SUFFICES ASSUME NEW k \in 1 .. Len(wire') PROVE wire'[k][1] \in 1 .. Len(frames)
  BY DEF Enters, WireTypes
<1>1. CASE k \in 1 .. Len(wire)
  BY <1>1 DEF Enters, Types, WireTypes
<1>2. ASSUME NEW b \in 1 .. n, k = Len(wire) + b PROVE wire'[k][1] \in 1 .. Len(frames)
  <2>1. wire'[k] = <<f, i, b>>
    BY <1>2 DEF Enters
  <2> QED  BY <2>1
<1> QED  BY <1>1, <1>2 DEF Enters

\* Bytes that a call of recv takes out of it.
LEMMA Leaving ==
  ASSUME Types, NEW n \in 0 .. Len(wire), wire' = SubSeq(wire, n + 1, Len(wire))
  PROVE  Leaves(n)
<1>1. wire \in Seq(Byte)
  BY DEF Types, WireTypes
<1>2. /\ wire' \in Seq(Byte) /\ Len(wire') = Len(wire) - n
      /\ \A k \in 1 .. (Len(wire) - n) : wire'[k] = wire[k + n]
  <2>1. /\ SubSeq(wire, n + 1, Len(wire)) \in Seq(Byte)
        /\ Len(SubSeq(wire, n + 1, Len(wire))) = Len(wire) - n
        /\ \A k \in 1 .. (Len(wire) - n) : SubSeq(wire, n + 1, Len(wire))[k] = wire[k + n]
    BY <1>1, Suffix, Zenon
  <2> QED  BY <2>1
<1>3. Len(wire) \in Nat
  BY <1>1
<1>4. \A k \in 1 .. Len(wire') : k + n \in 1 .. Len(wire)
  BY <1>2, <1>3
<1> QED  BY <1>2, <1>4 DEF Leaves

\* A thread begins a frame, ...
LEMMA BeginTypes ==
  ASSUME Types, NEW t \in Sender, NEW m \in Message, send_message_data(t, m)
  PROVE  /\ Types'
         /\ frames' = Append(frames, m) /\ Len(frames') = Len(frames) + 1
         /\ \A f \in 1 .. Len(frames) : frames'[f] = frames[f]
         /\ damaged' <= damaged /\ \A u \in Busy : damaged' <= sender[u].frame
<1> USE BoundsAssumption
<1>1. /\ frames \in Seq(Message) /\ Len(frames) \in Nat /\ Len(frames) < MaxFrames
      /\ frames' = Append(frames, m)
  BY DEF Types, SendTypes, send_message_data
<1>2. frames' \in Seq(Message) /\ Len(frames') = Len(frames) + 1
      /\ \A f \in 1 .. Len(frames) : frames'[f] = frames[f]
  BY <1>1
<1>3. /\ sender' = [sender EXCEPT ![t] = [frame |-> Len(frames) + 1, field |-> 1]]
      /\ UNCHANGED <<towards, closed, wire, at, len, first, intact, blocks, misfreed, received,
                     handling, lost>>
  BY DEF send_message_data, reading
<1>4. Len(frames) + 1 \in 0 .. MaxFrames /\ Len(frames) + 1 \in 1 .. Len(frames')
  BY <1>1, <1>2
<1>5. /\ damaged' \in {damaged} \union {sender[u].frame : u \in Busy}
      /\ damaged' <= damaged /\ \A u \in Busy : damaged' <= sender[u].frame
      /\ damaged' \in 1 .. (MaxFrames + 1)
  <2> DEFINE S == {damaged} \union {sender[u].frame : u \in Busy}
  <2>1. \A k \in S : k \in 1 .. (MaxFrames + 1)
    BY <1>1 DEF Types, SendTypes
  <2>2. S \in SUBSET Nat /\ S # {} /\ damaged \in S /\ \A u \in Busy : sender[u].frame \in S
    BY <2>1
  <2>3. damaged' = SetMin(S)
    BY DEF send_message_data
  <2> HIDE DEF S
  <2>4. SetMin(S) \in S /\ \A k \in S : SetMin(S) <= k
    BY <2>2, SetMinProperties
  <2>5. damaged' \in S /\ damaged' \in 1 .. (MaxFrames + 1)
    BY <2>1, <2>3, <2>4
  <2>6. damaged' <= damaged /\ \A u \in Busy : damaged' <= sender[u].frame
    BY <2>2, <2>3, <2>4
  <2> QED  BY <2>5, <2>6 DEF S
<1>6. sender' \in [Sender -> [frame : 0 .. MaxFrames, field : 1 .. 10]]
  BY <1>3, <1>4 DEF Types, SendTypes
<1>7. \A u \in Busy' : sender'[u].frame \in 1 .. Len(frames')
  <2> SUFFICES ASSUME NEW u \in Busy' PROVE sender'[u].frame \in 1 .. Len(frames')
    OBVIOUS
  <2>1. CASE u = t
    BY <1>3, <1>4, <2>1 DEF Types, SendTypes
  <2>2. CASE u # t
    <3>1. u \in Busy /\ sender'[u] = sender[u]
      BY <1>3, <2>2 DEF Busy, Types, SendTypes
    <3> QED  BY <1>1, <1>2, <3>1 DEF Types, SendTypes
  <2> QED  BY <2>1, <2>2
<1>8. SendTypes'
  BY <1>1, <1>2, <1>3, <1>5, <1>6, <1>7 DEF Types, SendTypes
<1>9. \A k \in 1 .. Len(frames) : k \in 1 .. Len(frames')
  BY <1>1, <1>2
<1>10. WireTypes'
  BY <1>3, <1>9 DEF Types, WireTypes
<1>11. ReadTypes'
  <2>1. first' \in 0 .. Len(frames')
    BY <1>1, <1>2, <1>3 DEF Types, ReadTypes
  <2>2. \A k \in 0 .. Len(frames) : k \in 0 .. Len(frames')
    BY <1>1, <1>2
  <2> QED  BY <1>3, <2>1, <2>2 DEF Types, ReadTypes
<1> QED  BY <1>1, <1>2, <1>5, <1>8, <1>10, <1>11 DEF Types

\* ... sends a field of it, ...
LEMMA FieldTypes ==
  ASSUME Types, NEW t \in Sender, send_field(t)
  PROVE  /\ Types'
         /\ sender[t].frame \in 1 .. Len(frames) /\ sender[t].field \in 1 .. 10 /\ t \in Busy
         /\ LET f == sender[t].frame
                i == sender[t].field
            IN  /\ Enters(f, i, Size(i, frames[f]))
                /\ sender' = [sender EXCEPT ![t] =
                     IF i = 10 THEN Idle ELSE [frame |-> f, field |-> i + 1]]
         /\ UNCHANGED <<towards, frames, closed, reading, damaged>>
<1> USE BoundsAssumption
<1>1. PICK f, i : f = sender[t].frame /\ i = sender[t].field
  OBVIOUS
<1>2. /\ f \in 1 .. Len(frames) /\ i \in 1 .. 10 /\ t \in Busy /\ f \in 0 .. MaxFrames /\ f \in Nat
  BY <1>1 DEF send_field, Types, SendTypes
<1>3. PICK n : n = Size(i, frames[f])
  OBVIOUS
<1>4. n \in Nat
  <2>1. frames[f] \in Message
    BY <1>2 DEF Types, SendTypes
  <2> QED  BY <1>2, <1>3, <2>1, SizeIsNatural
<1>5. /\ Room(n) /\ wire' = wire \o Bytes(f, i, n)
      /\ sender' = [sender EXCEPT ![t] =
                IF i = 10 THEN Idle ELSE [frame |-> f, field |-> i + 1]]
      /\ UNCHANGED <<towards, frames, closed, reading, damaged>>
  BY <1>1, <1>3, FieldNames DEF send_field
<1>6. Enters(f, i, n)
  BY <1>2, <1>4, <1>5, Entering
<1>7. sender' \in [Sender -> [frame : 0 .. MaxFrames, field : 1 .. 10]]
  <2>1. Idle \in [frame : 0 .. MaxFrames, field : 1 .. 10]
    BY DEF Idle
  <2>2. i # 10 => i + 1 \in 1 .. 10
    BY <1>2
  <2> QED  BY <1>2, <1>5, <2>1, <2>2 DEF Types, SendTypes
<1>8. \A u \in Busy' : sender'[u].frame \in 1 .. Len(frames')
  BY <1>2, <1>5, <1>7 DEF Busy, Types, SendTypes
<1>9. SendTypes'
  BY <1>5, <1>7, <1>8 DEF Types, SendTypes
<1>10. WireTypes'
  <2>1. UNCHANGED frames
    BY <1>5
  <2> QED  BY <1>2, <1>4, <1>6, <2>1, EnteredTypes
<1>11. ReadTypes'
  BY <1>5 DEF Types, ReadTypes, reading
<1> QED  BY <1>1, <1>2, <1>3, <1>5, <1>6, <1>9, <1>10, <1>11 DEF Types

\* ... or is interrupted.
LEMMA ShortTypes ==
  ASSUME Types, NEW t \in Sender, send_short(t)
  PROVE  /\ Types'
         /\ sender[t].frame \in 1 .. Len(frames) /\ sender[t].field \in 1 .. 10 /\ t \in Busy
         /\ \E n \in Nat : Enters(sender[t].frame, sender[t].field, n)
         /\ sender' = [sender EXCEPT ![t] = Idle]
         /\ damaged' <= damaged /\ damaged' <= sender[t].frame
         /\ UNCHANGED <<towards, frames, closed, reading>>
<1> USE BoundsAssumption
<1>1. PICK f, i : f = sender[t].frame /\ i = sender[t].field
  OBVIOUS
<1>2. /\ f \in 1 .. Len(frames) /\ i \in 1 .. 10 /\ t \in Busy /\ f \in 0 .. MaxFrames /\ f \in Nat
  BY <1>1 DEF send_short, Types, SendTypes
<1>3. /\ \E n \in 0 .. (Size(i, frames[f]) - 1) : Room(n) /\ wire' = wire \o Bytes(f, i, n)
      /\ damaged' = SetMin({damaged, f})
      /\ sender' = [sender EXCEPT ![t] = Idle]
      /\ UNCHANGED <<towards, frames, closed, reading>>
  BY <1>1 DEF send_short
<1>4. Size(i, frames[f]) \in Nat
  <2>1. frames[f] \in Message
    BY <1>2 DEF Types, SendTypes
  <2> QED  BY <1>2, <2>1, SizeIsNatural
<1>5. PICK n \in Nat : Room(n) /\ wire' = wire \o Bytes(f, i, n)
  <2>1. \A n \in 0 .. (Size(i, frames[f]) - 1) : n \in Nat
    BY <1>4
  <2> QED  BY <1>3, <2>1, Zenon
<1>6. Enters(f, i, n)
  BY <1>2, <1>5, Entering
<1>7. damaged' \in {damaged, f} /\ damaged' <= damaged /\ damaged' <= f
  <2>1. {damaged, f} \in SUBSET Nat /\ {damaged, f} # {}
    BY <1>2 DEF Types, SendTypes
  <2> QED  BY <1>3, <2>1, SetMinProperties
<1>8. damaged' \in 1 .. (MaxFrames + 1)
  BY <1>2, <1>7 DEF Types, SendTypes
<1>9. sender' \in [Sender -> [frame : 0 .. MaxFrames, field : 1 .. 10]]
  <2>1. Idle \in [frame : 0 .. MaxFrames, field : 1 .. 10]
    BY DEF Idle
  <2> QED  BY <1>3, <2>1 DEF Types, SendTypes
<1>10. \A u \in Busy' : sender'[u].frame \in 1 .. Len(frames')
  BY <1>2, <1>3, <1>9 DEF Busy, Types, SendTypes
<1>11. SendTypes'
  BY <1>3, <1>8, <1>9, <1>10 DEF Types, SendTypes
<1>12. WireTypes'
  <2>1. UNCHANGED frames
    BY <1>3
  <2> QED  BY <1>2, <1>5, <1>6, <2>1, EnteredTypes
<1>13. ReadTypes'
  BY <1>3 DEF Types, ReadTypes, reading
<1> QED  BY <1>1, <1>2, <1>3, <1>6, <1>7, <1>11, <1>12, <1>13 DEF Types

\* How many bytes the reader asks for.
LEMMA WantIsNatural ==
  ASSUME Types, at # 0
  PROVE  /\ at \in 1 .. 10 /\ Want \in Nat
         /\ at \in TextFields => Want = len
         /\ at \notin TextFields => Want = FixedSize(at) /\ Want > 0
<1>1. at \in 1 .. 10 /\ len \in Nat
  BY DEF Types, ReadTypes
<1>2. at \in TextFields => Want = len
  BY DEF Want
<1>3. at \notin TextFields => Want = FixedSize(at) /\ FixedSize(at) \in Nat /\ FixedSize(at) > 0
  BY <1>1, FixedSizes, BoundsAssumption DEF Want, TextFields
<1> QED  BY <1>1, <1>2, <1>3

\* The field that arrives.
LEMMA WordProperties ==
  ASSUME Types, at # 0, Want <= Len(wire), NEW word, word = SubSeq(wire, 1, Want)
  PROVE  /\ word \in Seq(Byte) /\ Len(word) = Want /\ DOMAIN word = 1 .. Want
         /\ \A b \in 1 .. Want : word[b] = wire[b] /\ b \in 1 .. Len(wire)
<1>1. Want \in Nat /\ wire \in Seq(Byte) /\ Len(wire) \in Nat
  BY WantIsNatural DEF Types, WireTypes
<1>2. Want \in 0 .. Len(wire)
  BY <1>1
<1>3. /\ SubSeq(wire, 1, Want) \in Seq(Byte) /\ Len(SubSeq(wire, 1, Want)) = Want
      /\ \A k \in 1 .. Want : SubSeq(wire, 1, Want)[k] = wire[k]
  BY <1>1, <1>2, Prefix, Zenon
<1>4. \A b \in 1 .. Want : b \in 1 .. Len(wire)
  BY <1>1
<1> QED  BY <1>3, <1>4

\* What a length field says.
LEMMA Decoded ==
  ASSUME Types, NEW word
  PROVE  /\ Decode(word) \subseteq Nat
         /\ \A f \in 1 .. Len(frames), i \in LengthFields :
              word = Bytes(f, i, WordSize) => Decode(word) = {Size(i + 1, frames[f])}
<1>1. frames \in Seq(Message) /\ DOMAIN frames = 1 .. Len(frames)
  BY DEF Types, SendTypes
<1>2. ASSUME NEW f \in 1 .. Len(frames), NEW i \in LengthFields, word = Bytes(f, i, WordSize)
      PROVE  /\ Decode(word) = {Size(i + 1, frames[f])} /\ Size(i + 1, frames[f]) \in Nat
  <2>1. i \in 1 .. 10 /\ i + 1 \in 1 .. 10 /\ f \in Nat /\ 1 \in 1 .. WordSize /\ WordSize \in Nat
    BY BoundsAssumption DEF LengthFields
  <2>2. Bytes(f, i, WordSize)[1] = <<f, i, 1>>
    BY <2>1, BytesAreBytes
  <2>3. word[1][1] = f /\ word[1][2] = i
    BY <1>2, <2>2
  <2>4. frames[f] \in Message
    BY <1>1
  <2>5. Size(i + 1, frames[f]) \in Nat
    BY <2>1, <2>4, SizeIsNatural
  <2>6. Decode(word) = {Size(word[1][2] + 1, frames[word[1][1]])}
    BY <1>1, <1>2 DEF Decode
  <2> QED  BY <2>3, <2>5, <2>6
<1>3. CASE \E f \in 1 .. Len(frames), i \in LengthFields : word = Bytes(f, i, WordSize)
  BY <1>2, <1>3
<1>4. CASE ~\E f \in 1 .. Len(frames), i \in LengthFields : word = Bytes(f, i, WordSize)
  <2>1. Decode(word) = 0 .. MaxLength
    BY <1>1, <1>4 DEF Decode
  <2> QED  BY <1>4, <2>1, BoundsAssumption
<1> QED  BY <1>3, <1>4

\* The steps of the reader: it takes some bytes, and gives the frame up, ...
GivesUp == at # 0 /\ \E freed, n : Leaves(n) /\ Abandons(freed)

\* ... or has the whole field, and goes on with the next, ...
GoesOn(word) ==
    /\ at \in 1 .. 9 /\ Want <= Len(wire) /\ word = SubSeq(wire, 1, Want) /\ Leaves(Want)
    /\ Proceeds(word)

\* ... or returns the message.
Finishes(word) ==
    /\ at = 10 /\ Want <= Len(wire) /\ word = SubSeq(wire, 1, Want) /\ Leaves(Want)
    /\ Returns(word)

\* These are all of its steps.
LEMMA ReadStep ==
  ASSUME Types, Read
  PROVE  /\ at # 0 /\ ~handling /\ UNCHANGED <<towards, sending, damaged>>
         /\ GivesUp \/ \E word : GoesOn(word) \/ Finishes(word)
<1>1. at # 0 /\ ~handling /\ UNCHANGED <<towards, sending, damaged>>
  BY DEF Read, recv_short, recv_field
<1>2. wire \in Seq(Byte) /\ Len(wire) \in Nat /\ Want \in Nat /\ at \in 1 .. 10
  BY <1>1, WantIsNatural DEF Types, WireTypes
<1>3. CASE recv_short
  <2>1. Abandons(FreedWhenShort(at)) /\ Want > 0
    BY <1>3 DEF recv_short
  <2>2. ASSUME NEW n \in 1 .. SetMin({Want - 1, Len(wire)}),
               wire' = SubSeq(wire, n + 1, Len(wire))
        PROVE  Leaves(n)
    <3>1. {Want - 1, Len(wire)} \in SUBSET Nat /\ {Want - 1, Len(wire)} # {}
      BY <1>2, <2>1
    <3>2. /\ SetMin({Want - 1, Len(wire)}) \in Nat
          /\ SetMin({Want - 1, Len(wire)}) <= Len(wire)
      BY <3>1, SetMinProperties
    <3>3. n \in 0 .. Len(wire)
      BY <1>2, <3>2
    <3> QED  BY <2>2, <3>3, Leaving
  <2>3. CASE wire = <<>> /\ wire' = wire
    <3>1. Len(wire) = 0
      BY <2>3
    <3>2. Leaves(0)
      BY <1>2, <2>3, <3>1 DEF Leaves
    <3> QED  BY <1>1, <2>1, <3>2 DEF GivesUp
  <2>4. CASE \E n \in 1 .. SetMin({Want - 1, Len(wire)}) :
               wire' = SubSeq(wire, n + 1, Len(wire))
    BY <1>1, <2>1, <2>2, <2>4 DEF GivesUp
  <2> QED  BY <1>1, <1>3, <2>3, <2>4 DEF recv_short
<1>4. CASE recv_field
  <2>1. PICK word : word = SubSeq(wire, 1, Want)
    OBVIOUS
  <2>2. Want <= Len(wire) /\ wire' = SubSeq(wire, Want + 1, Len(wire))
    BY <1>4 DEF recv_field
  <2>3. Leaves(Want)
    <3>1. PICK n \in 0 .. Len(wire) : n = Want
      BY <1>2, <2>2
    <3>2. Leaves(n)
      BY <2>2, <3>1, Leaving
    <3> QED  BY <3>1, <3>2
  <2>4. \/ \E freed : Abandons(freed)
        \/ at < 10 /\ Proceeds(word)
        \/ at = 10 /\ Returns(word)
    BY <1>4, <2>1, FieldNames DEF recv_field
  <2>5. at < 10 => at \in 1 .. 9
    BY <1>2
  <2> QED  BY <1>1, <2>1, <2>2, <2>3, <2>4, <2>5 DEF GivesUp, GoesOn, Finishes
<1> QED  BY <1>1, <1>3, <1>4 DEF Read

\* The reader keeps the types.
LEMMA ReadsTypes ==
  ASSUME Types, Read
  PROVE  Types'
<1> USE BoundsAssumption
<1>1. /\ at \in 1 .. 10 /\ ~handling /\ UNCHANGED <<towards, sending, damaged>>
      /\ GivesUp \/ \E word : GoesOn(word) \/ Finishes(word)
  BY ReadStep, WantIsNatural
<1>2. UNCHANGED <<towards, frames, sender, closed, damaged>>
  BY <1>1 DEF sending
<1>3. SendTypes'
  BY <1>2 DEF Types, SendTypes, Busy
<1>4. ASSUME NEW n, Leaves(n)
      PROVE  WireTypes'
  <2>1. n \in Nat /\ Len(wire) \in Nat /\ Len(wire) <= SocketBuffer
    BY <1>4 DEF Leaves, Types, WireTypes
  <2>2. Len(wire') <= SocketBuffer
    BY <1>4, <2>1 DEF Leaves
  <2>3. \A k \in 1 .. Len(wire') : wire'[k][1] \in 1 .. Len(frames)
    BY <1>4 DEF Leaves, Types, WireTypes
  <2> QED  BY <1>2, <1>4, <2>2, <2>3 DEF Leaves, WireTypes
<1>5. CASE GivesUp
  <2>1. PICK freed, n : Leaves(n) /\ Abandons(freed)
    BY <1>5 DEF GivesUp
  <2>2. at' \in 1 .. 10 \/ (at' = 0 /\ towards' = "broker")
    BY <1>2, <2>1 DEF Abandons, NextFrame
  <2>3. lost' \in BOOLEAN /\ ~handling' /\ handling' \in BOOLEAN
    BY <1>1, <2>1 DEF Abandons, Types, ReadTypes
  <2>4. misfreed' \in BOOLEAN /\ intact' \in BOOLEAN
    BY <2>1 DEF Abandons
  <2>5. ReadTypes'
    <3>1. len' \in Nat /\ first' \in 0 .. Len(frames')
      BY <1>2, <2>1 DEF Abandons, Types, SendTypes
    <3>2. blocks' \subseteq {"exchange", "routing_key", "body", "message"}
      BY <2>1 DEF Abandons, Types, ReadTypes
    <3>3. /\ received' \in Seq([frame : Nat, intact : BOOLEAN])
          /\ \A i \in 1 .. Len(received') : received'[i].frame \in 0 .. Len(frames')
      BY <1>2, <2>1 DEF Abandons, Types, ReadTypes
    <3> QED  BY <2>2, <2>3, <2>4, <3>1, <3>2, <3>3 DEF ReadTypes
  <2> QED  BY <1>3, <1>4, <2>1, <2>5 DEF Types
<1>6. ASSUME NEW word, GoesOn(word)
      PROVE  Types'
  <2>1. /\ at \in 1 .. 9 /\ Want <= Len(wire) /\ word = SubSeq(wire, 1, Want) /\ Leaves(Want)
        /\ Proceeds(word)
    BY <1>6 DEF GoesOn
  <2>2. at' \in 2 .. 10 /\ at' = at + 1
    BY <2>1 DEF Proceeds
  <2>3. first' \in 0 .. Len(frames)
    <3>1. CASE at = 1
      <4>1. Want > 0 /\ Want \in Nat
        BY <3>1, WantIsNatural DEF TextFields
      <4>2. word[1] = wire[1] /\ 1 \in 1 .. Len(wire)
        BY <2>1, <4>1, WordProperties
      <4>3. word[1][1] \in 0 .. Len(frames) /\ 0 \in 0 .. Len(frames)
        BY <4>2 DEF Types, WireTypes, SendTypes
      <4>4. first' = IF IsMagic(word) THEN word[1][1] ELSE 0
        <5>1. ~(at > 1)
          BY <3>1
        <5> QED  BY <2>1, <5>1, Zenon DEF Proceeds
      <4>5. first' = word[1][1] \/ first' = 0
        BY <4>4, Zenon
      <4> QED  BY <4>3, <4>5
    <3>2. CASE at # 1
      <4>1. at > 1 /\ first' = first
        BY <2>1, <3>2 DEF Proceeds
      <4> QED  BY <4>1 DEF Types, ReadTypes, SendTypes
    <3> QED  BY <3>1, <3>2
  <2>4. len' \in Nat
    BY <2>1, Decoded DEF Proceeds
  <2>5. intact' \in BOOLEAN
    BY <2>1 DEF Proceeds
  <2>6. blocks' \subseteq {"exchange", "routing_key", "body", "message"}
    <3>1. Allocated \subseteq {"exchange", "routing_key", "body", "message"}
      BY <2>1 DEF Allocated
    <3> QED  BY <2>1, <3>1 DEF Proceeds, Types, ReadTypes
  <2>7. ReadTypes'
    <3>1. at' \in 1 .. 10 /\ first' \in 0 .. Len(frames')
      BY <1>2, <2>2, <2>3 DEF Types, SendTypes
    <3>4. lost' \in BOOLEAN /\ ~handling' /\ handling' \in BOOLEAN
      BY <1>1, <2>1 DEF Proceeds, Types, ReadTypes
    <3>2. misfreed' \in BOOLEAN
      BY <2>1 DEF Proceeds, Types, ReadTypes
    <3>3. /\ received' \in Seq([frame : Nat, intact : BOOLEAN])
          /\ \A i \in 1 .. Len(received') : received'[i].frame \in 0 .. Len(frames')
      BY <1>2, <2>1 DEF Proceeds, Types, ReadTypes
    <3> QED  BY <2>4, <2>5, <2>6, <3>1, <3>2, <3>3, <3>4 DEF ReadTypes
  <2> QED  BY <1>3, <1>4, <2>1, <2>7 DEF Types
<1>7. ASSUME NEW word, Finishes(word)
      PROVE  Types'
  <2>1. at = 10 /\ Leaves(Want) /\ Returns(word)
    BY <1>7 DEF Finishes
  <2>2. first \in 0 .. Len(frames) /\ first \in Nat
    BY <2>1 DEF Types, ReadTypes, SendTypes
  <2>3. PICK e \in [frame : Nat, intact : BOOLEAN] :
          e.frame = first /\ received' = Append(received, e)
    <3>1. PICK whole \in BOOLEAN : whole = (intact /\ Belongs(word, first))
      OBVIOUS
    <3>2. [frame |-> first, intact |-> whole] \in [frame : Nat, intact : BOOLEAN]
      BY <2>2
    <3>3. received' = Append(received, [frame |-> first, intact |-> whole])
      BY <2>1, <3>1 DEF Returns
    <3> QED  BY <3>2, <3>3
  <2>4. received \in Seq([frame : Nat, intact : BOOLEAN]) /\ Len(received) \in Nat
    BY DEF Types, ReadTypes
  <2>5. /\ received' \in Seq([frame : Nat, intact : BOOLEAN])
        /\ Len(received') = Len(received) + 1
        /\ received'[Len(received) + 1] = e
        /\ \A i \in 1 .. Len(received) : received'[i] = received[i]
    BY <2>3, <2>4
  <2>6. \A i \in 1 .. Len(received') : i \in 1 .. Len(received) \/ i = Len(received) + 1
    BY <2>4, <2>5
  <2>7. \A i \in 1 .. Len(received') : received'[i].frame \in 0 .. Len(frames)
    BY <2>2, <2>3, <2>5, <2>6 DEF Types, ReadTypes
  <2>8. ReadTypes'
    <3>1. at' = 1 /\ at' \in 1 .. 10 /\ len' \in Nat /\ first' \in 0 .. Len(frames')
      BY <1>2, <2>1 DEF Returns, Types, SendTypes
    <3>5. lost' \in BOOLEAN /\ handling' \in BOOLEAN
      BY <2>1 DEF Returns, Types, ReadTypes
    <3>2. misfreed' \in BOOLEAN
      BY <2>1 DEF Returns, Types, ReadTypes
    <3>3. intact' \in BOOLEAN
      BY <2>1 DEF Returns
    <3>4. blocks' \subseteq {"exchange", "routing_key", "body", "message"}
      BY <2>1 DEF Returns, Types, ReadTypes
    <3> QED  BY <1>2, <2>5, <2>7, <3>1, <3>2, <3>3, <3>4, <3>5 DEF ReadTypes
  <2> QED  BY <1>3, <1>4, <2>1, <2>8 DEF Types
<1> QED  BY <1>1, <1>5, <1>6, <1>7

\* So does a thread that is done with its message: the reader is between two frames,
\* or ends.
LEMMA HandleTypes ==
  ASSUME Types, handle_message
  PROVE  /\ Types' /\ at = 1 /\ at' \in {0, 1} /\ (towards = "client" => at' = 1)
         /\ UNCHANGED <<towards, frames, sender, closed, wire, len, first, intact, blocks,
                        misfreed, received, lost, damaged>>
<1>1. /\ at' \in {0, 1} /\ (towards = "client" => at' = 1)
      /\ (at' = 0 => towards = "broker")
  BY DEF handle_message, NextFrame, Types, SendTypes
<1>2. at = 1 /\ handling' = FALSE
  BY DEF handle_message, Types, ReadTypes
<1>3. UNCHANGED <<towards, frames, sender, closed, wire, len, first, intact, blocks,
                  misfreed, received, lost, damaged>>
  BY DEF handle_message, sending
<1>4. SendTypes' /\ WireTypes'
  BY <1>3 DEF Types, SendTypes, WireTypes, Busy
<1>5. ReadTypes'
  BY <1>1, <1>2, <1>3 DEF Types, ReadTypes
<1> QED  BY <1>1, <1>2, <1>3, <1>4, <1>5 DEF Types

\* The types hold at first, ...
LEMMA InitTypes == Init => Types
<1> SUFFICES ASSUME Init PROVE Types
  OBVIOUS
<1> USE BoundsAssumption
<1>1. sender \in [Sender -> [frame : 0 .. MaxFrames, field : 1 .. 10]] /\ Busy = {}
  BY DEF Init, Idle, Busy
<1>2. /\ frames \in Seq(Message) /\ Len(frames) = 0
      /\ wire \in Seq(Byte) /\ Len(wire) = 0
      /\ received \in Seq([frame : Nat, intact : BOOLEAN]) /\ Len(received) = 0
  BY DEF Init
<1>3. SendTypes
  <2>1. closed \in BOOLEAN
    BY DEF Init
  <2>2. damaged \in 1 .. (MaxFrames + 1)
    BY DEF Init
  <2> QED  BY <1>1, <1>2, <2>1, <2>2 DEF Init, SendTypes
<1>4. WireTypes
  BY <1>2 DEF WireTypes
<1>5. ReadTypes
  <2>1. /\ intact \in BOOLEAN /\ misfreed \in BOOLEAN
        /\ handling \in BOOLEAN /\ lost \in BOOLEAN /\ ~handling
    BY DEF Init
  <2>2. at \in 1 .. 10 /\ len \in Nat /\ first \in 0 .. Len(frames)
    BY <1>2 DEF Init
  <2>3. \A i \in 1 .. Len(received) : received[i].frame \in 0 .. Len(frames)
    BY <1>2
  <2>4. blocks = {}
    BY DEF Init
  <2> QED  BY <1>2, <2>1, <2>2, <2>3, <2>4 DEF ReadTypes
<1> QED  BY <1>3, <1>4, <1>5 DEF Types

\* ... every step keeps them, ...
LEMMA NextTypes ==
  ASSUME Types, [Next]_vars
  PROVE  Types'
<1>1. CASE UNCHANGED vars
  BY <1>1 DEF vars, sending, reading, Types, SendTypes, WireTypes, ReadTypes, Busy
<1>2. CASE close
  BY <1>2 DEF close, reading, Types, SendTypes, WireTypes, ReadTypes, Busy
<1> QED  BY <1>1, <1>2, BeginTypes, FieldTypes, ShortTypes, ReadsTypes,
            HandleTypes DEF Next

\* ... and so they always hold.
LEMMA AlwaysTypes == Spec => []Types
<1> QED  BY InitTypes, NextTypes, PTL DEF Spec

\* Counters and positions keep their types and the socket its limit, for any number
\* of threads, frames and bytes.
THEOREM TypeCorrect == Spec => []TypeOK
<1>1. Types => TypeOK
  <2> SUFFICES ASSUME Types PROVE TypeOK
    OBVIOUS
  <2>1. /\ towards \in {"broker", "client"} /\ closed \in BOOLEAN
        /\ Len(frames) <= MaxFrames /\ \A f \in DOMAIN frames : frames[f] \in Message
        /\ sender \in [Sender -> [frame : 0 .. MaxFrames, field : Field]]
        /\ damaged \in 1 .. (MaxFrames + 1)
    BY FieldNames DEF Types, SendTypes
  <2>2. Len(wire) <= SocketBuffer
    BY DEF Types, WireTypes
  <2>3. /\ at \in Field \/ (at = 0 /\ towards = "broker")
        /\ len \in Nat /\ first \in 0 .. Len(frames)
        /\ blocks \subseteq {"exchange", "routing_key", "body", "message"}
    BY FieldNames DEF Types, ReadTypes
  <2>4. \A i \in DOMAIN received : received[i] \in [frame : 0 .. Len(frames), intact : BOOLEAN]
    <3>2. /\ received \in Seq([frame : Nat, intact : BOOLEAN])
          /\ \A i \in 1 .. Len(received) : received[i].frame \in 0 .. Len(frames)
      BY DEF Types, ReadTypes
    <3> SUFFICES ASSUME NEW i \in DOMAIN received
                 PROVE  received[i] \in [frame : 0 .. Len(frames), intact : BOOLEAN]
      OBVIOUS
    <3>3. i \in 1 .. Len(received)
      BY <3>2
    <3>4. received[i] \in [frame : Nat, intact : BOOLEAN]
      BY <3>2, <3>3, ElementOfSeq, Zenon
    <3>5. received[i].frame \in 0 .. Len(frames)
      BY <3>2, <3>3
    <3> QED  BY <3>4, <3>5, Zenon
  <2>5. /\ intact \in BOOLEAN /\ misfreed \in BOOLEAN
        /\ handling \in BOOLEAN /\ lost \in BOOLEAN
    BY DEF Types, ReadTypes
  <2> QED  BY <2>1, <2>2, <2>3, <2>4, <2>5 DEF TypeOK
<1> QED  BY <1>1, AlwaysTypes, PTL

-----------------------------------------------------------------------------
(***************************************************************************)
(* The memory that receive_message_data holds.                             *)
(***************************************************************************)
\* What it holds while it waits for each field.
Held ==
    CASE at \in {3, 4} -> {"exchange"}
      [] at \in {5, 6} -> {"exchange", "routing_key"}
      [] at = 7 -> {"exchange", "routing_key"} \union (IF len > 0 THEN {"body"} ELSE {})
      [] at \in {8, 9, 10} -> {"message"}
      [] OTHER -> {}

HeldInv == ~misfreed /\ blocks = Held

\* Every step of the reader, every failure included, keeps to that.
LEMMA HeldStep ==
  ASSUME Types, HeldInv, [Next]_vars
  PROVE  HeldInv'
<1>1. CASE UNCHANGED <<at, len, blocks, misfreed>>
  BY <1>1 DEF HeldInv, Held
<1>2. ASSUME NEW t \in Sender, NEW m \in Message, send_message_data(t, m)
      PROVE  UNCHANGED <<at, len, blocks, misfreed>>
  BY <1>2 DEF send_message_data, reading
<1>3. ASSUME NEW t \in Sender, send_field(t) \/ send_short(t)
      PROVE  UNCHANGED <<at, len, blocks, misfreed>>
  BY <1>3 DEF send_field, send_short, reading
<1>4. CASE close \/ UNCHANGED vars
  BY <1>1, <1>4 DEF close, vars, reading
<1>8. CASE handle_message
  <2>1. at = 1 /\ at' \in {0, 1} /\ UNCHANGED <<len, blocks, misfreed>>
    BY <1>8, HandleTypes
  <2> QED  BY <2>1 DEF HeldInv, Held
<1>5. ASSUME NEW freed, Abandons(freed), blocks = freed
      PROVE  HeldInv'
  <2>1. at' \in {0, 1}
    BY <1>5 DEF Abandons, NextFrame
  <2>2. blocks' = {} /\ ~misfreed'
    BY <1>5 DEF Abandons, HeldInv
  <2> QED  BY <2>1, <2>2 DEF HeldInv, Held
<1>6. CASE recv_short
  <2>1. at \in 1 .. 10 /\ Want > 0 /\ Abandons(FreedWhenShort(at))
    BY <1>6, WantIsNatural DEF recv_short
  <2>2. at = 7 => len > 0
    BY <2>1, WantIsNatural DEF TextFields
  <2>3. blocks = FreedWhenShort(at)
    BY <2>1, <2>2 DEF HeldInv, Held, FreedWhenShort
  <2> QED  BY <1>5, <2>1, <2>3
<1>7. CASE recv_field
  <2>1. PICK word : word = SubSeq(wire, 1, Want)
    OBVIOUS
  <2>2. /\ at \in 1 .. 10
        /\ \/ at = 1 /\ Abandons({})
           \/ at \in 1 .. 9 /\ Proceeds(word)
           \/ at = 10 /\ Returns(word)
           \/ at \in {2, 4, 6, 7} /\ Abandons(FreedWithoutMemory(at))
    BY <1>7, <2>1, FieldNames, WantIsNatural DEF recv_field
  <2>3. CASE at = 1 /\ Abandons({})
    BY <1>5, <2>3 DEF HeldInv, Held
  <2>4. CASE at \in {2, 4, 6, 7} /\ Abandons(FreedWithoutMemory(at))
    <3>1. blocks = FreedWithoutMemory(at)
      BY <2>4 DEF HeldInv, Held, FreedWithoutMemory
    <3> QED  BY <1>5, <2>4, <3>1
  <2>5. CASE at = 10 /\ Returns(word)
    BY <2>5 DEF HeldInv, Held, Returns
  <2>6. CASE at \in 1 .. 9 /\ Proceeds(word)
    <3>1. /\ blocks' = (blocks \ Released) \union Allocated /\ at' = at + 1
          /\ ~misfreed' /\ blocks = Held
      BY <2>6 DEF Proceeds, HeldInv
    <3>2. len' \in Nat
      BY <2>6, Decoded DEF Proceeds
    <3>3. CASE at \in {1, 2}
      BY <3>1, <3>3 DEF HeldInv, Held, Released, Allocated
    <3>4. CASE at \in {3, 4}
      BY <3>1, <3>4 DEF HeldInv, Held, Released, Allocated
    <3>5. CASE at = 5
      BY <3>1, <3>5 DEF HeldInv, Held, Released, Allocated
    <3>6. CASE at = 6
      BY <3>1, <3>2, <3>6 DEF HeldInv, Held, Released, Allocated
    <3>7. CASE at = 7
      BY <3>1, <3>7 DEF HeldInv, Held, Released, Allocated
    <3>8. CASE at \in {8, 9}
      BY <3>1, <3>8 DEF HeldInv, Held, Released, Allocated
    <3>9. at \in {1, 2} \/ at \in {3, 4} \/ at = 5 \/ at = 6 \/ at = 7 \/ at \in {8, 9}
      BY <2>6
    <3> QED  BY <3>3, <3>4, <3>5, <3>6, <3>7, <3>8, <3>9
  <2> QED  BY <2>2, <2>3, <2>4, <2>5, <2>6
<1> QED  BY <1>1, <1>2, <1>3, <1>4, <1>6, <1>7, <1>8 DEF Next, Read

\* Every way out of receive_message_data, at whatever field and for whatever reason,
\* frees exactly what it holds, however the stream was cut into reads.
THEOREM EveryExitFreesWhatIsHeld == Spec => []NothingHeldBetweenFrames
<1>1. Init => HeldInv
  BY DEF Init, HeldInv, Held
<1>2. HeldInv => NothingHeldBetweenFrames
  BY DEF HeldInv, Held, NothingHeldBetweenFrames
<1> QED  BY <1>1, <1>2, HeldStep, AlwaysTypes, PTL DEF Spec

-----------------------------------------------------------------------------
(***************************************************************************)
(* The stream. As long as frames are sent whole and one after the other,   *)
(* every byte has its place.                                               *)
(***************************************************************************)
\* The number of bytes of a frame before its field i; all of them for i = 11.
Start(i, m) ==
    CASE i = 1 -> 0
      [] i = 2 -> WordSize
      [] i = 3 -> 2 * WordSize
      [] i = 4 -> 2 * WordSize + m.exchange
      [] i = 5 -> 3 * WordSize + m.exchange
      [] i = 6 -> 3 * WordSize + m.exchange + m.routing_key
      [] i = 7 -> 4 * WordSize + m.exchange + m.routing_key
      [] i = 8 -> 4 * WordSize + m.exchange + m.routing_key + m.body
      [] i = 9 -> 5 * WordSize + m.exchange + m.routing_key + m.body
      [] i = 10 -> 7 * WordSize + m.exchange + m.routing_key + m.body
      [] OTHER -> 7 * WordSize + m.exchange + m.routing_key + m.body + 1

\* The first s bytes of frame f, which is message m, were sent, and the first o of them
\* were received; when o is negative, so many bytes are to be received before them.
Lies(f, m, o, s, w) ==
    /\ s <= Len(w) + o
    /\ \A p \in Nat, j \in 1 .. 10 : \A c \in 1 .. Size(j, m) :
         p = Start(j, m) + c /\ p > o /\ p <= s => w[p - o] = <<f, j, c>>
    /\ \A k \in 1 .. Len(w) :
         (k + o <= 0 => w[k][1] < f) /\ (k + o > s => w[k][1] > f)

\* Frame f was sent as a whole, ...
Sent(f, o) ==
    /\ \A t \in Busy : sender[t].frame # f
    /\ Lies(f, frames[f], o, Start(11, frames[f]), wire)
    /\ f = Len(frames) => Len(wire) + o = Start(11, frames[f])

\* ... or a thread is sending it, and nobody else sends.
BeingSent(f, o) ==
    /\ f = Len(frames)
    /\ \E t \in Sender :
         /\ Busy = {t} /\ sender[t].frame = f
         /\ Lies(f, frames[f], o, Start(sender[t].field, frames[f]), wire)
         /\ Len(wire) + o = Start(sender[t].field, frames[f])

\* The frames that are not damaged lie one behind the other.
Stream(off) ==
    /\ \A f \in 1 .. Len(frames) : f < damaged => Sent(f, off[f]) \/ BeingSent(f, off[f])
    /\ \A f \in 1 .. Len(frames) : f + 1 < damaged =>
         off[f + 1] = off[f] - Start(11, frames[f])
    /\ Len(frames) = 0 => Len(wire) + off[1] = 0

\* The reader is inside the frame that its magic came from.
InFrame(off) ==
    at \in 2 .. 10 /\ first # 0 /\ first < damaged =>
        /\ intact /\ off[first] = Start(at, frames[first])
        /\ at \in TextFields => len = Size(at, frames[first])
        /\ \A j \in 1 .. Len(received) : received[j].frame < first

\* What is still to be read comes after what was read.
Onwards(off) ==
    \A f \in 1 .. Len(frames) : f < damaged /\ off[f] < Start(11, frames[f]) =>
        /\ at \in 2 .. 10 => first <= f
        /\ \A j \in 1 .. Len(received) : received[j].frame < f

\* A reader that has not lost its place reads one frame after the other.
InPlace == towards = "broker" \/ ~lost

InSequence(off) ==
    InPlace =>
        /\ \A i \in 1 .. Len(received) : i < damaged => received[i].frame = i
        /\ Len(received) + 1 < damaged =>
             /\ at \in 2 .. 10 => first = Len(received) + 1
             /\ at = 1 => off[Len(received) + 1] = 0

StreamInv(off) ==
    /\ off \in [Nat -> Int]
    /\ Stream(off) /\ InFrame(off) /\ Onwards(off) /\ InSequence(off)
    /\ ReturnsWhatWasSent

\* The fields of a frame lie one behind the other.
LEMMA Starts ==
  ASSUME NEW m \in Message
  PROVE  /\ \A i \in 1 .. 11 : Start(i, m) \in Nat
         /\ \A i \in 1 .. 10 : Start(i + 1, m) = Start(i, m) + Size(i, m)
         /\ \A i, j \in 1 .. 11 : i <= j => Start(i, m) <= Start(j, m)
         /\ Start(1, m) = 0 /\ Start(11, m) = Start(10, m) + 1
<1> USE BoundsAssumption
<1>1. m.exchange \in Nat /\ m.routing_key \in Nat /\ m.body \in Nat
  BY Sizes
<1>2. PICK w \in Nat \ {0}, e \in Nat, r \in Nat, b \in Nat :
        w = WordSize /\ e = m.exchange /\ r = m.routing_key /\ b = m.body
  BY <1>1
<1>3. /\ Start(1, m) = 0 /\ Start(2, m) = w /\ Start(3, m) = 2 * w
      /\ Start(4, m) = 2 * w + e /\ Start(5, m) = 3 * w + e
      /\ Start(6, m) = 3 * w + e + r /\ Start(7, m) = 4 * w + e + r
      /\ Start(8, m) = 4 * w + e + r + b /\ Start(9, m) = 5 * w + e + r + b
      /\ Start(10, m) = 7 * w + e + r + b /\ Start(11, m) = 7 * w + e + r + b + 1
  BY <1>2 DEF Start
<1>4. /\ Size(1, m) = w /\ Size(2, m) = w /\ Size(3, m) = e /\ Size(4, m) = w
      /\ Size(5, m) = r /\ Size(6, m) = w /\ Size(7, m) = b /\ Size(8, m) = w
      /\ Size(9, m) = 2 * w /\ Size(10, m) = 1
  BY <1>2, Sizes
<1>5. \A i \in 1 .. 11 : i \in {1, 2, 3, 4, 5, 6, 7, 8, 9, 10, 11}
  OBVIOUS
<1>6. \A i \in 1 .. 11 : Start(i, m) \in Nat
  BY <1>3, <1>5
<1>7. \A i \in 1 .. 10 : Start(i + 1, m) = Start(i, m) + Size(i, m)
  <2> SUFFICES ASSUME NEW i \in 1 .. 10 PROVE Start(i + 1, m) = Start(i, m) + Size(i, m)
    OBVIOUS
  <2>1. i \in {1, 2, 3, 4, 5, 6, 7, 8, 9, 10}
    OBVIOUS
  <2> QED  BY <1>3, <1>4, <2>1
<1>8. \A i, j \in 1 .. 11 : i <= j => Start(i, m) <= Start(j, m)
  <2> SUFFICES ASSUME NEW i \in 1 .. 11, NEW j \in 1 .. 11, i <= j
               PROVE  Start(i, m) <= Start(j, m)
    OBVIOUS
  <2>1. i \in {1, 2, 3, 4, 5, 6, 7, 8, 9, 10, 11} /\ j \in {1, 2, 3, 4, 5, 6, 7, 8, 9, 10, 11}
    BY <1>5
  <2> QED  BY <1>3, <2>1
<1> QED  BY <1>3, <1>6, <1>7, <1>8

\* Which field a place belongs to.
LEMMA FieldOfPlace ==
  ASSUME NEW m \in Message, NEW i \in 1 .. 10, NEW j \in 1 .. 10, NEW c \in 1 .. Size(j, m)
  PROVE  /\ Start(j, m) + c <= Start(11, m) /\ Start(j, m) + c \in Nat /\ c \in Nat
         /\ Start(j, m) + c > Start(i, m) /\ Start(j, m) + c <= Start(i + 1, m) => j = i
         /\ j < i => Start(j, m) + c <= Start(i, m)
         /\ j >= i => Start(j, m) + c > Start(i, m)
<1>1. Size(j, m) \in Nat /\ c \in Nat /\ 1 <= c /\ c <= Size(j, m)
  BY SizeIsNatural
<1>2. /\ Start(j, m) \in Nat /\ Start(i, m) \in Nat /\ Start(i + 1, m) \in Nat
      /\ Start(j + 1, m) \in Nat /\ Start(11, m) \in Nat
      /\ Start(j + 1, m) = Start(j, m) + Size(j, m)
  BY Starts
<1>3. /\ Start(j + 1, m) <= Start(11, m)
      /\ j < i => Start(j + 1, m) <= Start(i, m)
      /\ j >= i => Start(i, m) <= Start(j, m)
      /\ j > i => Start(i + 1, m) <= Start(j, m)
  BY Starts
<1> QED  BY <1>1, <1>2, <1>3

\* Every place of a frame belongs to a field.
LEMMA PlaceHasField ==
  ASSUME NEW m \in Message, NEW p \in 1 .. Start(11, m)
  PROVE  \E j \in 1 .. 10 : \E c \in 1 .. Size(j, m) : p = Start(j, m) + c
<1>1. /\ \A i \in 1 .. 11 : Start(i, m) \in Nat
      /\ \A i \in 1 .. 10 : Start(i + 1, m) = Start(i, m) + Size(i, m)
      /\ Start(1, m) = 0 /\ p \in Nat
  BY Starts
<1>2. ASSUME NEW j \in 1 .. 10, p > Start(j, m), p <= Start(j + 1, m)
      PROVE  \E c \in 1 .. Size(j, m) : p = Start(j, m) + c
  <2>1. p - Start(j, m) \in 1 .. Size(j, m) /\ p = Start(j, m) + (p - Start(j, m))
    BY <1>1, <1>2, SizeIsNatural
  <2> QED  BY <2>1
<1>3. \E j \in 1 .. 10 : p > Start(j, m) /\ p <= Start(j + 1, m)
  <2>1. p > Start(1, m) /\ p <= Start(11, m)
    BY <1>1
  <2>2. \/ p > Start(1, m) /\ p <= Start(2, m)
        \/ p > Start(2, m) /\ p <= Start(3, m)
        \/ p > Start(3, m) /\ p <= Start(4, m)
        \/ p > Start(4, m) /\ p <= Start(5, m)
        \/ p > Start(5, m) /\ p <= Start(6, m)
        \/ p > Start(6, m) /\ p <= Start(7, m)
        \/ p > Start(7, m) /\ p <= Start(8, m)
        \/ p > Start(8, m) /\ p <= Start(9, m)
        \/ p > Start(9, m) /\ p <= Start(10, m)
        \/ p > Start(10, m) /\ p <= Start(11, m)
    BY <1>1, <2>1
  <2>3. /\ 1 + 1 = 2 /\ 2 + 1 = 3 /\ 3 + 1 = 4 /\ 4 + 1 = 5 /\ 5 + 1 = 6 /\ 6 + 1 = 7
        /\ 7 + 1 = 8 /\ 8 + 1 = 9 /\ 9 + 1 = 10 /\ 10 + 1 = 11
    OBVIOUS
  <2> QED  BY <2>2, <2>3
<1> QED  BY <1>2, <1>3

\* v is w without its first n bytes.
Dropped(w, n, v) ==
    /\ w \in Seq(Byte) /\ v \in Seq(Byte) /\ Len(v) = Len(w) - n
    /\ \A k \in 1 .. Len(v) : v[k] = w[k + n] /\ k + n \in 1 .. Len(w)

\* v is w with the first n bytes of field i of frame f behind it.
Added(w, f, i, n, v) ==
    /\ w \in Seq(Byte) /\ v \in Seq(Byte) /\ Len(v) = Len(w) + n
    /\ \A k \in 1 .. Len(w) : v[k] = w[k]
    /\ \A b \in 1 .. n : v[Len(w) + b] = <<f, i, b>>
    /\ \A k \in 1 .. Len(v) : k \in 1 .. Len(w) \/ v[k][1] = f

\* A frame stays where it is when bytes are read from the front, ...
LEMMA LeavesLies ==
  ASSUME NEW f \in Nat, NEW m \in Message, NEW o \in Int, NEW s \in Nat, NEW n \in Nat,
         NEW w, NEW v, Dropped(w, n, v), Lies(f, m, o, s, w)
  PROVE  Lies(f, m, o + n, s, v)
<1>1. Len(w) \in Nat /\ Len(v) \in Nat /\ Len(v) = Len(w) - n
  BY DEF Dropped
<1>4. s <= Len(w) + o
  BY DEF Lies
<1>5. s <= Len(v) + (o + n)
  BY <1>1, <1>4
<1>2. ASSUME NEW p \in Nat, NEW j \in 1 .. 10, NEW c \in 1 .. Size(j, m),
             p = Start(j, m) + c, p > o + n, p <= s
      PROVE  v[p - (o + n)] = <<f, j, c>>
  <2>1. p - (o + n) \in 1 .. Len(v) /\ (p - (o + n)) + n = p - o /\ p > o
    BY <1>1, <1>2, <1>5
  <2>2. w[p - o] = <<f, j, c>>
    BY <1>2, <2>1 DEF Lies
  <2>3. v[p - (o + n)] = w[(p - (o + n)) + n]
    BY <2>1 DEF Dropped
  <2> QED  BY <2>1, <2>2, <2>3
<1>3. ASSUME NEW k \in 1 .. Len(v)
      PROVE  (k + (o + n) <= 0 => v[k][1] < f) /\ (k + (o + n) > s => v[k][1] > f)
  <2>1. v[k] = w[k + n] /\ k + n \in 1 .. Len(w)
    BY DEF Dropped
  <2>2. k + (o + n) = (k + n) + o
    BY <1>1
  <2>3. ((k + n) + o <= 0 => w[k + n][1] < f) /\ ((k + n) + o > s => w[k + n][1] > f)
    BY <2>1 DEF Lies
  <2> QED  BY <2>1, <2>2, <2>3
<1> QED  BY <1>2, <1>3, <1>5 DEF Lies

\* ... and when bytes of a later frame are sent.
LEMMA OthersLie ==
  ASSUME NEW f \in Nat, NEW g \in Nat, f < g, NEW m \in Message, NEW o \in Int, NEW s \in Nat,
         NEW i, NEW n \in Nat, NEW w, NEW v, Added(w, g, i, n, v), Lies(f, m, o, s, w)
  PROVE  Lies(f, m, o, s, v)
<1>0. Len(w) \in Nat /\ Len(v) \in Nat /\ Len(v) = Len(w) + n
  BY DEF Added
<1>1. s <= Len(w) + o /\ s <= Len(v) + o
  BY <1>0 DEF Lies
<1>2. ASSUME NEW p \in Nat, NEW j \in 1 .. 10, NEW c \in 1 .. Size(j, m),
             p = Start(j, m) + c, p > o, p <= s
      PROVE  v[p - o] = <<f, j, c>>
  <2>1. p - o \in 1 .. Len(w)
    BY <1>0, <1>1, <1>2
  <2>2. w[p - o] = <<f, j, c>>
    BY <1>2 DEF Lies
  <2>3. v[p - o] = w[p - o]
    BY <2>1 DEF Added
  <2> QED  BY <2>2, <2>3
<1>3. ASSUME NEW k \in 1 .. Len(v)
      PROVE  (k + o <= 0 => v[k][1] < f) /\ (k + o > s => v[k][1] > f)
  <2>1. CASE k \in 1 .. Len(w)
    BY <2>1 DEF Lies, Added
  <2>2. CASE k \notin 1 .. Len(w)
    <3>1. v[k][1] = g
      BY <2>2 DEF Added
    <3>2. ~(k + o <= 0)
      BY <1>0, <1>1, <2>2
    <3> QED  BY <3>1, <3>2
  <2> QED  BY <2>1, <2>2
<1> QED  BY <1>1, <1>2, <1>3 DEF Lies

\* The next field of a frame goes behind those that were sent.
LEMMA FieldLies ==
  ASSUME NEW f \in Nat, NEW m \in Message, NEW o \in Int, NEW i \in 1 .. 10, NEW w, NEW v,
         Added(w, f, i, Size(i, m), v),
         Lies(f, m, o, Start(i, m), w), Len(w) + o = Start(i, m)
  PROVE  Lies(f, m, o, Start(i + 1, m), v) /\ Len(v) + o = Start(i + 1, m)
<1>0. i \in 1 .. 11 /\ i + 1 \in 1 .. 11
  OBVIOUS
<1>1. /\ Start(i, m) \in Nat /\ Start(i + 1, m) \in Nat /\ Size(i, m) \in Nat
      /\ Start(i + 1, m) = Start(i, m) + Size(i, m)
  BY <1>0, Starts, SizeIsNatural
<1>2. PICK s \in Nat, z \in Nat, l \in Nat :
        s = Start(i, m) /\ z = Size(i, m) /\ l = Len(w) /\ s + z = Start(i + 1, m)
  BY <1>1 DEF Added
<1>3. Len(v) = l + z /\ l + o = s
  BY <1>2 DEF Added
<1>4. ASSUME NEW p \in Nat, NEW j \in 1 .. 10, NEW c \in 1 .. Size(j, m),
             p = Start(j, m) + c, p > o, p <= s + z
      PROVE  v[p - o] = <<f, j, c>>
  <2>1. CASE p <= s
    <3>1. p - o \in 1 .. l
      BY <1>3, <1>4, <2>1
    <3>2. w[p - o] = <<f, j, c>>
      BY <1>2, <1>4, <2>1 DEF Lies
    <3>3. v[p - o] = w[p - o]
      BY <1>2, <3>1 DEF Added
    <3> QED  BY <3>2, <3>3
  <2>2. CASE p > s
    <3>0. Start(j, m) + c > Start(i, m) /\ Start(j, m) + c <= Start(i + 1, m)
      BY <1>2, <1>4, <2>2
    <3>1. j = i
      BY <3>0, FieldOfPlace, Zenon
    <3>2. c \in 1 .. z /\ p = s + c
      BY <1>2, <1>4, <3>1
    <3>3. p - o = l + c
      BY <1>3, <3>2
    <3>4. v[l + c] = <<f, i, c>>
      BY <1>2, <3>2 DEF Added
    <3> QED  BY <3>1, <3>3, <3>4
  <2> QED  BY <2>1, <2>2
<1>5. ASSUME NEW k \in 1 .. (l + z)
      PROVE  (k + o <= 0 => v[k][1] < f) /\ (k + o > s + z => v[k][1] > f)
  <2>1. ~(k + o > s + z) /\ (k + o <= 0 => k \in 1 .. l)
    BY <1>3
  <2>2. k \in 1 .. l => v[k] = w[k] /\ (k + o <= 0 => w[k][1] < f)
    BY <1>2 DEF Added, Lies
  <2> QED  BY <2>1, <2>2
<1>6. Len(v) + o = s + z
  BY <1>3
<1>7. Lies(f, m, o, s + z, v)
  <2>1. s + z <= Len(v) + o
    BY <1>6
  <2> QED  BY <1>3, <1>4, <1>5, <2>1 DEF Lies
<1> QED  BY <1>2, <1>6, <1>7

\* A reader that has come to a field finds its bytes.
LEMMA FieldArrives ==
  ASSUME NEW f \in Nat, NEW m \in Message, NEW i \in 1 .. 10, NEW s \in Nat, NEW w \in Seq(Byte),
         Lies(f, m, Start(i, m), s, w), Start(i, m) + Size(i, m) <= s
  PROVE  \A b \in 1 .. Size(i, m) : w[b] = <<f, i, b>>
<1> SUFFICES ASSUME NEW b \in 1 .. Size(i, m) PROVE w[b] = <<f, i, b>>
  OBVIOUS
<1>0. i \in 1 .. 11
  OBVIOUS
<1>1. Start(i, m) \in Nat /\ Size(i, m) \in Nat /\ b \in Nat
  <2>1. Start(i, m) \in Nat
    BY <1>0, Starts
  <2>2. Size(i, m) \in Nat
    BY SizeIsNatural
  <2> QED  BY <2>1, <2>2
<1>2. PICK p \in Nat : p = Start(i, m) + b
  BY <1>1
<1>3. p > Start(i, m) /\ p <= s /\ p - Start(i, m) = b
  BY <1>1, <1>2
<1>4. w[p - Start(i, m)] = <<f, i, b>>
  BY <1>2, <1>3 DEF Lies
<1> QED  BY <1>3, <1>4

\* The first byte of a magic is the first byte of its frame.
LEMMA MagicArrives ==
  ASSUME NEW f \in Nat, NEW m \in Message, NEW o \in Int, NEW s \in Nat, s <= Start(11, m),
         NEW w \in Seq(Byte), 1 <= Len(w), w[1] = <<f, 1, 1>>, Lies(f, m, o, s, w)
  PROVE  o = 0
<1>1. Start(11, m) \in Nat /\ Start(1, m) = 0 /\ Len(w) \in Nat
  BY Starts
<1>2. 1 \in 1 .. Len(w) /\ w[1][1] = f
  BY <1>1
<1>3. ~(1 + o <= 0) /\ ~(1 + o > s)
  BY <1>2 DEF Lies
<1>4. PICK p \in 1 .. Start(11, m) : p = 1 + o /\ p <= s
  BY <1>1, <1>3
<1>5. PICK j \in 1 .. 10 : \E c \in 1 .. Size(j, m) : p = Start(j, m) + c
  BY PlaceHasField
<1>6. PICK c \in 1 .. Size(j, m) : p = Start(j, m) + c
  BY <1>5
<1>7. p > o /\ p <= s /\ p - o = 1
  BY <1>1, <1>4
<1>8. p \in Nat /\ w[p - o] = <<f, j, c>>
  BY <1>6, <1>7 DEF Lies
<1>9. <<f, j, c>> = <<f, 1, 1>>
  BY <1>7, <1>8
<1>10. j = 1 /\ c = 1
  BY <1>9
<1> QED  BY <1>1, <1>4, <1>6, <1>10

\* What the types say of the frames and the socket.
LEMMA Typical ==
  ASSUME Types
  PROVE  /\ Len(frames) \in Nat /\ Len(wire) \in Nat /\ damaged \in Nat
         /\ Len(received) \in Nat /\ wire \in Seq(Byte)
         /\ \A f \in 1 .. Len(frames) : f \in Nat /\ frames[f] \in Message
         /\ \A t \in Busy : /\ t \in Sender /\ sender[t].frame \in 1 .. Len(frames)
                            /\ sender[t].field \in 1 .. 10
<1>1. frames \in Seq(Message) /\ wire \in Seq(Byte) /\ Len(received) \in Nat
  BY DEF Types, SendTypes, WireTypes, ReadTypes
<1>2. damaged \in Nat
  BY BoundsAssumption DEF Types, SendTypes
<1>3. \A t \in Busy : /\ t \in Sender /\ sender[t].frame \in 1 .. Len(frames)
                      /\ sender[t].field \in 1 .. 10
  BY DEF Types, SendTypes, Busy
<1> QED  BY <1>1, <1>2, <1>3

\* n more bytes were read.
Shifted(off, n, to) == to \in [Nat -> Int] /\ \A f \in Nat : to[f] = off[f] + n

\* Frame l + 1, of z bytes, was begun.
Longer(off, l, z, to) ==
    /\ to \in [Nat -> Int] /\ \A f \in 1 .. (l + 1) : to[f] = off[f]
    /\ to[l + 2] = to[l + 1] - z

\* Reading leaves the frames where they are.
LEMMA LeavesStream ==
  ASSUME Types, NEW off \in [Nat -> Int], Stream(off), NEW n, Leaves(n),
         UNCHANGED <<frames, sender, damaged>>,
         NEW to, Shifted(off, n, to)
  PROVE  Stream(to)'
<1>0. wire \in Seq(Byte) /\ Len(wire) \in Nat
  BY Typical
<1>6. n \in 0 .. Len(wire) /\ wire' \in Seq(Byte) /\ Len(wire') = Len(wire) - n
  BY DEF Leaves
<1>7. Dropped(wire, n, wire')
  BY <1>0 DEF Leaves, Dropped
<1>8. n \in Nat /\ Len(wire') \in Nat
  BY <1>0, <1>6
<1>1. n \in Nat /\ Dropped(wire, n, wire') /\ Len(wire') = Len(wire) - n /\ Len(wire') \in Nat
  BY <1>6, <1>7, <1>8
<1>2. Busy' = Busy /\ frames' = frames /\ sender' = sender /\ damaged' = damaged
  BY DEF Busy
<1>3. ASSUME NEW f \in 1 .. Len(frames), f < damaged
      PROVE  Sent(f, to[f])' \/ BeingSent(f, to[f])'
  <2>1. f \in Nat /\ frames[f] \in Message /\ Len(wire) \in Nat
    BY Typical
  <2>2. PICK m \in Message, o \in Int : m = frames[f] /\ o = off[f] /\ to[f] = o + n
    BY <2>1 DEF Shifted
  <2>3. Start(11, m) \in Nat
    BY Starts
  <2>4. CASE Sent(f, off[f])
    <3>1. Lies(f, m, o, Start(11, m), wire) /\ \A t \in Busy : sender[t].frame # f
      BY <2>2, <2>4 DEF Sent
    <3>2. Lies(f, m, o + n, Start(11, m), wire')
      BY <1>1, <2>1, <2>3, <3>1, LeavesLies
    <3>3. f = Len(frames) => Len(wire) + o = Start(11, m)
      BY <2>2, <2>4 DEF Sent
    <3>4. f = Len(frames) => Len(wire') + (o + n) = Start(11, m)
      BY <1>1, <2>1, <2>3, <3>3
    <3> QED  BY <1>2, <2>2, <3>1, <3>2, <3>4 DEF Sent
  <2>5. CASE BeingSent(f, off[f])
    <3>1. PICK t \in Sender : /\ Busy = {t} /\ sender[t].frame = f
                              /\ Lies(f, m, o, Start(sender[t].field, m), wire)
                              /\ Len(wire) + o = Start(sender[t].field, m)
      BY <2>2, <2>5 DEF BeingSent
    <3>7. t \in Busy
      BY <3>1
    <3>8. sender[t].field \in 1 .. 10
      BY <3>7, Typical
    <3>2. sender[t].field \in 1 .. 11
      BY <3>8
    <3>3. PICK s \in Nat : s = Start(sender[t].field, m)
      BY <3>2, Starts
    <3>4. Lies(f, m, o + n, s, wire')
      BY <1>1, <2>1, <3>1, <3>3, LeavesLies
    <3>5. Len(wire') + (o + n) = s
      BY <1>1, <2>1, <3>1, <3>3
    <3>6. f = Len(frames)
      BY <2>5 DEF BeingSent
    <3> QED  BY <1>2, <2>2, <3>1, <3>3, <3>4, <3>5, <3>6 DEF BeingSent
  <2> QED  BY <1>3, <2>4, <2>5 DEF Stream
<1>4. ASSUME NEW f \in 1 .. Len(frames), f + 1 < damaged
      PROVE  to[f + 1] = to[f] - Start(11, frames[f])
  <2>1. f \in Nat /\ f + 1 \in Nat /\ frames[f] \in Message
    BY Typical
  <2>2. off[f + 1] = off[f] - Start(11, frames[f])
    BY <1>4 DEF Stream
  <2>3. Start(11, frames[f]) \in Nat
    <3>1. 11 \in 1 .. 11
      OBVIOUS
    <3> QED  BY <2>1, <3>1, Starts
  <2>4. off[f] \in Int /\ off[f + 1] \in Int /\ to[f] = off[f] + n /\ to[f + 1] = off[f + 1] + n
    BY <2>1 DEF Shifted
  <2>5. PICK a \in Int, b \in Int, z \in Nat :
          a = off[f] /\ b = off[f + 1] /\ z = Start(11, frames[f])
    BY <2>3, <2>4
  <2>6. b + n = (a + n) - z
    BY <1>8, <2>2, <2>5
  <2> QED  BY <2>4, <2>5, <2>6
<1>5. Len(frames) = 0 => Len(wire') + to[1] = 0
  <2>1. 1 \in Nat /\ off[1] \in Int /\ to[1] = off[1] + n /\ Len(wire) \in Nat
    BY Typical DEF Shifted
  <2>2. Len(frames) = 0 => Len(wire) + off[1] = 0
    BY DEF Stream
  <2> QED  BY <1>1, <2>1, <2>2
<1> QED  BY <1>2, <1>3, <1>4, <1>5 DEF Stream

\* A frame that is begun while another one is sent damages that one.
LEMMA BeginStream ==
  ASSUME Types, NEW off \in [Nat -> Int], Stream(off),
         NEW t \in Sender, NEW m \in Message, send_message_data(t, m),
         NEW to, Longer(off, Len(frames), Start(11, m), to)
  PROVE  Stream(to)'
<1>1. PICK l \in Nat : l = Len(frames) /\ Len(frames') = l + 1
  BY Typical, BeginTypes
<1>2. \A f \in 1 .. l : frames'[f] = frames[f]
  BY <1>1, BeginTypes
<1>14. damaged' <= damaged
  BY BeginTypes
<1>15. \A u \in Busy : damaged' <= sender[u].frame
  BY BeginTypes
<1>3. frames'[l + 1] = m
  <2>1. frames' = Append(frames, m) /\ frames \in Seq(Message)
    BY BeginTypes DEF Types, SendTypes
  <2> QED  BY <1>1, <2>1
<1>16. \A f \in 1 .. (l + 1) : to[f] = off[f]
  BY <1>1 DEF Longer
<1>17. to[l + 2] = to[l + 1] - Start(11, m)
  BY <1>1 DEF Longer
<1>18. Len(frames) = l /\ Len(frames') = l + 1
  BY <1>1
<1>4. damaged' \in Nat /\ damaged \in Nat /\ Len(wire) \in Nat /\ wire' = wire
  <2>1. Types'
    BY BeginTypes
  <2>2. damaged' \in Nat
    BY <2>1, BoundsAssumption DEF Types, SendTypes
  <2> QED  BY <2>2, Typical DEF send_message_data
<1>5. /\ sender' = [sender EXCEPT ![t] = [frame |-> l + 1, field |-> 1]]
      /\ sender \in [Sender -> [frame : 0 .. MaxFrames, field : 1 .. 10]] /\ t \notin Busy
  BY <1>1 DEF send_message_data, Types, SendTypes
<1>6. sender'[t].frame = l + 1 /\ sender'[t].field = 1
  BY <1>5
<1>7. \A u \in Sender : u # t => sender'[u] = sender[u]
  BY <1>5
<1>8. Busy' = Busy \union {t}
  <2>1. sender'[t] # Idle
    BY <1>1, <1>6 DEF Idle
  <2> QED  BY <1>7, <2>1 DEF Busy
<1>9. ASSUME NEW f \in 1 .. l, f < damaged'
      PROVE  Sent(f, off[f]) /\ Sent(f, to[f])'
  <2>1. f < damaged /\ f \in 1 .. Len(frames) /\ f \in Nat
    BY <1>14, <1>4, <1>9, <1>18
  <2>2. ~BeingSent(f, off[f])
    <3>1. ASSUME NEW u \in Sender, Busy = {u}, sender[u].frame = f
          PROVE  FALSE
      <4>1. damaged' <= sender[u].frame
        BY <1>15, <3>1
      <4>2. damaged' <= f
        BY <3>1, <4>1
      <4> QED  BY <1>4, <1>9, <2>1, <4>2
    <3> QED  BY <3>1 DEF BeingSent
  <2>3. Sent(f, off[f])
    BY <2>1, <2>2 DEF Stream
  <2>4. \A u \in Busy' : sender'[u].frame # f
    <3> SUFFICES ASSUME NEW u \in Busy' PROVE sender'[u].frame # f
      OBVIOUS
    <3>1. CASE u = t
      BY <1>1, <1>6, <3>1
    <3>2. CASE u # t
      <4>1. u \in Busy /\ sender'[u] = sender[u]
        BY <1>7, <1>8, <3>2, Typical
      <4> QED  BY <2>3, <4>1 DEF Sent
    <3> QED  BY <3>1, <3>2
  <2>7. f \in 1 .. (l + 1) /\ f # l + 1
    OBVIOUS
  <2>5. f # Len(frames') /\ to[f] = off[f]
    BY <1>16, <1>18, <2>7
  <2>6. Lies(f, frames'[f], to[f], Start(11, frames'[f]), wire')
    BY <1>2, <1>4, <2>3, <2>5 DEF Sent
  <2> QED  BY <2>3, <2>4, <2>5, <2>6 DEF Sent
<1>10. ASSUME l + 1 < damaged'
       PROVE  BeingSent(l + 1, to[l + 1])'
  <2>1. Busy = {}
    <3>1. ASSUME NEW u \in Busy PROVE FALSE
      <4>1. PICK g \in 1 .. l : g = sender[u].frame
        BY <1>18, Typical
      <4>2. damaged' <= g
        BY <1>15, <4>1
      <4> QED  BY <1>4, <1>10, <4>2
    <3> QED  BY <3>1
  <2>2. PICK o \in Int : o = to[l + 1] /\ o = off[l + 1]
    <3>1. l + 1 \in Nat /\ l + 1 \in 1 .. (l + 1)
      OBVIOUS
    <3> QED  BY <1>16, <3>1
  <2>3. Len(wire) + o = 0
    <3>1. CASE l = 0
      BY <1>18, <2>2, <3>1 DEF Stream
    <3>2. CASE l # 0
      <4>1. l \in 1 .. l /\ l < damaged' /\ l + 1 < damaged
        BY <1>4, <1>10, <1>14, <3>2
      <4>2. Len(wire) + off[l] = Start(11, frames[l])
        BY <1>18, <1>9, <4>1 DEF Sent
      <4>3. o = off[l] - Start(11, frames[l])
        BY <1>18, <2>2, <4>1 DEF Stream
      <4>4. frames[l] \in Message /\ 11 \in 1 .. 11
        BY <1>18, <4>1, Typical
      <4>5. PICK b \in Nat : b = Start(11, frames[l])
        BY <4>4, Starts
      <4>6. PICK d \in Int : d = off[l]
        OBVIOUS
      <4>7. PICK n \in Nat : n = Len(wire)
        BY <1>4
      <4>8. n + d = b /\ o = d - b
        BY <4>2, <4>3, <4>5, <4>6, <4>7
      <4>9. n + o = 0
        BY <4>8
      <4> QED  BY <4>7, <4>9
    <3> QED  BY <3>1, <3>2
  <2>4. Lies(l + 1, m, o, 0, wire)
    <3>1. 0 <= Len(wire) + o
      BY <2>3
    <3>2. \A p \in Nat, j \in 1 .. 10 : \A c \in 1 .. Size(j, m) :
            p = Start(j, m) + c => ~(p <= 0)
      <4> SUFFICES ASSUME NEW p \in Nat, NEW j \in 1 .. 10, NEW c \in 1 .. Size(j, m),
                          p = Start(j, m) + c
                   PROVE  ~(p <= 0)
        OBVIOUS
      <4>1. Start(j, m) + c > Start(1, m) /\ Start(1, m) = 0
        <5>1. 1 \in 1 .. 10 /\ j >= 1
          OBVIOUS
        <5> QED  BY <5>1, FieldOfPlace, Starts
      <4> QED  BY <4>1
    <3>3. ASSUME NEW k \in 1 .. Len(wire)
          PROVE  wire[k][1] < l + 1 /\ ~(k + o > 0)
      <4>1. PICK x \in 1 .. l : x = wire[k][1]
        BY <1>18 DEF Types, WireTypes
      <4>2. x < l + 1
        OBVIOUS
      <4>3. ~(k + o > 0)
        BY <1>4, <2>3
      <4> QED  BY <4>1, <4>2, <4>3
    <3> QED  BY <3>1, <3>2, <3>3 DEF Lies
  <2>5. Start(1, m) = 0
    BY Starts
  <2>6. Busy' = {t}
    BY <1>8, <2>1
  <2> QED  BY <1>1, <1>3, <1>4, <1>6, <2>2, <2>3, <2>4, <2>5, <2>6 DEF BeingSent
<1>11. ASSUME NEW f \in 1 .. (l + 1), f < damaged'
       PROVE  Sent(f, to[f])' \/ BeingSent(f, to[f])'
  <2>1. f \in 1 .. l \/ f = l + 1
    BY <1>1
  <2> QED  BY <1>9, <1>10, <1>11, <2>1
<1>12. ASSUME NEW f \in 1 .. (l + 1), f + 1 < damaged'
       PROVE  to[f + 1] = to[f] - Start(11, frames'[f])
  <2>1. CASE f = l + 1
    <3>1. f + 1 = l + 2
      BY <2>1
    <3> QED  BY <1>3, <1>17, <2>1, <3>1
  <2>2. CASE f # l + 1
    <3>1. f \in 1 .. l /\ f + 1 < damaged /\ f + 1 \in 1 .. (l + 1)
      BY <1>4, <1>12, <1>14, <2>2
    <3>2. off[f + 1] = off[f] - Start(11, frames[f])
      BY <1>18, <3>1 DEF Stream
    <3>3. to[f] = off[f] /\ to[f + 1] = off[f + 1] /\ frames'[f] = frames[f]
      BY <1>2, <1>16, <3>1
    <3> QED  BY <3>2, <3>3
  <2> QED  BY <2>1, <2>2
<1>13. Len(frames') # 0
  BY <1>1
<1> QED  BY <1>1, <1>11, <1>12, <1>13 DEF Stream

\* A thread that sends a field that is not damaged is alone; it sends to the end.
LEMMA FieldStream ==
  ASSUME Types, NEW off \in [Nat -> Int], Stream(off), NEW t \in Sender, send_field(t)
  PROVE  Stream(off)'
<1>0. PICK l \in Nat : l = Len(frames)
  BY Typical
<1>1. PICK g \in 1 .. l, i \in 1 .. 10 :
        l = Len(frames) /\ g = sender[t].frame /\ i = sender[t].field
  BY <1>0, FieldTypes
<1>2. t \in Busy /\ frames' = frames /\ damaged' = damaged
  BY FieldTypes
<1>3. Enters(g, i, Size(i, frames[g]))
  BY <1>1, FieldTypes
<1>4. /\ sender' = [sender EXCEPT ![t] = IF i = 10 THEN Idle ELSE [frame |-> g, field |-> i + 1]]
      /\ sender \in [Sender -> [frame : 0 .. MaxFrames, field : 1 .. 10]]
  BY <1>1, FieldTypes DEF Types, SendTypes
<1>5. frames[g] \in Message /\ g \in Nat /\ wire \in Seq(Byte) /\ Len(wire) \in Nat /\ damaged \in Nat
  BY <1>1, Typical
<1>6. PICK n \in Nat : n = Size(i, frames[g])
  BY <1>5, SizeIsNatural
<1>7. Added(wire, g, i, n, wire')
  <2>1. \A k \in 1 .. Len(wire') : k \in 1 .. Len(wire) \/ wire'[k][1] = g
    <3> SUFFICES ASSUME NEW k \in 1 .. Len(wire'), k \notin 1 .. Len(wire)
                 PROVE  wire'[k][1] = g
      OBVIOUS
    <3>1. PICK b \in 1 .. n : k = Len(wire) + b
      BY <1>3, <1>6 DEF Enters
    <3>2. wire'[k] = <<g, i, b>>
      BY <1>3, <1>6, <3>1 DEF Enters
    <3> QED  BY <3>2
  <2> QED  BY <1>3, <1>5, <1>6, <2>1 DEF Enters, Added
<1>8. /\ \A u \in Sender : u # t => sender'[u] = sender[u]
      /\ i = 10 => sender'[t] = Idle
      /\ i # 10 => sender'[t] = [frame |-> g, field |-> i + 1]
  BY <1>4
<1>9. Busy' \subseteq Busy /\ (i = 10 => Busy' = Busy \ {t}) /\ (i # 10 => Busy' = Busy)
  <2>1. i # 10 => sender'[t] # Idle
    <3>1. [frame |-> g, field |-> i + 1].frame = g /\ Idle.frame = 0 /\ g # 0
      BY <1>1 DEF Idle
    <3> QED  BY <1>8, <3>1
  <2> QED  BY <1>2, <1>8, <2>1 DEF Busy
<1>10. \A u \in Busy' : sender'[u].frame = sender[u].frame
  <2> SUFFICES ASSUME NEW u \in Busy' PROVE sender'[u].frame = sender[u].frame
    OBVIOUS
  <2>1. CASE u = t
    <3>1. i # 10
      BY <1>9, <2>1
    <3> QED  BY <1>1, <1>8, <2>1, <3>1
  <2>2. CASE u # t
    BY <1>8, <1>9, <2>2 DEF Busy
  <2> QED  BY <2>1, <2>2
<1>11. ASSUME NEW f \in 1 .. l, f < damaged, Sent(f, off[f])
       PROVE  Sent(f, off[f])'
  <2>1. f # g
    BY <1>1, <1>2, <1>11 DEF Sent
  <2>2. f < g
    <3>1. CASE g < damaged
      <4>1. ~Sent(g, off[g])
        BY <1>1, <1>2 DEF Sent
      <4>2. BeingSent(g, off[g])
        BY <1>1, <3>1, <4>1 DEF Stream
      <4>3. g = l
        BY <1>1, <4>2 DEF BeingSent
      <4> QED  BY <2>1, <4>3
    <3>2. CASE ~(g < damaged)
      BY <1>5, <1>11, <3>2
    <3> QED  BY <3>1, <3>2
  <2>3. \A u \in Busy' : sender'[u].frame # f
    BY <1>9, <1>10, <1>11 DEF Sent
  <2>4. PICK m \in Message, o \in Int, s \in Nat :
          m = frames[f] /\ o = off[f] /\ s = Start(11, frames[f])
    <3>1. f \in Nat /\ frames[f] \in Message /\ 11 \in 1 .. 11
      BY <1>1, Typical
    <3> QED  BY <3>1, Starts
  <2>5. Lies(f, m, o, s, wire)
    BY <1>11, <2>4 DEF Sent
  <2>6. Lies(f, m, o, s, wire')
    <3>1. f \in Nat
      OBVIOUS
    <3> QED  BY <1>5, <1>7, <2>2, <2>5, <3>1, OthersLie
  <2>7. f # Len(frames)
    BY <1>1, <2>2
  <2> QED  BY <1>2, <2>3, <2>4, <2>6, <2>7 DEF Sent
<1>12. ASSUME NEW f \in 1 .. l, BeingSent(f, off[f])
       PROVE  Sent(f, off[f])' \/ BeingSent(f, off[f])'
  <2>1. PICK u \in Sender : /\ Busy = {u} /\ sender[u].frame = f
                            /\ Lies(f, frames[f], off[f], Start(sender[u].field, frames[f]), wire)
                            /\ Len(wire) + off[f] = Start(sender[u].field, frames[f])
    BY <1>12 DEF BeingSent
  <2>2. u = t /\ f = g /\ f = Len(frames)
    BY <1>1, <1>2, <1>12, <2>1 DEF BeingSent
  <2>3. PICK m \in Message, o \in Int : m = frames[f] /\ o = off[f]
    BY <1>5, <2>2
  <2>4. Lies(g, m, o, Start(i, m), wire) /\ Len(wire) + o = Start(i, m)
    BY <1>1, <2>1, <2>2, <2>3
  <2>5. Added(wire, g, i, Size(i, m), wire')
    BY <1>6, <1>7, <2>2, <2>3
  <2>6. Lies(g, m, o, Start(i + 1, m), wire') /\ Len(wire') + o = Start(i + 1, m)
    BY <1>5, <2>4, <2>5, FieldLies
  <2>7. CASE i = 10
    <3>1. Busy' = {} /\ i + 1 = 11
      BY <1>9, <2>1, <2>2, <2>7
    <3> QED  BY <1>2, <2>2, <2>3, <2>6, <3>1 DEF Sent
  <2>8. CASE i # 10
    <3>1. Busy' = {t} /\ sender'[t].frame = f /\ sender'[t].field = i + 1
      BY <1>8, <1>9, <2>1, <2>2, <2>8
    <3> QED  BY <1>2, <2>2, <2>3, <2>6, <3>1 DEF BeingSent
  <2> QED  BY <2>7, <2>8
<1>13. ASSUME NEW f \in 1 .. l, f < damaged
       PROVE  Sent(f, off[f])' \/ BeingSent(f, off[f])'
  BY <1>1, <1>11, <1>12, <1>13 DEF Stream
<1>14. Len(frames) # 0
  BY <1>1
<1> QED  BY <1>1, <1>2, <1>13, <1>14 DEF Stream

\* An interrupted call damages its frame and no other.
LEMMA ShortStream ==
  ASSUME Types, NEW off \in [Nat -> Int], Stream(off), NEW t \in Sender, send_short(t)
  PROVE  Stream(off)'
<1>0. PICK l \in Nat : l = Len(frames)
  BY Typical
<1>1. PICK g \in 1 .. l, i \in 1 .. 10 :
        l = Len(frames) /\ g = sender[t].frame /\ i = sender[t].field
  BY <1>0, ShortTypes
<1>2. t \in Busy /\ frames' = frames /\ sender' = [sender EXCEPT ![t] = Idle]
  BY ShortTypes
<1>3. damaged' <= damaged /\ damaged' <= g /\ damaged \in Nat /\ damaged' \in Nat
  <2>1. damaged' <= damaged /\ damaged' <= g /\ Types'
    BY <1>1, ShortTypes
  <2>2. damaged' \in Nat
    BY <2>1, BoundsAssumption DEF Types, SendTypes
  <2> QED  BY <2>1, <2>2, Typical
<1>4. PICK n \in Nat : Enters(g, i, n)
  BY <1>1, ShortTypes
<1>5. g \in Nat /\ wire \in Seq(Byte) /\ Len(wire) \in Nat
  BY <1>1, Typical
<1>6. Added(wire, g, i, n, wire')
  <2>1. \A k \in 1 .. Len(wire') : k \in 1 .. Len(wire) \/ wire'[k][1] = g
    <3> SUFFICES ASSUME NEW k \in 1 .. Len(wire'), k \notin 1 .. Len(wire)
                 PROVE  wire'[k][1] = g
      OBVIOUS
    <3>1. PICK b \in 1 .. n : k = Len(wire) + b
      BY <1>4 DEF Enters
    <3>2. wire'[k] = <<g, i, b>>
      BY <1>4, <3>1 DEF Enters
    <3> QED  BY <3>2
  <2> QED  BY <1>4, <1>5, <2>1 DEF Enters, Added
<1>7. Busy' = Busy \ {t} /\ \A u \in Busy' : sender'[u] = sender[u]
  BY <1>2 DEF Busy, Types, SendTypes
<1>8. ASSUME NEW f \in 1 .. l, f < damaged'
      PROVE  Sent(f, off[f])'
  <2>1. f < damaged /\ f < g /\ f \in Nat
    BY <1>3, <1>8
  <2>2. ~BeingSent(f, off[f])
    <3>1. ASSUME NEW u \in Sender, Busy = {u}, sender[u].frame = f PROVE FALSE
      BY <1>1, <1>2, <2>1, <3>1
    <3> QED  BY <3>1 DEF BeingSent
  <2>3. Sent(f, off[f])
    BY <1>1, <2>1, <2>2 DEF Stream
  <2>4. \A u \in Busy' : sender'[u].frame # f
    BY <1>7, <2>3 DEF Sent
  <2>5. PICK m \in Message, o \in Int, s \in Nat :
          m = frames[f] /\ o = off[f] /\ s = Start(11, frames[f])
    <3>1. f \in Nat /\ frames[f] \in Message /\ 11 \in 1 .. 11
      BY <1>1, Typical
    <3> QED  BY <3>1, Starts
  <2>6. Lies(f, m, o, s, wire)
    BY <2>3, <2>5 DEF Sent
  <2>7. Lies(f, m, o, s, wire')
    BY <1>5, <1>6, <2>1, <2>6, OthersLie
  <2>8. f # Len(frames)
    BY <1>1, <2>1
  <2> QED  BY <1>2, <2>4, <2>5, <2>7, <2>8 DEF Sent
<1>9. ASSUME NEW f \in 1 .. l, f + 1 < damaged'
      PROVE  off[f + 1] = off[f] - Start(11, frames[f])
  <2>1. f + 1 < damaged
    BY <1>3, <1>9
  <2> QED  BY <1>1, <2>1 DEF Stream
<1>10. Len(frames) # 0
  BY <1>1
<1> QED  BY <1>1, <1>2, <1>8, <1>9, <1>10 DEF Stream

\* Not all that was sent of frame f was read, and w[1] is to be read next.
Ahead(f, m, o, s, w) ==
    /\ Lies(f, m, o, s, w) /\ 1 + o <= s /\ s <= Start(11, m)
    /\ Len(w) \in Nat /\ Len(w) >= 1 /\ w[1][1] \in Nat

\* Before a frame that was not read to its end come only older ones.
LEMMA FrontLies ==
  ASSUME NEW f \in Nat, NEW m \in Message, NEW o \in Int, NEW s \in Nat, NEW w,
         Ahead(f, m, o, s, w)
  PROVE  w[1][1] <= f /\ (o >= 0 => w[1][1] = f)
<1>0. PICK x \in Nat : x = w[1][1]
  BY DEF Ahead
<1>3. Lies(f, m, o, s, w) /\ 1 + o <= s /\ s <= Start(11, m)
  BY DEF Ahead
<1>1. CASE 1 + o <= 0
  <2>0. 1 \in 1 .. Len(w)
    BY DEF Ahead
  <2>1. x < f
    BY <1>0, <1>1, <1>3, <2>0 DEF Lies
  <2> QED  BY <1>0, <1>1, <2>1
<1>2. CASE 1 + o > 0
  <2>1. PICK p \in Nat : p = 1 + o
    BY <1>2
  <2>2. p > o /\ p <= s /\ p - o = 1 /\ p >= 1
    BY <1>2, <1>3, <2>1
  <2>3. Start(11, m) \in Nat
    BY Starts
  <2>4. p \in 1 .. Start(11, m)
    BY <1>3, <2>2, <2>3
  <2>5. PICK j \in 1 .. 10 : \E c \in 1 .. Size(j, m) : p = Start(j, m) + c
    BY <2>4, PlaceHasField
  <2>6. PICK c \in 1 .. Size(j, m) : p = Start(j, m) + c
    BY <2>5
  <2>7. w[p - o] = <<f, j, c>>
    BY <1>3, <2>2, <2>6 DEF Lies
  <2>8. w[1] = <<f, j, c>>
    BY <2>2, <2>7
  <2>9. x = f
    BY <1>0, <2>8
  <2> QED  BY <1>0, <2>9
<1> QED  BY <1>1, <1>2

\* How much of a frame that is not damaged was sent: all of it, or all up to the end of
\* the stream.
LEMMA LiesSomewhere ==
  ASSUME Types, NEW off \in [Nat -> Int], Stream(off), NEW f \in 1 .. Len(frames), f < damaged
  PROVE  \E m \in Message, o \in Int, s \in Nat :
           /\ f \in Nat /\ m = frames[f] /\ o = off[f] /\ Lies(f, m, o, s, wire)
           /\ s <= Start(11, m)
           /\ (s = Start(11, m) \/ Len(wire) + o = s)
<1>1. PICK m \in Message, o \in Int : f \in Nat /\ m = frames[f] /\ o = off[f]
  BY Typical
<1>2. PICK z \in Nat : z = Start(11, m)
  BY Starts
<1>3. CASE Sent(f, off[f])
  <2>1. Lies(f, m, o, z, wire) /\ z <= z
    BY <1>1, <1>2, <1>3 DEF Sent
  <2> QED  BY <1>1, <1>2, <2>1
<1>4. CASE BeingSent(f, off[f])
  <2>1. PICK t \in Sender :
          /\ Busy = {t} /\ Lies(f, m, o, Start(sender[t].field, m), wire)
          /\ Len(wire) + o = Start(sender[t].field, m)
    BY <1>1, <1>4 DEF BeingSent
  <2>2. t \in Busy
    BY <2>1
  <2>3. PICK i \in 1 .. 10 : i = sender[t].field
    BY <2>2, Typical
  <2>4. i \in 1 .. 11 /\ 11 \in 1 .. 11 /\ i <= 11
    OBVIOUS
  <2>5. Start(i, m) \in Nat /\ Start(i, m) <= Start(11, m)
    BY <2>4, Starts
  <2> QED  BY <1>1, <2>1, <2>3, <2>5
<1> QED  BY <1>3, <1>4 DEF Stream

\* The same for a frame in the socket.
LEMMA FrontByte ==
  ASSUME Types, NEW off \in [Nat -> Int], Stream(off), NEW f \in 1 .. Len(frames), f < damaged,
         off[f] < Start(11, frames[f]), Len(wire) >= 1
  PROVE  wire[1][1] <= f /\ (off[f] >= 0 => wire[1][1] = f)
<1>1. PICK m \in Message, o \in Int, s \in Nat :
        /\ f \in Nat /\ m = frames[f] /\ o = off[f] /\ Lies(f, m, o, s, wire)
        /\ s <= Start(11, m)
        /\ (s = Start(11, m) \/ Len(wire) + o = s)
  BY LiesSomewhere
<1>2. PICK z \in Nat, n \in Nat : z = Start(11, m) /\ n = Len(wire) /\ n >= 1
  <2>1. Start(11, m) \in Nat
    BY Starts
  <2>2. Len(wire) \in Nat
    BY Typical
  <2> QED  BY <2>1, <2>2
<1>3. 1 \in 1 .. Len(wire)
  BY <1>2
<1>4. PICK x \in Nat : x = wire[1][1]
  <2>1. wire[1][1] \in 1 .. Len(frames)
    BY <1>3 DEF Types, WireTypes
  <2> QED  BY <2>1
<1>5. 1 + o <= s
  <2>1. o < z /\ (s = z \/ n + o = s)
    BY <1>1, <1>2
  <2> QED  BY <1>2, <2>1
<1>6. x <= f /\ (o >= 0 => x = f)
  <2>1. PICK w : w = wire
    OBVIOUS
  <2>2. Ahead(f, m, o, s, w)
    BY <1>1, <1>2, <1>4, <1>5, <2>1 DEF Ahead
  <2>3. w[1][1] <= f /\ (o >= 0 => w[1][1] = f)
    BY <1>1, <2>2, FrontLies
  <2> QED  BY <1>4, <2>1, <2>3
<1> QED  BY <1>1, <1>4, <1>6

\* The reader that has come to a field of a frame receives that field.
LEMMA WordIsField ==
  ASSUME Types, NEW off \in [Nat -> Int], Stream(off), NEW f \in 1 .. Len(frames), f < damaged,
         NEW i \in 1 .. 10, off[f] = Start(i, frames[f]),
         at = i, Want = Size(i, frames[f]), Want <= Len(wire),
         NEW word, word = SubSeq(wire, 1, Want)
  PROVE  word = Bytes(f, i, Size(i, frames[f]))
<1>1. PICK m \in Message, o \in Int, s \in Nat :
        /\ f \in Nat /\ m = frames[f] /\ o = off[f] /\ Lies(f, m, o, s, wire)
        /\ s <= Start(11, m)
        /\ (s = Start(11, m) \/ Len(wire) + o = s)
  BY LiesSomewhere
<1>2. i \in 1 .. 11 /\ i + 1 \in 1 .. 11 /\ 11 \in 1 .. 11 /\ i + 1 <= 11
  OBVIOUS
<1>3. /\ Start(i, m) \in Nat /\ Start(11, m) \in Nat /\ Size(i, m) \in Nat
      /\ Start(i + 1, m) = Start(i, m) + Size(i, m) /\ Start(i + 1, m) <= Start(11, m)
  BY <1>2, Starts, SizeIsNatural
<1>4. PICK a \in Nat, z \in Nat, e \in Nat, n \in Nat :
        /\ a = Start(i, m) /\ z = Size(i, m) /\ e = Start(11, m) /\ n = Len(wire)
        /\ a + z <= e
  BY <1>3, Typical
<1>5. o = a /\ z <= n /\ (s = e \/ n + o = s) /\ Want = z /\ at # 0
  BY <1>1, <1>4
<1>6. a + z <= s
  <2>1. CASE s = e
    BY <1>4, <2>1
  <2>2. CASE n + o = s
    <3>1. n + a = s /\ z <= n
      BY <1>5, <2>2
    <3> QED  BY <3>1
  <2> QED  BY <1>5, <2>1, <2>2
<1>7. Lies(f, m, Start(i, m), s, wire) /\ Start(i, m) + Size(i, m) <= s
  BY <1>1, <1>4, <1>5, <1>6
<1>8. \A b \in 1 .. Size(i, m) : wire[b] = <<f, i, b>>
  <2>1. PICK w \in Seq(Byte) : w = wire
    BY Typical
  <2>4. PICK g \in Nat : g = f
    BY <1>1
  <2>2. Lies(g, m, Start(i, m), s, w) /\ Start(i, m) + Size(i, m) <= s
    BY <1>7, <2>1, <2>4
  <2>3. \A b \in 1 .. Size(i, m) : w[b] = <<g, i, b>>
    BY <2>2, FieldArrives
  <2> QED  BY <2>1, <2>3, <2>4
<1>9. word \in Seq(Byte) /\ Len(word) = z /\ DOMAIN word = 1 .. z /\ \A b \in 1 .. z : word[b] = wire[b]
  BY <1>5, WordProperties
<1>10. \A b \in 1 .. z : word[b] = <<f, i, b>>
  BY <1>4, <1>8, <1>9
<1>11. word = Bytes(f, i, z)
  <2>2. word \in [1 .. Len(word) -> Byte]
    BY <1>9, LenProperties, Zenon
  <2>1. word \in [1 .. z -> Byte]
    BY <1>9, <2>2
  <2> QED  BY <1>10, <2>1 DEF Bytes
<1> QED  BY <1>1, <1>4, <1>11

\* Sending changes nothing for the reader.
LEMMA SendKeeps ==
  ASSUME Types, Types', NEW off \in [Nat -> Int], NEW to \in [Nat -> Int],
         InFrame(off), Onwards(off), InSequence(off), ReturnsWhatWasSent,
         UNCHANGED <<towards, reading>>, damaged' <= damaged, Len(frames) <= Len(frames'),
         \A f \in 1 .. Len(frames) : frames'[f] = frames[f],
         \A f \in 1 .. (Len(frames) + 1) : to[f] = off[f]
  PROVE  InFrame(to)' /\ Onwards(to)' /\ InSequence(to)' /\ ReturnsWhatWasSent'
<1>1. PICK l \in Nat, d \in Nat, n \in Nat : l = Len(frames) /\ d = damaged /\ n = Len(received)
  BY Typical
<1>2. PICK l2 \in Nat, d2 \in Nat : l2 = Len(frames') /\ d2 = damaged' /\ d2 <= d /\ l <= l2
  <2>1. Len(frames') \in Nat
    BY DEF Types, SendTypes
  <2>2. damaged' \in Nat
    BY BoundsAssumption DEF Types, SendTypes
  <2> QED  BY <1>1, <2>1, <2>2
<1>3. /\ at' = at /\ len' = len /\ first' = first /\ intact' = intact /\ received' = received
      /\ towards' = towards /\ lost' = lost
  BY DEF reading
<1>4. \A f \in 1 .. l : frames'[f] = frames[f]
  BY <1>1
<1>5. \A f \in 1 .. (l + 1) : to[f] = off[f]
  BY <1>1
<1>6. first \in 0 .. l /\ (first # 0 => first \in 1 .. l)
  BY <1>1 DEF Types, ReadTypes
<1>7. \A j \in 1 .. n : received[j].frame \in 0 .. l
  BY <1>1 DEF Types, ReadTypes
<1>8. InFrame(to)'
  <2> SUFFICES ASSUME at \in 2 .. 10, first # 0, first < d2
               PROVE  /\ intact /\ to[first] = Start(at, frames'[first])
                      /\ at \in TextFields => len = Size(at, frames'[first])
                      /\ \A j \in 1 .. n : received[j].frame < first
    BY <1>1, <1>2, <1>3 DEF InFrame
  <2>1. first \in 1 .. l /\ first \in 1 .. (l + 1) /\ first < d
    BY <1>2, <1>6
  <2>2. frames'[first] = frames[first] /\ to[first] = off[first]
    BY <1>4, <1>5, <2>1
  <2> QED  BY <1>1, <2>1, <2>2 DEF InFrame
<1>9. Onwards(to)'
  <2> SUFFICES ASSUME NEW f \in 1 .. l2, f < d2, to[f] < Start(11, frames'[f])
               PROVE  /\ at \in 2 .. 10 => first <= f
                      /\ \A j \in 1 .. n : received[j].frame < f
    BY <1>1, <1>2, <1>3 DEF Onwards
  <2>1. CASE f \in 1 .. l
    <3>3. f \in 1 .. (l + 1)
      BY <2>1
    <3>4. f \in Nat /\ d2 <= d /\ f < d2
      BY <1>2
    <3>1. f \in 1 .. (l + 1) /\ f < d
      BY <3>3, <3>4
    <3>2. frames'[f] = frames[f] /\ to[f] = off[f]
      BY <1>4, <1>5, <2>1, <3>1
    <3> QED  BY <1>1, <2>1, <3>1, <3>2 DEF Onwards
  <2>2. CASE f \notin 1 .. l
    <3>1. f > l /\ f \in Nat
      BY <2>2
    <3>2. first <= f
      BY <1>6, <3>1
    <3>3. ASSUME NEW j \in 1 .. n PROVE received[j].frame < f
      <4>1. PICK g \in 0 .. l : g = received[j].frame
        BY <1>7
      <4>2. g < f
        BY <3>1
      <4> QED  BY <4>1, <4>2
    <3> QED  BY <3>2, <3>3
  <2> QED  BY <2>1, <2>2
<1>10. InSequence(to)'
  <2> SUFFICES ASSUME InPlace
               PROVE  /\ \A i \in 1 .. n : i < d2 => received[i].frame = i
                      /\ n + 1 < d2 =>
                           /\ at \in 2 .. 10 => first = n + 1
                           /\ at = 1 => to[n + 1] = 0
    BY <1>1, <1>2, <1>3 DEF InSequence, InPlace
  <2>1. /\ \A i \in 1 .. n : i < d => received[i].frame = i
        /\ n + 1 < d => (at \in 2 .. 10 => first = n + 1) /\ (at = 1 => off[n + 1] = 0)
    BY <1>1 DEF InSequence
  <2>2. \A i \in 1 .. n : i < d2 => i < d
    BY <1>2
  <2>3. n + 1 < d2 => n + 1 < d /\ n + 1 \in 1 .. (l + 1)
    <3> SUFFICES ASSUME n + 1 < d2 PROVE n + 1 < d /\ n + 1 \in 1 .. (l + 1)
      OBVIOUS
    <3>1. n < d /\ n + 1 < d
      BY <1>2
    <3>2. n # 0 => n \in 1 .. l
      <4> SUFFICES ASSUME n # 0 PROVE n \in 1 .. l
        OBVIOUS
      <4>1. n \in 1 .. n
        OBVIOUS
      <4>2. received[n].frame = n
        BY <2>1, <3>1, <4>1
      <4>3. n \in 0 .. l
        BY <1>7, <4>1, <4>2
      <4> QED  BY <4>3
    <3> QED  BY <3>1, <3>2
  <2> QED  BY <1>5, <2>1, <2>2, <2>3
<1>11. ReturnsWhatWasSent'
  <2> SUFFICES ASSUME NEW i \in DOMAIN received, received[i].frame \in 1 .. (d2 - 1)
               PROVE  /\ received[i].intact
                      /\ \A j \in 1 .. (i - 1) : received[j].frame < received[i].frame
    BY <1>2, <1>3 DEF ReturnsWhatWasSent
  <2>3. DOMAIN received = 1 .. n
    BY <1>1 DEF Types, ReadTypes
  <2>1. PICK g \in 1 .. (d2 - 1) : g = received[i].frame
    OBVIOUS
  <2>4. g \in Nat /\ 1 <= g /\ g < d2
    OBVIOUS
  <2>6. d2 <= d
    BY <1>2
  <2>5. g \in 1 .. (d - 1)
    BY <2>4, <2>6
  <2>2. received[i].frame \in 1 .. (d - 1)
    BY <2>1, <2>5
  <2> QED  BY <1>1, <2>2 DEF ReturnsWhatWasSent
<1> QED  BY <1>8, <1>9, <1>10, <1>11

-----------------------------------------------------------------------------
(***************************************************************************)
(* The reader.                                                             *)
(***************************************************************************)
\* A reader that gives a frame up has received nothing new; the broker's has ended,
\* a client's has lost its place.
LEMMA GivesUpKeeps ==
  ASSUME Types, NEW off \in [Nat -> Int], NEW n \in Nat, NEW to, Shifted(off, n, to),
         Onwards(off), InSequence(off), ReturnsWhatWasSent,
         UNCHANGED <<towards, frames, damaged>>, NEW freed, Abandons(freed)
  PROVE  InFrame(to)' /\ Onwards(to)' /\ InSequence(to)' /\ ReturnsWhatWasSent'
<1>1. /\ at' \in {0, 1} /\ at' \notin 2 .. 10 /\ received' = received
      /\ lost' /\ (towards = "broker" => at' = 0)
  BY DEF Abandons, NextFrame
<1>2. InFrame(to)'
  BY <1>1 DEF InFrame
<1>3. Onwards(to)'
  <2> SUFFICES ASSUME NEW f \in 1 .. Len(frames), f < damaged, to[f] < Start(11, frames[f])
               PROVE  \A j \in 1 .. Len(received) : received[j].frame < f
    BY <1>1 DEF Onwards
  <2>1. f \in Nat /\ frames[f] \in Message
    BY Typical
  <2>2. PICK a \in Int, z \in Nat : a = off[f] /\ z = Start(11, frames[f])
    BY <2>1, Starts
  <2>3. to[f] = a + n
    BY <2>1, <2>2 DEF Shifted
  <2>4. a < z
    BY <2>2, <2>3
  <2> QED  BY <2>2, <2>4 DEF Onwards
<1>4. InSequence(to)'
  <2> SUFFICES ASSUME InPlace'
               PROVE  /\ \A i \in 1 .. Len(received) : i < damaged => received[i].frame = i
                      /\ at' = 0
    BY <1>1 DEF InSequence
  <2>1. towards = "broker"
    BY <1>1 DEF InPlace
  <2> QED  BY <1>1, <2>1 DEF InSequence, InPlace
<1>5. ReturnsWhatWasSent'
  BY <1>1 DEF ReturnsWhatWasSent
<1> QED  BY <1>2, <1>3, <1>4, <1>5

\* How many bytes the reader asks for when it is inside a frame that is not damaged.
LEMMA WantInFrame ==
  ASSUME Types, NEW off, InFrame(off), at \in 2 .. 10, first # 0, first < damaged
  PROVE  /\ first \in 1 .. Len(frames) /\ frames[first] \in Message
         /\ off[first] = Start(at, frames[first]) /\ Want = Size(at, frames[first])
         /\ intact /\ \A j \in 1 .. Len(received) : received[j].frame < first
<1>1. first \in 1 .. Len(frames)
  BY DEF Types, ReadTypes
<1>2. frames[first] \in Message
  BY <1>1, Typical
<1>3. /\ off[first] = Start(at, frames[first]) /\ intact
      /\ \A j \in 1 .. Len(received) : received[j].frame < first
  BY DEF InFrame
<1>4. Want = Size(at, frames[first])
  <2>1. CASE at \in TextFields
    <3>1. len = Size(at, frames[first])
      BY <2>1 DEF InFrame
    <3> QED  BY <2>1, <3>1 DEF Want
  <2>2. CASE at \notin TextFields
    BY <2>2 DEF Want, Size
  <2> QED  BY <2>1, <2>2
<1> QED  BY <1>1, <1>2, <1>3, <1>4

\* A reader with a magic is at the start of the frame it came from.
LEMMA MagicStarts ==
  ASSUME Types, NEW off \in [Nat -> Int], Stream(off), at = 1, Want <= Len(wire),
         NEW word, word = SubSeq(wire, 1, Want), IsMagic(word),
         NEW f, f = word[1][1], f < damaged
  PROVE  /\ f \in 1 .. Len(frames) /\ frames[f] \in Message /\ off[f] = 0
         /\ word = Bytes(f, 1, Size(1, frames[f])) /\ Want = Size(1, frames[f])
<1>1. Want \in Nat /\ Want > 0 /\ Want = WordSize
  BY WantIsNatural, FixedSizes DEF TextFields
<1>2. /\ word \in Seq(Byte) /\ DOMAIN word = 1 .. Want
      /\ \A b \in 1 .. Want : word[b] = wire[b] /\ b \in 1 .. Len(wire)
  <2>1. at # 0
    OBVIOUS
  <2> QED  BY <2>1, WordProperties
<1>3. 1 \in 1 .. Want
  BY <1>1
<1>4. word[1] = wire[1] /\ 1 \in 1 .. Len(wire) /\ word[1][2] = 1 /\ word[1][3] = 1
  BY <1>2, <1>3 DEF IsMagic
<1>5. f \in 1 .. Len(frames)
  BY <1>4 DEF Types, WireTypes
<1>6. wire[1] = <<f, 1, 1>>
  <2>1. PICK x \in Byte : x = wire[1]
    BY <1>4, Typical
  <2>2. x[1] = f /\ x[2] = 1 /\ x[3] = 1
    BY <1>4, <2>1
  <2>3. x = <<x[1], x[2], x[3]>>
    BY DEF Byte
  <2> QED  BY <2>1, <2>2, <2>3
<1>7. PICK m \in Message, o \in Int, s \in Nat :
        /\ f \in Nat /\ m = frames[f] /\ o = off[f] /\ Lies(f, m, o, s, wire)
        /\ s <= Start(11, m)
        /\ (s = Start(11, m) \/ Len(wire) + o = s)
  BY <1>5, LiesSomewhere
<1>8. o = 0
  <2>1. wire \in Seq(Byte) /\ 1 <= Len(wire)
    BY <1>4, Typical
  <2> QED  BY <1>6, <1>7, <2>1, MagicArrives
<1>9. Size(1, m) = WordSize /\ Start(1, m) = 0 /\ 1 \in 1 .. 10
  BY Sizes, Starts
<1>10. off[f] = Start(1, frames[f]) /\ Want = Size(1, frames[f])
  BY <1>1, <1>7, <1>8, <1>9
<1>11. word = Bytes(f, 1, Size(1, frames[f]))
  BY <1>5, <1>9, <1>10, WordIsField
<1> QED  BY <1>5, <1>7, <1>8, <1>10, <1>11

\* The magic of a frame is one.
LEMMA MagicOfFrame ==
  ASSUME NEW f \in Nat
  PROVE  IsMagic(Bytes(f, 1, WordSize)) /\ Bytes(f, 1, WordSize)[1][1] = f
<1>1. WordSize \in Nat /\ 1 \in 1 .. WordSize
  BY BoundsAssumption
<1>2. \A b \in 1 .. WordSize : Bytes(f, 1, WordSize)[b] = <<f, 1, b>>
  BY DEF Bytes
<1>3. DOMAIN Bytes(f, 1, WordSize) = 1 .. WordSize
  BY DEF Bytes
<1>4. IsMagic(Bytes(f, 1, WordSize))
  <2>1. PICK w : w = Bytes(f, 1, WordSize)
    OBVIOUS
  <2>2. ASSUME NEW b \in DOMAIN w PROVE w[b][2] = 1 /\ w[b][3] = b
    <3>1. w[b] = <<f, 1, b>>
      BY <1>2, <1>3, <2>1
    <3> QED  BY <3>1
  <2>3. IsMagic(w)
    BY <2>2 DEF IsMagic
  <2> QED  BY <2>1, <2>3
<1>5. Bytes(f, 1, WordSize)[1] = <<f, 1, 1>>
  BY <1>1, <1>2
<1> QED  BY <1>4, <1>5

\* A reader that has not lost its place is, between two frames, where the next one
\* starts, and receives the magic of that frame.
LEMMA NextInSequence ==
  ASSUME Types, NEW off \in [Nat -> Int], Stream(off), InSequence(off),
         InPlace, at = 1, Len(received) + 1 < damaged, Want <= Len(wire),
         NEW word, word = SubSeq(wire, 1, Want)
  PROVE  IsMagic(word) /\ word[1][1] = Len(received) + 1
<1>1. PICK n \in Nat, l \in Nat, w \in Nat, d \in Nat :
        n = Len(received) /\ l = Len(frames) /\ w = Len(wire) /\ d = damaged
  BY Typical
<1>9. Want \in Nat /\ Want > 0 /\ Want = WordSize
  BY WantIsNatural, FixedSizes DEF TextFields
<1>2. n + 1 < d /\ w >= 1 /\ off[n + 1] = 0
  BY <1>1, <1>9 DEF InSequence
<1>3. n <= l
  <2>1. CASE n = 0
    BY <2>1
  <2>2. CASE n # 0
    <3>1. n \in 1 .. n /\ n < d
      BY <1>2, <2>2
    <3>2. received[n].frame = n
      BY <1>1, <3>1 DEF InSequence
    <3>3. n \in 0 .. l
      BY <1>1, <3>1, <3>2 DEF Types, ReadTypes
    <3> QED  BY <3>3
  <2> QED  BY <2>1, <2>2
<1>4. n # l
  <2> SUFFICES ASSUME n = l PROVE FALSE
    OBVIOUS
  <2>1. CASE n = 0
    <3>1. w + off[1] = 0
      BY <1>1, <2>1 DEF Stream
    <3>2. off[1] = 0
      BY <1>2, <2>1
    <3> QED  BY <1>2, <3>1, <3>2
  <2>2. CASE n # 0
    <3>1. n \in 1 .. l /\ n + 1 < d /\ n < d /\ n \in Nat
      BY <1>2, <2>2
    <3>2. PICK m \in Message, o \in Int : m = frames[n] /\ o = off[n]
      BY <1>1, <3>1, Typical
    <3>3. PICK z \in Nat : z = Start(11, m)
      BY Starts
    <3>4. off[n + 1] = o - z
      BY <1>1, <3>1, <3>2, <3>3 DEF Stream
    <3>5. o = z
      BY <1>2, <3>4
    <3>6. CASE Sent(n, off[n])
      <4>1. w + o = z
        BY <1>1, <3>2, <3>3, <3>6 DEF Sent
      <4> QED  BY <1>2, <3>5, <4>1
    <3>7. CASE BeingSent(n, off[n])
      <4>1. PICK t \in Sender : Busy = {t} /\ w + o = Start(sender[t].field, m)
        BY <1>1, <3>2, <3>7 DEF BeingSent
      <4>2. t \in Busy
        BY <4>1
      <4>3. PICK i \in 1 .. 10 : i = sender[t].field
        BY <4>2, Typical
      <4>4. i \in 1 .. 11 /\ 11 \in 1 .. 11 /\ i <= 11
        OBVIOUS
      <4>5. PICK y \in Nat : y = Start(i, m) /\ y <= z
        BY <3>3, <4>4, Starts
      <4>6. w + o = y
        BY <4>1, <4>3, <4>5
      <4> QED  BY <1>2, <3>5, <4>5, <4>6
    <3> QED  BY <1>1, <3>1, <3>6, <3>7 DEF Stream
  <2> QED  BY <2>1, <2>2
<1>5. PICK f \in 1 .. l : f = n + 1 /\ f \in Nat
  BY <1>3, <1>4
<1>6. f \in 1 .. Len(frames) /\ f < damaged /\ frames[f] \in Message
  BY <1>1, <1>2, <1>5, Typical
<1>7. off[f] = Start(1, frames[f]) /\ Want = Size(1, frames[f]) /\ 1 \in 1 .. 10
  <2>1. Start(1, frames[f]) = 0 /\ Size(1, frames[f]) = WordSize
    BY <1>6, Starts, Sizes
  <2> QED  BY <1>2, <1>5, <1>9, <2>1
<1>8. word = Bytes(f, 1, WordSize)
  <2>1. word = Bytes(f, 1, Size(1, frames[f]))
    BY <1>6, <1>7, WordIsField
  <2> QED  BY <1>7, <1>9, <2>1
<1> QED  BY <1>1, <1>5, <1>8, MagicOfFrame

\* A reader that goes on with the next field is at its place in the same frame.
LEMMA GoesOnKeeps ==
  ASSUME Types, NEW off \in [Nat -> Int], NEW to, Shifted(off, Want, to), Stream(off),
         InFrame(off), Onwards(off), InSequence(off), ReturnsWhatWasSent,
         UNCHANGED <<towards, frames, damaged>>, NEW word, GoesOn(word)
  PROVE  InFrame(to)' /\ Onwards(to)' /\ InSequence(to)' /\ ReturnsWhatWasSent'
<1>1. /\ at \in 1 .. 9 /\ Want <= Len(wire) /\ word = SubSeq(wire, 1, Want)
      /\ Proceeds(word)
  BY DEF GoesOn
<1>2. /\ intact' = ((at = 1 \/ intact) /\ Belongs(word, first'))
      /\ len' \in (IF at \in LengthFields THEN Decode(word) ELSE {0})
      /\ at' = at + 1 /\ received' = received /\ lost' = lost
  BY <1>1 DEF Proceeds
<1>3. at' \in 2 .. 10 /\ at' # 1 /\ at # 0 /\ at \in 1 .. 10
  <2>1. PICK i \in 1 .. 9 : i = at
    BY <1>1
  <2>2. i + 1 \in 2 .. 10 /\ i + 1 # 1 /\ i # 0 /\ i \in 1 .. 10
    OBVIOUS
  <2>3. at' = i + 1
    BY <1>2, <2>1
  <2> QED  BY <2>1, <2>2, <2>3
<1>4. Want \in Nat /\ Len(wire) \in Nat
  BY <1>3, WantIsNatural, Typical
<1>5. at = 1 => word[1][1] = wire[1][1] /\ Len(wire) >= 1
  <2> SUFFICES ASSUME at = 1 PROVE word[1][1] = wire[1][1] /\ Len(wire) >= 1
    OBVIOUS
  <2>1. Want > 0
    BY <1>3, WantIsNatural DEF TextFields
  <2>2. 1 \in 1 .. Want
    BY <1>4, <2>1
  <2>3. word[1] = wire[1]
    BY <1>1, <1>3, <2>2, WordProperties
  <2> QED  BY <1>1, <1>4, <2>1, <2>3
<1>11. /\ at # 1 => first' = first
       /\ at = 1 /\ IsMagic(word) => first' = word[1][1]
       /\ at = 1 /\ ~IsMagic(word) => first' = 0
  <2>1. (at # 1 => at > 1) /\ (at = 1 => ~(at > 1))
    BY <1>1
  <2> QED  BY <1>1, <2>1, Zenon DEF Proceeds
<1>6. ASSUME NEW f, f = first', f # 0, f < damaged
      PROVE  /\ f \in 1 .. Len(frames) /\ frames[f] \in Message
             /\ off[f] = Start(at, frames[f]) /\ Want = Size(at, frames[f])
             /\ word = Bytes(f, at, Size(at, frames[f])) /\ (at = 1 \/ intact)
             /\ \A j \in 1 .. Len(received) : received[j].frame < f
  <2>1. CASE at = 1
    <3>1. f = word[1][1] /\ IsMagic(word)
      BY <1>6, <1>11, <2>1
    <3>2. /\ f \in 1 .. Len(frames) /\ frames[f] \in Message /\ off[f] = 0
          /\ word = Bytes(f, 1, Size(1, frames[f])) /\ Want = Size(1, frames[f])
      BY <1>1, <1>6, <2>1, <3>1, MagicStarts
    <3>3. Start(1, frames[f]) = 0
      BY <3>2, Starts
    <3>4. off[f] < Start(11, frames[f])
      <4>1. 10 \in 1 .. 11
        OBVIOUS
      <4>2. PICK a \in Nat : Start(11, frames[f]) = a + 1
        BY <3>2, <4>1, Starts
      <4> QED  BY <3>2, <4>2
    <3>5. \A j \in 1 .. Len(received) : received[j].frame < f
      BY <1>6, <3>2, <3>4 DEF Onwards
    <3> QED  BY <2>1, <3>2, <3>3, <3>5
  <2>2. CASE at # 1
    <3>1. f = first /\ at \in 2 .. 10
      BY <1>1, <1>6, <1>11, <2>2
    <3>2. /\ f \in 1 .. Len(frames) /\ frames[f] \in Message
          /\ off[f] = Start(at, frames[f]) /\ Want = Size(at, frames[f])
          /\ intact /\ \A j \in 1 .. Len(received) : received[j].frame < f
      BY <1>6, <3>1, WantInFrame
    <3>3. PICK i \in 1 .. 10 : i = at
      BY <1>3
    <3>4. word = Bytes(f, i, Size(i, frames[f]))
      BY <1>1, <1>6, <3>2, <3>3, WordIsField
    <3> QED  BY <3>2, <3>3, <3>4
  <2> QED  BY <2>1, <2>2
<1>7. InFrame(to)'
  <2> SUFFICES ASSUME NEW f, f = first', f # 0, f < damaged
               PROVE  /\ intact' /\ to[f] = Start(at + 1, frames[f])
                      /\ at + 1 \in TextFields => len' = Size(at + 1, frames[f])
                      /\ \A j \in 1 .. Len(received) : received[j].frame < f
    BY <1>2 DEF InFrame
  <2>1. /\ f \in 1 .. Len(frames) /\ frames[f] \in Message
        /\ off[f] = Start(at, frames[f]) /\ Want = Size(at, frames[f])
        /\ word = Bytes(f, at, Size(at, frames[f])) /\ (at = 1 \/ intact)
        /\ \A j \in 1 .. Len(received) : received[j].frame < f
    BY <1>6
  <2>2. intact'
    BY <1>2, <2>1 DEF Belongs
  <2>3. to[f] = Start(at + 1, frames[f])
    <3>1. f \in Nat
      BY <2>1, Typical
    <3>2. to[f] = off[f] + Want
      BY <3>1 DEF Shifted
    <3>3. Start(at + 1, frames[f]) = Start(at, frames[f]) + Size(at, frames[f])
      BY <1>3, <2>1, Starts
    <3> QED  BY <2>1, <3>2, <3>3
  <2>4. ASSUME at + 1 \in TextFields PROVE len' = Size(at + 1, frames[f])
    <3>1. at \in LengthFields
      BY <1>1, <2>4 DEF TextFields, LengthFields
    <3>2. Size(at, frames[f]) = WordSize
      BY <2>1, <3>1, Sizes DEF LengthFields
    <3>3. word = Bytes(f, at, WordSize)
      BY <2>1, <3>2
    <3>4. Decode(word) = {Size(at + 1, frames[f])}
      BY <2>1, <3>1, <3>3, Decoded
    <3> QED  BY <1>2, <3>1, <3>4
  <2> QED  BY <2>1, <2>2, <2>3, <2>4
<1>8. Onwards(to)'
  <2> SUFFICES ASSUME NEW f \in 1 .. Len(frames), f < damaged, to[f] < Start(11, frames[f])
               PROVE  first' <= f /\ \A j \in 1 .. Len(received) : received[j].frame < f
    BY <1>2 DEF Onwards
  <2>1. f \in Nat /\ frames[f] \in Message
    BY Typical
  <2>2. PICK a \in Int, z \in Nat : a = off[f] /\ z = Start(11, frames[f])
    BY <2>1, Starts
  <2>3. to[f] = a + Want
    BY <2>1, <2>2 DEF Shifted
  <2>4. a < z
    BY <1>4, <2>2, <2>3
  <2>5. /\ at \in 2 .. 10 => first <= f
        /\ \A j \in 1 .. Len(received) : received[j].frame < f
    BY <2>2, <2>4 DEF Onwards
  <2>6. at # 1 => first' <= f
    BY <1>1, <1>11, <2>5
  <2>7. at = 1 => first' <= f
    <3> SUFFICES ASSUME at = 1 PROVE first' <= f
      OBVIOUS
    <3>1. wire[1][1] <= f
      BY <1>5, <2>2, <2>4, FrontByte
    <3>2. 0 <= f
      BY <2>1
    <3> QED  BY <1>5, <1>11, <3>1, <3>2
  <2> QED  BY <2>5, <2>6, <2>7
<1>9. InSequence(to)'
  <2> SUFFICES ASSUME InPlace
               PROVE  /\ \A i \in 1 .. Len(received) : i < damaged => received[i].frame = i
                      /\ Len(received) + 1 < damaged => first' = Len(received) + 1
    BY <1>2, <1>3 DEF InSequence, InPlace
  <2>1. ASSUME Len(received) + 1 < damaged PROVE first' = Len(received) + 1
    <3>1. CASE at = 1
      BY <1>1, <1>11, <2>1, <3>1, NextInSequence
    <3>2. CASE at # 1
      <4>1. at \in 2 .. 10
        BY <1>1, <3>2
      <4> QED  BY <1>11, <2>1, <3>2, <4>1 DEF InSequence
    <3> QED  BY <3>1, <3>2
  <2> QED  BY <2>1 DEF InSequence
<1>10. ReturnsWhatWasSent'
  BY <1>2 DEF ReturnsWhatWasSent
<1> QED  BY <1>7, <1>8, <1>9, <1>10

\* A message that is returned comes after those that were returned before.
LEMMA FinishesKeeps ==
  ASSUME Types, NEW off \in [Nat -> Int], NEW to, Shifted(off, Want, to), Stream(off), Stream(to)',
         InFrame(off), Onwards(off), InSequence(off), ReturnsWhatWasSent,
         UNCHANGED <<towards, frames, damaged>>, NEW word, Finishes(word)
  PROVE  InFrame(to)' /\ Onwards(to)' /\ InSequence(to)' /\ ReturnsWhatWasSent'
<1>1. /\ at = 10 /\ Want <= Len(wire) /\ word = SubSeq(wire, 1, Want) /\ Returns(word)
  BY DEF Finishes
<1>2. at \in 2 .. 10 /\ at # 0 /\ at' = 1 /\ at' \notin 2 .. 10 /\ lost' = lost
  BY <1>1 DEF Returns
<1>3. PICK n \in Nat : n = Len(received)
  BY Typical
<1>4. PICK f : f = first
  OBVIOUS
<1>5. f \in Nat /\ (f # 0 => f \in 1 .. Len(frames) /\ frames[f] \in Message)
  <2>1. f \in 0 .. Len(frames) /\ Len(frames) \in Nat
    BY <1>4, Typical DEF Types, ReadTypes
  <2>2. f # 0 => f \in 1 .. Len(frames)
    BY <2>1
  <2> QED  BY <2>1, <2>2, Typical
<1>6. PICK e \in [frame : Nat, intact : BOOLEAN] :
        /\ received' = Append(received, e) /\ e.frame = f
        /\ e.intact <=> (intact /\ Belongs(word, f))
  <2>1. PICK e : e = [frame |-> first, intact |-> intact /\ Belongs(word, first)]
    OBVIOUS
  <2>2. received' = Append(received, e)
    BY <1>1, <2>1 DEF Returns
  <2>3. e.frame = f /\ (e.intact <=> (intact /\ Belongs(word, f)))
    BY <1>4, <2>1
  <2>4. e \in [frame : Nat, intact : BOOLEAN]
    BY <1>4, <1>5, <2>1
  <2> QED  BY <2>2, <2>3, <2>4
<1>7. /\ Len(received') = n + 1 /\ received'[n + 1] = e
      /\ \A i \in 1 .. n : received'[i] = received[i]
  <2>1. received \in Seq([frame : Nat, intact : BOOLEAN])
    BY DEF Types, ReadTypes
  <2> QED  BY <1>3, <1>6, <2>1
<1>8. ASSUME f # 0, f < damaged
      PROVE  /\ e.intact /\ to[f] = Start(11, frames[f])
             /\ \A j \in 1 .. n : received[j].frame < f
  <2>1. /\ off[f] = Start(10, frames[f]) /\ Want = Size(10, frames[f]) /\ intact
        /\ \A j \in 1 .. n : received[j].frame < f
    BY <1>1, <1>2, <1>3, <1>4, <1>8, WantInFrame
  <2>2. PICK i \in 1 .. 10 : i = 10
    OBVIOUS
  <2>3. word = Bytes(f, i, Size(i, frames[f]))
    BY <1>1, <1>5, <1>8, <2>1, <2>2, WordIsField
  <2>4. e.intact
    BY <1>1, <1>6, <2>1, <2>2, <2>3 DEF Belongs
  <2>5. to[f] = off[f] + Want
    BY <1>5 DEF Shifted
  <2>6. Start(11, frames[f]) = Start(10, frames[f]) + Size(10, frames[f])
    BY <1>5, <1>8, Starts, Sizes
  <2> QED  BY <2>1, <2>4, <2>5, <2>6
<1>9. InFrame(to)'
  BY <1>2 DEF InFrame
<1>10. Onwards(to)'
  <2> SUFFICES ASSUME NEW g \in 1 .. Len(frames), g < damaged, to[g] < Start(11, frames[g]),
                      NEW j \in 1 .. (n + 1)
               PROVE  received'[j].frame < g
    BY <1>2, <1>7 DEF Onwards
  <2>1. g \in Nat /\ frames[g] \in Message
    BY Typical
  <2>10. Start(11, frames[g]) \in Nat
    BY <2>1, Starts
  <2>2. PICK a \in Int, z \in Nat : a = off[g] /\ z = Start(11, frames[g])
    BY <2>1, <2>10
  <2>3. to[g] = a + Want /\ Want \in Nat
    BY <1>2, <2>1, <2>2, WantIsNatural DEF Shifted
  <2>4. a < z /\ to[g] # z
    BY <2>2, <2>3
  <2>5. f <= g /\ \A i \in 1 .. n : received[i].frame < g
    BY <1>2, <1>3, <1>4, <2>2, <2>4 DEF Onwards
  <2>11. g # 0
    OBVIOUS
  <2>6. f # g
    BY <1>8, <2>2, <2>4, <2>11
  <2>7. CASE j \in 1 .. n
    BY <1>7, <2>5, <2>7
  <2>8. CASE j = n + 1
    <3>1. f < g
      BY <1>5, <2>1, <2>5, <2>6
    <3> QED  BY <1>6, <1>7, <2>8, <3>1
  <2>9. j \in 1 .. n \/ j = n + 1
    OBVIOUS
  <2> QED  BY <2>7, <2>8, <2>9
<1>11. InSequence(to)'
  <2> SUFFICES ASSUME InPlace
               PROVE  /\ \A i \in 1 .. (n + 1) : i < damaged => received'[i].frame = i
                      /\ (n + 1) + 1 < damaged => to[(n + 1) + 1] = 0
    BY <1>2, <1>7 DEF InSequence, InPlace
  <2>1. damaged \in Nat
    BY Typical
  <2>2. n + 1 < damaged => f = n + 1
    BY <1>2, <1>3, <1>4 DEF InSequence
  <2>3. ASSUME NEW i \in 1 .. (n + 1), i < damaged PROVE received'[i].frame = i
    <3>1. CASE i \in 1 .. n
      BY <1>3, <1>7, <2>3, <3>1 DEF InSequence
    <3>2. CASE i = n + 1
      BY <1>6, <1>7, <2>2, <2>3, <3>2
    <3> QED  BY <3>1, <3>2
  <2>4. ASSUME (n + 1) + 1 < damaged PROVE to[(n + 1) + 1] = 0
    <3>1. n + 1 < damaged
      BY <2>1, <2>4
    <3>2. f = n + 1 /\ f < damaged /\ f # 0
      BY <2>2, <3>1
    <3>3. to[f + 1] = to[f] - Start(11, frames[f])
      BY <1>5, <2>4, <3>2 DEF Stream
    <3>4. to[f] = Start(11, frames[f]) /\ Start(11, frames[f]) \in Nat
      BY <1>5, <1>8, <3>2, Starts
    <3> QED  BY <3>2, <3>3, <3>4
  <2> QED  BY <2>3, <2>4
<1>12. ReturnsWhatWasSent'
  <2> SUFFICES ASSUME NEW i \in 1 .. (n + 1), received'[i].frame \in 1 .. (damaged - 1)
               PROVE  /\ received'[i].intact
                      /\ \A j \in 1 .. (i - 1) : received'[j].frame < received'[i].frame
    <3>1. DOMAIN received' = 1 .. (n + 1)
      BY <1>3, <1>6 DEF Types, ReadTypes
    <3> QED  BY <3>1 DEF ReturnsWhatWasSent
  <2>1. CASE i \in 1 .. n
    <3>1. i \in DOMAIN received /\ \A j \in 1 .. (i - 1) : j \in 1 .. n
      BY <1>3, <2>1 DEF Types, ReadTypes
    <3>2. received'[i] = received[i] /\ \A j \in 1 .. (i - 1) : received'[j] = received[j]
      BY <1>7, <2>1, <3>1
    <3>3. /\ received[i].intact
          /\ \A j \in 1 .. (i - 1) : received[j].frame < received[i].frame
      BY <3>1, <3>2 DEF ReturnsWhatWasSent
    <3> QED  BY <3>2, <3>3
  <2>2. CASE i = n + 1
    <3>1. i - 1 = n /\ received'[i] = e
      BY <1>7, <2>2
    <3>2. f # 0 /\ f < damaged
      <4>1. f \in 1 .. (damaged - 1) /\ damaged \in Nat
        BY <1>6, <3>1, Typical
      <4> QED  BY <4>1
    <3>3. e.intact /\ \A j \in 1 .. n : received[j].frame < f
      BY <1>8, <3>2
    <3> QED  BY <1>6, <1>7, <3>1, <3>3
  <2> QED  BY <2>1, <2>2
<1> QED  BY <1>9, <1>10, <1>11, <1>12

-----------------------------------------------------------------------------
(***************************************************************************)
(* The invariant, and what follows from it.                                *)
(***************************************************************************)
\* The frames lie where some numbers say, and the reader is where it must be.
FramesInPlace == \E off : StreamInv(off)

\* A step that moves no frame keeps the invariant when it keeps the stream, ...
LEMMA SendStep ==
  ASSUME Types, Types', NEW off, StreamInv(off), UNCHANGED <<towards, reading>>,
         damaged' <= damaged, UNCHANGED frames, Stream(off)'
  PROVE  StreamInv(off)'
<1>1. off \in [Nat -> Int] /\ InFrame(off) /\ Onwards(off) /\ InSequence(off) /\ ReturnsWhatWasSent
  BY DEF StreamInv
<1>2. Len(frames) \in Nat
  BY Typical
<1>3. Len(frames) <= Len(frames')
  BY <1>2
<1>4. InFrame(off)' /\ Onwards(off)' /\ InSequence(off)' /\ ReturnsWhatWasSent'
  BY <1>1, <1>3, SendKeeps
<1> QED  BY <1>1, <1>4 DEF StreamInv

\* ... a new frame is put behind the others, ...
LEMMA BeginStep ==
  ASSUME Types, NEW off, StreamInv(off), NEW t \in Sender, NEW m \in Message,
         send_message_data(t, m)
  PROVE  FramesInPlace'
<1>1. /\ off \in [Nat -> Int] /\ InFrame(off) /\ Onwards(off) /\ InSequence(off)
      /\ ReturnsWhatWasSent /\ Stream(off)
  BY DEF StreamInv
<1>2. PICK l \in Nat, z \in Nat : l = Len(frames) /\ z = Start(11, m)
  <2>1. Start(11, m) \in Nat
    BY Starts
  <2>2. Len(frames) \in Nat
    BY Typical
  <2> QED  BY <2>1, <2>2
<1>3. PICK to : to = [f \in Nat |-> IF f = l + 2 THEN off[l + 1] - z ELSE off[f]]
  OBVIOUS
<1>4. to \in [Nat -> Int] /\ \A f \in 1 .. (l + 1) : to[f] = off[f]
  <2>1. l + 1 \in Nat
    OBVIOUS
  <2>2. off[l + 1] \in Int
    BY <1>1, <2>1
  <2>3. off[l + 1] - z \in Int
    BY <2>2
  <2>4. to \in [Nat -> Int]
    BY <1>1, <1>3, <2>3
  <2>5. \A f \in 1 .. (l + 1) : f \in Nat /\ f # l + 2
    OBVIOUS
  <2> QED  BY <1>3, <2>4, <2>5
<1>5. to[l + 2] = to[l + 1] - z
  <2>1. l + 1 \in Nat /\ l + 2 \in Nat /\ l + 1 # l + 2
    OBVIOUS
  <2> QED  BY <1>3, <2>1
<1>6. Longer(off, Len(frames), Start(11, m), to)
  BY <1>2, <1>4, <1>5 DEF Longer
<1>7. Stream(to)'
  BY <1>1, <1>6, BeginStream
<1>8. /\ Types' /\ Len(frames') = Len(frames) + 1 /\ damaged' <= damaged
      /\ \A f \in 1 .. Len(frames) : frames'[f] = frames[f]
  BY BeginTypes
<1>9. Len(frames) <= Len(frames')
  BY <1>2, <1>8
<1>10. UNCHANGED <<towards, reading>>
  BY DEF send_message_data
<1>11. \A f \in 1 .. (Len(frames) + 1) : to[f] = off[f]
  BY <1>2, <1>4
<1>12. InFrame(to)' /\ Onwards(to)' /\ InSequence(to)' /\ ReturnsWhatWasSent'
  BY <1>1, <1>4, <1>8, <1>9, <1>10, <1>11, SendKeeps
<1>13. StreamInv(to)'
  BY <1>4, <1>7, <1>12 DEF StreamInv
<1> QED  BY <1>13 DEF FramesInPlace

\* ... what the reader takes moves every frame by as many bytes, ...
LEMMA ReaderStep ==
  ASSUME Types, NEW off, StreamInv(off), Read
  PROVE  FramesInPlace'
<1>1. /\ off \in [Nat -> Int] /\ InFrame(off) /\ Onwards(off) /\ InSequence(off)
      /\ ReturnsWhatWasSent /\ Stream(off)
  BY DEF StreamInv
<1>2. /\ at # 0 /\ UNCHANGED <<towards, sending, damaged>>
      /\ GivesUp \/ \E word : GoesOn(word) \/ Finishes(word)
  BY ReadStep
<1>3. UNCHANGED <<towards, frames, damaged>> /\ UNCHANGED <<frames, sender, damaged>>
  BY <1>2 DEF sending
<1>4. ASSUME NEW n \in Nat
      PROVE  \E to : Shifted(off, n, to) /\ to \in [Nat -> Int]
  <2>1. PICK to : to = [f \in Nat |-> off[f] + n]
    OBVIOUS
  <2>2. to \in [Nat -> Int] /\ \A f \in Nat : to[f] = off[f] + n
    <3>1. \A f \in Nat : off[f] + n \in Int
      BY <1>1
    <3> QED  BY <2>1, <3>1
  <2> QED  BY <2>2 DEF Shifted
<1>5. CASE GivesUp
  <2>1. PICK freed, n : Leaves(n) /\ Abandons(freed)
    BY <1>5 DEF GivesUp
  <2>2. n \in Nat
    BY <2>1, Typical DEF Leaves
  <2>3. PICK to : Shifted(off, n, to) /\ to \in [Nat -> Int]
    BY <1>4, <2>2
  <2>4. Stream(to)'
    BY <1>1, <1>3, <2>1, <2>3, LeavesStream
  <2>5. InFrame(to)' /\ Onwards(to)' /\ InSequence(to)' /\ ReturnsWhatWasSent'
    BY <1>1, <1>3, <2>1, <2>2, <2>3, GivesUpKeeps
  <2>6. StreamInv(to)'
    BY <2>3, <2>4, <2>5 DEF StreamInv
  <2> QED  BY <2>6 DEF FramesInPlace
<1>6. ASSUME NEW word, GoesOn(word) \/ Finishes(word)
      PROVE  FramesInPlace'
  <2>1. Leaves(Want)
    BY <1>6 DEF GoesOn, Finishes
  <2>2. PICK n \in Nat : n = Want
    BY <1>2, WantIsNatural
  <2>3. PICK to : Shifted(off, n, to) /\ to \in [Nat -> Int]
    BY <1>4
  <2>4. Shifted(off, Want, to) /\ Leaves(n)
    BY <2>1, <2>2, <2>3
  <2>5. Stream(to)'
    BY <1>1, <1>3, <2>3, <2>4, LeavesStream
  <2>6. InFrame(to)' /\ Onwards(to)' /\ InSequence(to)' /\ ReturnsWhatWasSent'
    <3>1. CASE GoesOn(word)
      BY <1>1, <1>3, <2>4, <3>1, GoesOnKeeps
    <3>2. CASE Finishes(word)
      BY <1>1, <1>3, <2>4, <2>5, <3>2, FinishesKeeps
    <3> QED  BY <1>6, <3>1, <3>2
  <2>7. StreamInv(to)'
    BY <2>3, <2>5, <2>6 DEF StreamInv
  <2> QED  BY <2>7 DEF FramesInPlace
<1> QED  BY <1>2, <1>5, <1>6

\* ... and those are all the steps.
LEMMA NextInPlace ==
  ASSUME Types, Types', FramesInPlace, [Next]_vars
  PROVE  FramesInPlace'
<1>1. PICK off : StreamInv(off)
  BY DEF FramesInPlace
<1>2. off \in [Nat -> Int] /\ Stream(off) /\ damaged \in Nat
  BY <1>1, Typical DEF StreamInv
<1>3. ASSUME NEW t \in Sender, send_field(t) PROVE FramesInPlace'
  <2>1. Stream(off)'
    BY <1>2, <1>3, FieldStream
  <2>2. UNCHANGED <<towards, reading>> /\ damaged' <= damaged /\ UNCHANGED frames
    BY <1>2, <1>3 DEF send_field
  <2>3. StreamInv(off)'
    BY <1>1, <2>1, <2>2, SendStep
  <2> QED  BY <2>3 DEF FramesInPlace
<1>4. ASSUME NEW t \in Sender, send_short(t) PROVE FramesInPlace'
  <2>1. Stream(off)'
    BY <1>2, <1>4, ShortStream
  <2>2. UNCHANGED <<towards, reading>> /\ damaged' <= damaged /\ UNCHANGED frames
    BY <1>4, ShortTypes
  <2>3. StreamInv(off)'
    BY <1>1, <2>1, <2>2, SendStep
  <2> QED  BY <2>3 DEF FramesInPlace
<1>5. CASE close \/ UNCHANGED vars
  <2>1. /\ UNCHANGED <<towards, reading>> /\ UNCHANGED <<frames, sender, wire, damaged>>
    BY <1>5 DEF close, vars, sending
  <2>2. Stream(off)'
    BY <1>2, <2>1 DEF Stream, Sent, BeingSent, Busy
  <2>3. damaged' <= damaged /\ UNCHANGED frames
    BY <1>2, <2>1
  <2>4. StreamInv(off)'
    BY <1>1, <2>1, <2>2, <2>3, SendStep
  <2> QED  BY <2>4 DEF FramesInPlace
<1>6. ASSUME NEW t \in Sender, NEW m \in Message, send_message_data(t, m)
      PROVE  FramesInPlace'
  BY <1>1, <1>6, BeginStep
<1>7. CASE Read
  BY <1>1, <1>7, ReaderStep
<1>8. CASE handle_message
  <2>1. /\ at = 1 /\ at' \in {0, 1} /\ at \notin 2 .. 10 /\ at' \notin 2 .. 10
        /\ UNCHANGED <<towards, frames, sender, wire, received, lost, damaged>>
    BY <1>8, HandleTypes
  <2>2. Stream(off)'
    BY <1>2, <2>1 DEF Stream, Sent, BeingSent, Busy
  <2>3. InFrame(off)' /\ Onwards(off)'
    BY <1>1, <2>1 DEF StreamInv, InFrame, Onwards
  <2>4. InSequence(off)'
    BY <1>1, <2>1 DEF StreamInv, InSequence, InPlace
  <2>5. ReturnsWhatWasSent'
    BY <1>1, <2>1 DEF StreamInv, ReturnsWhatWasSent
  <2>6. StreamInv(off)'
    BY <1>2, <2>2, <2>3, <2>4, <2>5 DEF StreamInv
  <2> QED  BY <2>6 DEF FramesInPlace
<1> QED  BY <1>3, <1>4, <1>5, <1>6, <1>7, <1>8 DEF Next

\* At first there is nothing to place.
LEMMA InitInPlace == Init => FramesInPlace
<1> SUFFICES ASSUME Init PROVE FramesInPlace
  OBVIOUS
<1>1. PICK off : off = [f \in Nat |-> 0]
  OBVIOUS
<1>2. off \in [Nat -> Int] /\ \A f \in Nat : off[f] = 0
  BY <1>1
<1>3. Len(frames) = 0 /\ Len(wire) = 0 /\ Len(received) = 0 /\ at = 1
  BY DEF Init
<1>4. Stream(off)
  BY <1>2, <1>3 DEF Stream
<1>5. InFrame(off) /\ Onwards(off)
  BY <1>3 DEF InFrame, Onwards
<1>6. InSequence(off)
  BY <1>2, <1>3 DEF InSequence
<1>7. ReturnsWhatWasSent
  <2>1. received = <<>>
    BY DEF Init
  <2> QED  BY <2>1 DEF ReturnsWhatWasSent
<1> QED  BY <1>2, <1>4, <1>5, <1>6, <1>7 DEF StreamInv, FramesInPlace

\* The invariant always holds.
LEMMA AlwaysInPlace == Spec => []FramesInPlace
<1> QED  BY InitInPlace, NextInPlace, AlwaysTypes, PTL DEF Spec

\* However the stream is cut into reads, and whatever bytes the reader took for a
\* header before, a message whose header is that of a frame that was sent whole and
\* alone is that frame, and such frames are returned at most once and in order.
THEOREM IntactFramesAreReturned == Spec => []ReturnsWhatWasSent
<1>1. FramesInPlace => ReturnsWhatWasSent
  BY DEF FramesInPlace, StreamInv
<1> QED  BY <1>1, AlwaysInPlace, PTL

\* A reader that has abandoned no frame has returned the first so many frames as they
\* were sent, without a gap and without a message that nobody sent; and so has the
\* handler of the broker, which ends with the first frame it cannot read.
THEOREM NoFrameIsMissed == Spec => []NoneMissedUntilLost
<1>1. Types /\ FramesInPlace => NoneMissedUntilLost
  <2> SUFFICES ASSUME Types, FramesInPlace, InPlace, NEW i \in DOMAIN received, i < damaged
               PROVE  received[i].frame = i /\ received[i].intact
    BY DEF NoneMissedUntilLost, InPlace
  <2>1. PICK off : InSequence(off) /\ ReturnsWhatWasSent
    BY DEF FramesInPlace, StreamInv
  <2>2. i \in 1 .. Len(received) /\ Len(received) \in Nat /\ damaged \in Nat
    BY Typical DEF Types, ReadTypes
  <2>3. received[i].frame = i
    BY <2>1, <2>2 DEF InSequence
  <2>4. i \in 1 .. (damaged - 1)
    BY <2>2
  <2> QED  BY <2>1, <2>3, <2>4 DEF ReturnsWhatWasSent
<1> QED  BY <1>1, AlwaysTypes, AlwaysInPlace, PTL

=============================================================================
