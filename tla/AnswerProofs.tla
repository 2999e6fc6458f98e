---------------------------- MODULE AnswerProofs -----------------------------
(* What is made of an adapter's answer line by line (IsoTp): the state of  *)
(* an ECU stays sane whatever is sent, a message grows by its frames, the  *)
(* whole answer is read as it was sent, and what is read of a damaged one  *)
(* is what was sent.  At the end, the same of the answers of MCDecoders.   *)
EXTENDS AcquisitionProofs

(* The length of a message, from its two bytes. *)
Lengths == 0..4095
Length(high, low) == high * 256 + low

LEMMA TwelveBits == \A high \in 0..15, low \in Byte : Length(high, low) \in Lengths
BY DEF Byte, Length, Lengths

(* What may be known of an ECU. *)
Begun == [length : Lengths, bytes : Seq(Byte), next : 0..15]

Responder ==
  [done : BOOLEAN, payload : Seq(Byte), pending : {Tp!None} \cup Begun, invalid : BOOLEAN]

(* An ECU in error has said nothing; a payload is there just when it was   *)
(* completed; a message that is pending lacks bytes.                       *)
Sane(r) ==
  /\ r \in Responder
  /\ r.invalid => ~r.done /\ r.pending = Tp!None
  /\ ~r.done => r.payload = <<>>
  /\ r.pending # Tp!None => Len(r.pending.bytes) < r.pending.length

LEMMA Nibbles ==
  ASSUME NEW b \in Byte
  PROVE  b \div 16 \in 0..15 /\ b % 16 \in 0..15
BY DEF Byte

LEMMA InvalidIsSane == ASSUME NEW r, Sane(r) PROVE Sane(Tp!Invalid(r)) /\ Tp!Invalid(r).invalid
<1> DEFINE first == [r EXCEPT !.done = FALSE]
           second == [first EXCEPT !.payload = <<>>]
           third == [second EXCEPT !.pending = Tp!None]
           fourth == [third EXCEPT !.invalid = TRUE]
<1>1. Tp!Invalid(r) = fourth
  BY DEF Tp!Invalid
<1>2. first \in Responder /\ first.done = FALSE
  BY DEF Sane, Responder
<1> HIDE DEF first
<1>3. second \in Responder /\ second.done = FALSE /\ second.payload = <<>>
  BY <1>2, EmptySeq DEF Responder
<1> HIDE DEF second
<1>4. /\ third \in Responder /\ third.done = FALSE /\ third.payload = <<>>
      /\ third.pending = Tp!None
  BY <1>3 DEF Responder
<1> HIDE DEF third
<1>5. /\ fourth \in Responder /\ fourth.done = FALSE /\ fourth.payload = <<>>
      /\ fourth.pending = Tp!None /\ fourth.invalid = TRUE
  BY <1>4 DEF Responder
<1> HIDE DEF fourth
<1> QED
  BY <1>1, <1>5 DEF Sane

LEMMA AcceptIsSane ==
  ASSUME NEW r, Sane(r), ~r.invalid, NEW payload \in Seq(Byte)
  PROVE  /\ Sane(Tp!Accept(r, payload))
         /\ Sane([Tp!Accept(r, payload) EXCEPT !.pending = Tp!None])
<1> DEFINE first == [r EXCEPT !.done = TRUE]
           second == [first EXCEPT !.payload = payload]
           third == [second EXCEPT !.pending = Tp!None]
<1>1. Tp!Accept(r, payload) = second
  BY DEF Tp!Accept
<1>2. /\ first \in Responder /\ first.done = TRUE /\ first.invalid = r.invalid
      /\ first.pending = r.pending
  BY DEF Sane, Responder
<1> HIDE DEF first
<1>3. /\ second \in Responder /\ second.done = TRUE /\ second.invalid = r.invalid
      /\ second.pending = r.pending
  BY <1>2 DEF Responder
<1> HIDE DEF second
<1>4. /\ third \in Responder /\ third.done = TRUE /\ third.invalid = r.invalid
      /\ third.pending = Tp!None
  BY <1>3 DEF Responder
<1>5. third = [Tp!Accept(r, payload) EXCEPT !.pending = Tp!None]
  BY <1>1
<1> HIDE DEF third
<1>6. Sane(second)
  BY <1>3 DEF Sane
<1>7. Sane(third)
  BY <1>4 DEF Sane
<1> QED
  BY <1>1, <1>5, <1>6, <1>7

(* A message that is begun, or goes on. *)
LEMMA PendingIsSane ==
  ASSUME NEW r, Sane(r), ~r.invalid, NEW pending \in Begun,
         Len(pending.bytes) < pending.length
  PROVE  Sane([r EXCEPT !.pending = pending])
<1> DEFINE next == [r EXCEPT !.pending = pending]
<1>1. /\ next \in Responder /\ next.done = r.done /\ next.payload = r.payload
      /\ next.invalid = r.invalid /\ next.pending = pending
  BY DEF Sane, Responder
<1> HIDE DEF next
<1>2. Sane(next)
  BY <1>1 DEF Sane
<1> QED
  BY <1>2 DEF next

LEMMA PendingIs ==
  ASSUME NEW r, Sane(r), r.pending # Tp!None
  PROVE  /\ r.pending.length \in Lengths /\ r.pending.bytes \in Seq(Byte)
         /\ r.pending.next \in 0..15
<1>1. r.pending \in Begun
  BY DEF Sane, Responder
<1> DEFINE pending == r.pending
<1> HIDE DEF pending
<1>2. pending \in Begun
  BY <1>1 DEF pending
<1>3. pending.length \in Lengths /\ pending.bytes \in Seq(Byte) /\ pending.next \in 0..15
  BY <1>2 DEF Begun
<1> QED
  BY <1>3 DEF pending

LEMMA FramesAreSane ==
  ASSUME NEW r, Sane(r), ~r.invalid, NEW data \in Seq(Byte), data # <<>>
  PROVE  /\ Sane(Tp!SingleFrame(r, data))
         /\ Sane(Tp!FirstFrame(r, data))
         /\ Sane(Tp!ConsecutiveFrame(r, data))
<1>1. /\ Len(data) \in Nat \ {0} /\ data[1] \in Byte
      /\ \A i \in 1..Len(data) : data[i] \in Byte
  <2>1. Len(data) \in Nat /\ Len(data) # 0
    BY LenProperties, EmptySeq
  <2> QED
    BY <2>1, ElementOfSeq
<1>2. data[1] % 16 \in 0..15
  BY <1>1, Nibbles
<1>3. Sane(Tp!SingleFrame(r, data))
  <2> DEFINE length == data[1] % 16
  <2>1. ASSUME ~(length > Len(data) - 1)
        PROVE  SubSeq(data, 2, 1 + length) \in Seq(Byte)
    <3> HIDE DEF length
    <3>1. \A i \in 2..(1 + length) : data[i] \in Byte
      BY <1>1, <1>2, <2>1 DEF length
    <3>2. 2 \in Int /\ 1 + length \in Int
      BY <1>2 DEF length
    <3> QED
      BY <3>1, <3>2, SubSeqProperties
  <2> HIDE DEF length
  <2>2. CASE length > Len(data) - 1
    BY <2>2, InvalidIsSane DEF Tp!SingleFrame, length
  <2>3. CASE ~(length > Len(data) - 1)
    BY <2>1, <2>3, AcceptIsSane DEF Tp!SingleFrame, length
  <2> QED
    BY <2>2, <2>3
<1>4. Sane(Tp!FirstFrame(r, data))
  <2> DEFINE length == (data[1] % 16) * 256 + data[2]
             bytes == SubSeq(data, 3, Len(data))
             begun == [length |-> length, bytes |-> bytes, next |-> 1]
  <2>1. CASE Len(data) < 2
    BY <2>1, InvalidIsSane DEF Tp!FirstFrame
  <2>2. CASE ~(Len(data) < 2)
    <3>1. data[2] \in Byte
      BY <1>1, <2>2
    <3>2. length \in 0..4095
      <4>1. length = Length(data[1] % 16, data[2])
        BY DEF Length
      <4>2. length \in Lengths
        BY <1>2, <3>1, <4>1, TwelveBits
      <4> HIDE DEF length
      <4> QED
        BY <4>2 DEF Lengths
    <3>3. bytes \in Seq(Byte)
      <4>1. \A i \in 3..Len(data) : data[i] \in Byte
        BY <1>1
      <4>2. 3 \in Int /\ Len(data) \in Int
        BY <1>1
      <4> QED
        BY <4>1, <4>2, SubSeqProperties
    <3>4. Len(bytes) \in Nat
      BY <3>3, LenProperties
    <3> HIDE DEF length, bytes
    <3>5. CASE Len(bytes) >= length
      <4>1. length \in Nat /\ length <= Len(bytes)
        BY <3>2, <3>4, <3>5
      <4>2. SubSeq(bytes, 1, length) \in Seq(Byte)
        BY <3>3, <4>1, PrefixOfBytes
      <4>3. Tp!FirstFrame(r, data) = Tp!Accept(r, SubSeq(bytes, 1, length))
        BY <2>2, <3>5 DEF Tp!FirstFrame, length, bytes
      <4> QED
        BY <4>2, <4>3, AcceptIsSane
    <3>6. CASE ~(Len(bytes) >= length)
      <4>1. Tp!FirstFrame(r, data) = [r EXCEPT !.pending = begun]
        BY <2>2, <3>6 DEF Tp!FirstFrame, length, bytes
      <4>2. begun \in Begun /\ begun.length = length /\ begun.bytes = bytes
        BY <3>2, <3>3 DEF Begun, Lengths
      <4> HIDE DEF begun
      <4>3. Len(begun.bytes) < begun.length
        BY <3>2, <3>4, <3>6, <4>2
      <4> QED
        BY <4>1, <4>2, <4>3, PendingIsSane
    <3> QED
      BY <3>5, <3>6
  <2> QED
    BY <2>1, <2>2
<1>5. Sane(Tp!ConsecutiveFrame(r, data))
  <2> DEFINE length == r.pending.length
             bytes == r.pending.bytes \o Tail(data)
             next == [length |-> length, bytes |-> bytes, next |-> (r.pending.next + 1) % 16]
  <2>1. CASE ~Tp!Continues(r, data)
    BY <2>1, InvalidIsSane DEF Tp!ConsecutiveFrame
  <2>2. CASE Tp!Continues(r, data)
    <3>1. r.pending # Tp!None
      BY <2>2 DEF Tp!Continues
    <3>2. /\ r.pending.length \in Lengths /\ r.pending.bytes \in Seq(Byte)
          /\ r.pending.next \in 0..15
      BY <3>1, PendingIs
    <3>3. Tail(data) \in Seq(Byte)
      BY HeadTailProperties
    <3>4. bytes \in Seq(Byte)
      BY <3>2, <3>3, ConcatProperties
    <3>5. Len(bytes) \in Nat
      BY <3>4, LenProperties
    <3>6. (r.pending.next + 1) % 16 \in 0..15
      <4> DEFINE n == r.pending.next
      <4>1. n \in 0..15
        BY <3>2
      <4> HIDE DEF n
      <4>2. (n + 1) % 16 \in 0..15
        BY <4>1
      <4> QED
        BY <4>2 DEF n
    <3>9. length \in Lengths
      BY <3>2
    <3> HIDE DEF length, bytes
    <3>7. CASE Len(bytes) >= length
      <4>1. length \in Nat /\ length <= Len(bytes)
        BY <3>9, <3>5, <3>7 DEF Lengths
      <4>2. SubSeq(bytes, 1, length) \in Seq(Byte)
        BY <3>4, <4>1, PrefixOfBytes
      <4>3. Tp!ConsecutiveFrame(r, data)
              = [Tp!Accept(r, SubSeq(bytes, 1, length)) EXCEPT !.pending = Tp!None]
        BY <2>2, <3>7 DEF Tp!ConsecutiveFrame, length, bytes
      <4> QED
        BY <4>2, <4>3, AcceptIsSane
    <3>8. CASE ~(Len(bytes) >= length)
      <4>1. Tp!ConsecutiveFrame(r, data) = [r EXCEPT !.pending = next]
        BY <2>2, <3>8 DEF Tp!ConsecutiveFrame, length, bytes
      <4>2. next \in Begun /\ next.length = length /\ next.bytes = bytes
        BY <3>4, <3>6, <3>9 DEF Begun
      <4> HIDE DEF next
      <4>3. Len(next.bytes) < next.length
        BY <3>5, <3>8, <3>9, <4>2 DEF Lengths
      <4> QED
        BY <4>1, <4>2, <4>3, PendingIsSane
    <3> QED
      BY <3>7, <3>8
  <2> QED
    BY <2>1, <2>2
<1> QED
  BY <1>3, <1>4, <1>5

(* Whatever line an ECU sends, what is known of it stays sane, and an      *)
(* error is never taken back (obd_protocol.py:84).                         *)
THEOREM LinesKeepResponderSane ==
  ASSUME NEW r, Sane(r), NEW data \in Seq(Byte)
  PROVE  Sane(Tp!Read(r, data)) /\ (r.invalid => Tp!Read(r, data).invalid)
<1>1. CASE data = <<>> \/ r.invalid
  BY <1>1 DEF Tp!Read
<1>2. CASE ~(data = <<>> \/ r.invalid)
  <2> DEFINE type == data[1] \div 16
  <2>1. Tp!Read(r, data) =
          CASE type = 0 -> Tp!SingleFrame(r, data)
            [] type = 1 -> Tp!FirstFrame(r, data)
            [] type = 2 -> Tp!ConsecutiveFrame(r, data)
            [] type = 3 -> r
            [] OTHER -> Tp!Invalid(r)
    BY <1>2 DEF Tp!Read
  <2> HIDE DEF type
  <2>2. /\ Sane(Tp!SingleFrame(r, data)) /\ Sane(Tp!FirstFrame(r, data))
        /\ Sane(Tp!ConsecutiveFrame(r, data)) /\ Sane(Tp!Invalid(r))
    BY <1>2, FramesAreSane, InvalidIsSane
  <2>3. CASE type = 0
    BY <1>2, <2>1, <2>2, <2>3
  <2>4. CASE type = 1
    BY <1>2, <2>1, <2>2, <2>4
  <2>5. CASE type = 2
    BY <1>2, <2>1, <2>2, <2>5
  <2>6. CASE type = 3
    BY <1>2, <2>1, <2>6
  <2>7. CASE type \notin {0, 1, 2, 3}
    BY <1>2, <2>1, <2>2, <2>7
  <2> QED
    BY <2>3, <2>4, <2>5, <2>6, <2>7
<1> QED
  BY <1>1, <1>2

(* A message of which an ECU has sent this many bytes, in so many frames   *)
(* after the first.                                                        *)
Gathering(r, message, have, frames) ==
  /\ ~r.invalid /\ have \in 1..(Len(message) - 1)
  /\ r.pending = [length |-> Len(message), bytes |-> SubSeq(message, 1, have),
                  next |-> (frames + 1) % 16]

(* The frame that comes next: the bytes that follow, and any padding.      *)
NextOf(message, have, frames, data) ==
  /\ data # <<>> /\ data[1] = 32 + ((frames + 1) % 16)
  /\ \A k \in 2..Len(data) : have + k - 1 <= Len(message) => data[k] = message[have + k - 1]

(* Bytes that follow a part of a message make a longer part.               *)
LEMMA Longer ==
  ASSUME NEW message \in Seq(Byte), NEW have \in 1..(Len(message) - 1),
         NEW rest \in Seq(Byte), NEW n \in Nat, n <= Len(message), n <= have + Len(rest),
         \A k \in 1..Len(rest) : have + k <= Len(message) => rest[k] = message[have + k]
  PROVE  SubSeq(SubSeq(message, 1, have) \o rest, 1, n) = SubSeq(message, 1, n)
<1> DEFINE part == SubSeq(message, 1, have)
           both == part \o rest
<1>1. Len(message) \in Nat /\ have \in Nat /\ have <= Len(message) /\ Len(rest) \in Nat
  BY LenProperties
<1>2. /\ part \in Seq(Byte) /\ Len(part) = have
      /\ \A i \in 1..have : part[i] = message[i]
  BY <1>1, PrefixOfBytes
<1> HIDE DEF part
<1>3. /\ both \in Seq(Byte) /\ Len(both) = have + Len(rest)
      /\ \A i \in 1..(have + Len(rest)) :
           both[i] = IF i <= have THEN part[i] ELSE rest[i - have]
  BY <1>2, ConcatProperties
<1> HIDE DEF both
<1>4. ASSUME NEW i \in 1..n
      PROVE  both[i] = message[i]
  <2>1. i \in 1..(have + Len(rest)) /\ i <= Len(message)
    BY <1>1
  <2>2. CASE i <= have
    <3>1. i \in 1..have
      BY <1>1, <2>2
    <3> QED
      BY <1>2, <1>3, <2>1, <2>2, <3>1
  <2>3. CASE ~(i <= have)
    <3>1. i - have \in 1..Len(rest) /\ have + (i - have) = i
      BY <1>1, <2>1, <2>3
    <3>2. rest[i - have] = message[i]
      BY <2>1, <3>1
    <3> QED
      BY <1>3, <2>1, <2>3, <3>2
  <2> QED
    BY <2>2, <2>3
<1>5. /\ SubSeq(both, 1, n) \in Seq(Byte) /\ Len(SubSeq(both, 1, n)) = n
      /\ \A i \in 1..n : SubSeq(both, 1, n)[i] = both[i]
  BY <1>1, <1>3, PrefixOfBytes
<1>6. /\ SubSeq(message, 1, n) \in Seq(Byte) /\ Len(SubSeq(message, 1, n)) = n
      /\ \A i \in 1..n : SubSeq(message, 1, n)[i] = message[i]
  BY PrefixOfBytes
<1>7. SubSeq(both, 1, n) = SubSeq(message, 1, n)
  BY <1>4, <1>5, <1>6, SeqEqual
<1> QED
  BY <1>7 DEF both, part

(* Where the message of a responder stands, in one fact for each field.    *)
LEMMA GatheringIs ==
  ASSUME NEW r, NEW message, NEW have, NEW frames, Gathering(r, message, have, frames)
  PROVE  /\ ~r.invalid /\ r.pending # Tp!None
         /\ r.pending.length = Len(message)
         /\ r.pending.bytes = SubSeq(message, 1, have)
         /\ r.pending.next = (frames + 1) % 16
         /\ have \in 1..(Len(message) - 1)
<1> DEFINE length == Len(message)
           bytes == SubSeq(message, 1, have)
           next == (frames + 1) % 16
<1>1. /\ ~r.invalid /\ have \in 1..(Len(message) - 1)
      /\ r.pending = [length |-> length, bytes |-> bytes, next |-> next]
  BY DEF Gathering
<1>2. Tp!None.length = 0
  BY DEF Tp!None
<1>3. length # 0
  BY <1>1
<1> HIDE DEF length, bytes, next
<1>4. r.pending.length = length /\ r.pending.bytes = bytes /\ r.pending.next = next
  BY <1>1
<1>5. r.pending # Tp!None
  BY <1>2, <1>3, <1>4
<1> QED
  BY <1>1, <1>4, <1>5 DEF length, bytes, next

(* A message grows by the bytes of each frame that comes next, past        *)
(* however many frames, and is complete with its last byte, without its    *)
(* padding (obd_protocol.py:123).                                          *)
THEOREM MessagesGrow ==
  ASSUME NEW r, Sane(r), NEW message \in Seq(Byte),
         NEW have \in Nat, NEW frames \in Nat, Gathering(r, message, have, frames),
         NEW data \in Seq(Byte), NextOf(message, have, frames, data)
  PROVE  /\ have + Len(Tail(data)) < Len(message)
              => Gathering(Tp!Read(r, data), message, have + Len(Tail(data)), frames + 1)
         /\ have + Len(Tail(data)) >= Len(message)
              => Tp!Read(r, data) = [Tp!Accept(r, message) EXCEPT !.pending = Tp!None]
<1> DEFINE part == SubSeq(message, 1, have)
           rest == Tail(data)
           now == have + Len(rest)
           bytes == part \o rest
           number == (frames + 1) % 16
<1>1. Len(message) \in Nat /\ Len(data) \in Nat /\ Len(data) # 0
  BY LenProperties, EmptySeq DEF NextOf
<1>2. /\ ~r.invalid /\ r.pending # Tp!None
      /\ r.pending.length = Len(message) /\ r.pending.bytes = part /\ r.pending.next = number
      /\ have \in 1..(Len(message) - 1)
  BY GatheringIs
<1>3. /\ rest \in Seq(Byte) /\ Len(rest) = Len(data) - 1
      /\ \A k \in 1..(Len(data) - 1) : rest[k] = data[k + 1]
  BY HeadTailProperties DEF NextOf
<1>4. number \in 0..15 /\ data[1] = 32 + number
  BY DEF NextOf
<1>5. data # <<>> /\ \A k \in 2..Len(data) : have + k - 1 <= Len(message)
                          => data[k] = message[have + k - 1]
  BY DEF NextOf
<1>6. (number + 1) % 16 = ((frames + 1) + 1) % 16
  OBVIOUS
<1> HIDE DEF number, rest
<1>7. data[1] \div 16 = 2 /\ data[1] % 16 = number
  BY <1>4
<1>8. \A k \in 1..Len(rest) : have + k <= Len(message) => rest[k] = message[have + k]
  <2>1. ASSUME NEW k \in 1..(Len(data) - 1), have + k <= Len(message)
        PROVE  rest[k] = message[have + k]
    <3>1. k + 1 \in 2..Len(data) /\ have + (k + 1) - 1 = have + k
      BY <1>1
    <3>2. data[k + 1] = message[have + k]
      BY <1>5, <2>1, <3>1
    <3> QED
      BY <1>3, <3>2
  <2> QED
    BY <1>3, <2>1
<1>9. part \in Seq(Byte) /\ Len(part) = have
  <2>1. have <= Len(message)
    BY <1>1, <1>2
  <2> QED
    BY <2>1, PrefixOfBytes
<1> HIDE DEF part
<1>10. bytes \in Seq(Byte) /\ Len(bytes) = now
  BY <1>3, <1>9, ConcatProperties
<1>11. now \in Nat
  BY <1>1, <1>3
<1>12. ASSUME NEW n \in Nat, n <= Len(message), n <= now
       PROVE  SubSeq(bytes, 1, n) = SubSeq(message, 1, n)
  BY <1>2, <1>3, <1>8, <1>12, Longer DEF part
<1>13. Tp!Read(r, data) = Tp!ConsecutiveFrame(r, data)
  BY <1>2, <1>5, <1>7 DEF Tp!Read
<1>14. Tp!Continues(r, data)
  BY <1>2, <1>7 DEF Tp!Continues
<1> DEFINE pending == [length |-> Len(message), bytes |-> bytes, next |-> (number + 1) % 16]
<1>15. Tp!ConsecutiveFrame(r, data)
         = IF Len(bytes) >= Len(message)
             THEN [Tp!Accept(r, SubSeq(bytes, 1, Len(message))) EXCEPT !.pending = Tp!None]
             ELSE [r EXCEPT !.pending = pending]
  BY <1>2, <1>14 DEF Tp!ConsecutiveFrame, rest
<1>16. pending = [length |-> Len(message), bytes |-> bytes, next |-> ((frames + 1) + 1) % 16]
  BY <1>6
<1> HIDE DEF bytes, now, pending
<1>17. CASE now >= Len(message)
  <2>1. SubSeq(bytes, 1, Len(message)) = message
    <3>1. SubSeq(bytes, 1, Len(message)) = SubSeq(message, 1, Len(message))
      BY <1>1, <1>11, <1>12, <1>17
    <3> QED
      BY <3>1, SubSeqFull
  <2>2. Tp!Read(r, data) = [Tp!Accept(r, message) EXCEPT !.pending = Tp!None]
    BY <1>10, <1>13, <1>15, <1>17, <2>1
  <2>3. ~(now < Len(message))
    BY <1>1, <1>11, <1>17
  <2> QED
    BY <2>2, <2>3 DEF now, rest
<1>18. CASE now < Len(message)
  <2>1. now \in 1..(Len(message) - 1) /\ now <= Len(message) /\ ~(now >= Len(message))
    BY <1>1, <1>2, <1>3, <1>11, <1>18 DEF now
  <2>2. bytes = SubSeq(message, 1, now)
    <3>1. SubSeq(bytes, 1, now) = SubSeq(message, 1, now)
      BY <1>11, <1>12, <2>1
    <3> QED
      BY <1>10, <3>1, SubSeqFull
  <2>3. Tp!Read(r, data) = [r EXCEPT !.pending = pending]
    BY <1>10, <1>13, <1>15, <2>1
  <2>4. /\ [r EXCEPT !.pending = pending].pending = pending
        /\ [r EXCEPT !.pending = pending].invalid = r.invalid
    BY DEF Sane, Responder
  <2>5. Gathering(Tp!Read(r, data), message, now, frames + 1)
    BY <1>2, <1>16, <2>1, <2>2, <2>3, <2>4 DEF Gathering
  <2> QED
    BY <2>1, <2>5 DEF now, rest
<1>19. now >= Len(message) \/ now < Len(message)
  BY <1>1, <1>11
<1> QED
  BY <1>17, <1>18, <1>19
--------------------------------------------------------------------------------
LEMMA LesserOf ==
  ASSUME NEW a \in Int, NEW b \in Int
  PROVE  Tp!Min({a, b}) = IF a <= b THEN a ELSE b
<1>1. \E x \in {a, b} : \A y \in {a, b} : x <= y
  OBVIOUS
<1>2. Tp!Min({a, b}) \in {a, b} /\ \A y \in {a, b} : Tp!Min({a, b}) <= y
  BY <1>1 DEF Tp!Min
<1> QED
  BY <1>2

(* Zeroes behind the bytes of a frame. *)
LEMMA Padded ==
  ASSUME NEW bytes \in Seq(Byte), Len(bytes) \in 1..8
  PROVE  /\ Tp!Pad(bytes, 8) \in Seq(Byte) /\ Len(Tp!Pad(bytes, 8)) = 8
         /\ \A k \in 1..Len(bytes) : Tp!Pad(bytes, 8)[k] = bytes[k]
<1> DEFINE size == Len(bytes)
           n == 8 - size
           zeroes == [i \in 1..n |-> 0]
<1>1. Tp!Pad(bytes, 8) = bytes \o zeroes
  BY DEF Tp!Pad
<1>2. size \in 1..8
  OBVIOUS
<1> HIDE DEF size
<1>3. n \in Nat /\ size + n = 8 /\ \A k \in 1..size : k \in 1..8 /\ k <= size
  BY <1>2
<1>4. zeroes \in [1..n -> Byte]
  BY DEF Byte
<1> HIDE DEF n
<1>5. zeroes \in Seq(Byte) /\ Len(zeroes) = n
  BY <1>3, <1>4, SeqDef
<1> HIDE DEF zeroes
<1>6. /\ bytes \o zeroes \in Seq(Byte) /\ Len(bytes \o zeroes) = size + n
      /\ \A k \in 1..(size + n) :
           (bytes \o zeroes)[k] = IF k <= size THEN bytes[k] ELSE zeroes[k - size]
  BY <1>5, ConcatProperties DEF size
<1>7. \A k \in 1..size : (bytes \o zeroes)[k] = bytes[k]
  BY <1>3, <1>6
<1> QED
  BY <1>1, <1>3, <1>6, <1>7 DEF size

(* A byte, or two, before a stretch of a message. *)
LEMMA Headed ==
  ASSUME NEW b \in Byte, NEW bytes \in Seq(Byte)
  PROVE  /\ <<b>> \o bytes \in Seq(Byte) /\ Len(<<b>> \o bytes) = Len(bytes) + 1
         /\ (<<b>> \o bytes)[1] = b
         /\ \A k \in 2..(Len(bytes) + 1) : (<<b>> \o bytes)[k] = bytes[k - 1]
<1>1. Len(bytes) \in Nat
  BY LenProperties
<1>2. <<b>> \in Seq(Byte) /\ Len(<<b>>) = 1 /\ <<b>>[1] = b
  OBVIOUS
<1> DEFINE head == <<b>>
<1> HIDE DEF head
<1>3. /\ head \o bytes \in Seq(Byte) /\ Len(head \o bytes) = Len(head) + Len(bytes)
      /\ \A k \in 1..(Len(head) + Len(bytes)) :
           (head \o bytes)[k] = IF k <= Len(head) THEN head[k] ELSE bytes[k - Len(head)]
  BY <1>2, ConcatProperties DEF head
<1>4. Len(head) = 1 /\ head[1] = b
  BY <1>2 DEF head
<1> QED
  BY <1>1, <1>3, <1>4 DEF head

(* The frames of one ECU. *)
Frames(ecu) == {Tp!Frame(ecu, data) : data \in Seq(Byte)}

LEMMA FrameIs ==
  ASSUME NEW ecu, NEW data \in Seq(Byte)
  PROVE  Tp!Frame(ecu, data) \in Frames(ecu) /\ Tp!Frame(ecu, data).data = data
BY DEF Frames, Tp!Frame

LEMMA FramesAre ==
  ASSUME NEW ecu, NEW line \in Frames(ecu)
  PROVE  line.data \in Seq(Byte)
BY DEF Frames, Tp!Frame

(* A message that fits into one frame is accepted from it.                 *)
LEMMA SingleIs ==
  ASSUME NEW ecu, NEW message \in Seq(Byte), Len(message) <= 7
  PROVE  /\ Tp!Segmented(ecu, message) = <<Tp!Frame(ecu, Tp!Single(message))>>
         /\ Tp!Single(message) \in Seq(Byte) /\ Tp!Single(message) # <<>>
         /\ \A r : ~r.invalid => Tp!Read(r, Tp!Single(message)) = Tp!Accept(r, message)
<1> DEFINE size == Len(message)
           head == <<size>> \o message
           data == Tp!Pad(head, 8)
<1>1. /\ Tp!Segmented(ecu, message) = <<Tp!Frame(ecu, Tp!Single(message))>>
      /\ Tp!Single(message) = data
  BY DEF Tp!Segmented, Tp!Single
<1>2. size \in 0..7 /\ size \in Byte
  <2>1. size \in Nat /\ size <= 7
    BY LenProperties
  <2> HIDE DEF size
  <2> QED
    BY <2>1 DEF Byte
<1>3. /\ head \in Seq(Byte) /\ Len(head) = size + 1 /\ head[1] = size
      /\ \A k \in 2..(size + 1) : head[k] = message[k - 1]
  BY <1>2, Headed
<1> HIDE DEF size, head
<1>4. /\ data \in Seq(Byte) /\ Len(data) = 8
      /\ \A k \in 1..(size + 1) : data[k] = head[k]
  <2>1. Len(head) \in 1..8
    BY <1>2, <1>3
  <2> QED
    BY <1>3, <2>1, Padded
<1> HIDE DEF data
<1>5. data # <<>> /\ data[1] = size /\ data[1] \div 16 = 0 /\ data[1] % 16 = size
  <2>1. data[1] = size
    BY <1>2, <1>3, <1>4
  <2>2. size \div 16 = 0 /\ size % 16 = size
    BY <1>2
  <2>3. data # <<>>
    <3>1. Len(<<>>) = 0 /\ 8 # 0
      OBVIOUS
    <3>2. Len(data) = 8
      BY <1>4
    <3> QED
      BY <3>1, <3>2
  <2> QED
    BY <2>1, <2>2, <2>3
<1>6. SubSeq(data, 2, 1 + size) = message
  <2> DEFINE part == SubSeq(data, 1 + 1, 1 + size)
  <2>1. /\ part \in Seq(Byte) /\ Len(part) = (1 + size) - 1
        /\ \A i \in 1..((1 + size) - 1) : part[i] = data[1 + i]
    <3>1. 1 \in 0..Len(data) /\ 1 + size \in 1..Len(data)
      BY <1>2, <1>4
    <3> QED
      BY ZenonT(30), <1>4, <3>1, Part
  <2>2. (1 + size) - 1 = size /\ part = SubSeq(data, 2, 1 + size)
    BY <1>2
  <2> HIDE DEF part
  <2>3. ASSUME NEW i \in 1..size
        PROVE  part[i] = message[i]
    <3>1. 1 + i \in 1..(size + 1) /\ 1 + i \in 2..(size + 1) /\ (1 + i) - 1 = i
      BY <1>2
    <3> QED
      BY <1>3, <1>4, <2>1, <2>2, <3>1
  <2>4. Len(part) = Len(message)
    BY <2>1, <2>2 DEF size
  <2>5. \A i \in 1..Len(part) : part[i] = message[i]
    BY <2>3, <2>4 DEF size
  <2>6. part = message
    BY <2>1, <2>4, <2>5, SeqEqual
  <2> QED
    BY <2>2, <2>6
<1>7. ASSUME NEW r, ~r.invalid
      PROVE  Tp!Read(r, data) = Tp!Accept(r, message)
  <2>1. Tp!Read(r, data) = Tp!SingleFrame(r, data)
    BY <1>5, <1>7 DEF Tp!Read
  <2>2. ~(size > Len(data) - 1)
    BY <1>2, <1>4
  <2>3. Tp!SingleFrame(r, data) = Tp!Accept(r, SubSeq(data, 2, 1 + size))
    BY <1>5, <2>2 DEF Tp!SingleFrame
  <2> QED
    BY <1>6, <2>1, <2>3
<1> QED
  BY <1>1, <1>4, <1>5, <1>7

(* The first frame of a message that needs more.                           *)
FirstOf(message, data) ==
  /\ Len(data) = 8
  /\ data[1] = 16 + Len(message) \div 256 /\ data[2] = Len(message) % 256
  /\ \A k \in 1..6 : data[2 + k] = message[k]

LEMMA FirstBegins ==
  ASSUME NEW message \in Seq(Byte), Len(message) >= 8, Len(message) <= 4095, NEW data \in Seq(Byte),
         FirstOf(message, data), NEW r, Sane(r), ~r.invalid
  PROVE  /\ Gathering(Tp!Read(r, data), message, 6, 0)
         /\ Tp!Read(r, data).done = r.done /\ Tp!Read(r, data).payload = r.payload
<1> DEFINE size == Len(message)
           bytes == SubSeq(data, 3, Len(data))
           pending == [length |-> size, bytes |-> bytes, next |-> 1]
           after == [r EXCEPT !.pending = pending]
<1>1. size \in Nat /\ size >= 8 /\ size <= 4095 /\ Len(data) = 8
      /\ data[1] = 16 + size \div 256 /\ data[2] = size % 256
  BY LenProperties DEF FirstOf
<1>2. bytes = SubSeq(message, 1, 6) /\ Len(bytes) = 6
  <2> DEFINE part == SubSeq(data, 2 + 1, 8)
  <2>1. /\ part \in Seq(Byte) /\ Len(part) = 8 - 2
        /\ \A i \in 1..(8 - 2) : part[i] = data[2 + i]
    <3>1. 2 \in 0..Len(data) /\ 8 \in 2..Len(data)
      BY <1>1
    <3> QED
      BY <3>1, Part
  <2>2. /\ SubSeq(message, 1, 6) \in Seq(Byte) /\ Len(SubSeq(message, 1, 6)) = 6
        /\ \A i \in 1..6 : SubSeq(message, 1, 6)[i] = message[i]
    BY <1>1, PrefixOfBytes
  <2>3. part = bytes
    BY <1>1
  <2> HIDE DEF part, bytes
  <2>4. \A i \in 1..6 : part[i] = SubSeq(message, 1, 6)[i]
    BY SMTT(30), <2>1, <2>2 DEF FirstOf
  <2>5. Len(part) = 6
    BY <2>1
  <2>6. part = SubSeq(message, 1, 6)
    BY <2>1, <2>2, <2>4, <2>5, SeqEqual
  <2> QED
    BY <2>3, <2>5, <2>6
<1> HIDE DEF size
<1>3. data[1] \div 16 = 1 /\ (data[1] % 16) * 256 + data[2] = size
  BY <1>1
<1>4. data # <<>> /\ ~(Len(data) < 2)
  <2>1. Len(<<>>) = 0
    OBVIOUS
  <2>2. Len(data) # 0 /\ ~(Len(data) < 2)
    BY <1>1
  <2> QED
    BY <2>1, <2>2
<1> HIDE DEF bytes
<1>5. Tp!Read(r, data) = Tp!FirstFrame(r, data)
  BY <1>3, <1>4 DEF Tp!Read
<1>6. ~(Len(bytes) >= size)
  BY <1>1, <1>2
<1>7. Tp!FirstFrame(r, data) = after
  <2> DEFINE length == (data[1] % 16) * 256 + data[2]
  <2>1. Tp!FirstFrame(r, data) =
          IF Len(data) < 2 THEN Tp!Invalid(r)
          ELSE IF Len(bytes) >= length THEN Tp!Accept(r, SubSeq(bytes, 1, length))
          ELSE [r EXCEPT !.pending = [length |-> length, bytes |-> bytes, next |-> 1]]
    BY DEF Tp!FirstFrame, bytes
  <2>2. length = size
    BY <1>3
  <2> HIDE DEF length
  <2> QED
    BY <1>4, <1>6, <2>1, <2>2 DEF pending, after
<1> HIDE DEF pending
<1>8. /\ after.pending = pending /\ after.done = r.done /\ after.payload = r.payload
      /\ after.invalid = r.invalid
  BY DEF Sane, Responder
<1> HIDE DEF after
<1>9. pending = [length |-> Len(message), bytes |-> SubSeq(message, 1, 6), next |-> (0 + 1) % 16]
  BY <1>2 DEF pending, size
<1>10. Gathering(after, message, 6, 0)
  BY <1>1, <1>8, <1>9 DEF Gathering, size
<1> QED
  BY <1>5, <1>7, <1>8, <1>10

(* The bytes of a frame that continues a message: seven, or what is left.  *)
LEMMA PieceIs ==
  ASSUME NEW rest \in Seq(Byte), NEW i \in Nat, i >= 1, 7 * (i - 1) < Len(rest)
  PROVE  LET piece == SubSeq(rest, 7 * i - 6, Tp!Min({7 * i, Len(rest)}))
         IN  /\ piece \in Seq(Byte) /\ Len(piece) \in 1..7
             /\ \A k \in 1..7 : 7 * (i - 1) + k <= Len(rest) =>
                  k <= Len(piece) /\ piece[k] = rest[7 * (i - 1) + k]
<1> DEFINE n == Len(rest)
           a == 7 * (i - 1)
           b == IF 7 * i <= n THEN 7 * i ELSE n
           piece == SubSeq(rest, a + 1, b)
<1>1. n \in Nat /\ a \in Nat /\ a < n
  BY LenProperties
<1>2. Tp!Min({7 * i, n}) = b /\ a + 1 = 7 * i - 6
  <2> HIDE DEF n
  <2> QED
    BY <1>1, LesserOf
<1>3. b \in Nat /\ a < b /\ b <= n /\ b - a \in 1..7 /\ (b - a = 7 \/ b = n)
  <2>1. CASE 7 * i <= n
    <3>1. b = 7 * i
      BY <2>1
    <3> HIDE DEF b, n
    <3> QED
      BY <1>1, <2>1, <3>1
  <2>2. CASE ~(7 * i <= n)
    <3>1. b = n
      BY <2>2
    <3> HIDE DEF b, n
    <3> QED
      BY <1>1, <2>2, <3>1
  <2> QED
    BY <2>1, <2>2
<1> HIDE DEF b
<1>4. piece \in Seq(Byte) /\ Len(piece) = b - a /\ \A k \in 1..(b - a) : piece[k] = rest[a + k]
  <2>1. a \in 0..Len(rest) /\ b \in a..Len(rest)
    <3> HIDE DEF a
    <3> QED
      BY <1>1, <1>3
  <2> HIDE DEF a
  <2> QED
    BY <2>1, Part
<1>5. piece = SubSeq(rest, 7 * i - 6, Tp!Min({7 * i, Len(rest)}))
  BY <1>2
<1> HIDE DEF piece, a, n
<1>6. ASSUME NEW k \in 1..7, a + k <= n
      PROVE  k <= Len(piece) /\ piece[k] = rest[a + k]
  <2>1. k \in 1..(b - a)
    BY <1>1, <1>3, <1>6
  <2> QED
    BY <1>3, <1>4, <2>1
<1> QED
  BY <1>3, <1>4, <1>5, <1>6 DEF a, n

(* How many frames follow the first one. *)
Following(message) == Len(message) \div 7

LEMMA RestIs ==
  ASSUME NEW message \in Seq(Byte), Len(message) >= 8
  PROVE  /\ SubSeq(message, 7, Len(message)) \in Seq(Byte)
         /\ Len(SubSeq(message, 7, Len(message))) = Len(message) - 6
         /\ \A k \in 1..(Len(message) - 6) : SubSeq(message, 7, Len(message))[k] = message[6 + k]
<1> DEFINE size == Len(message)
           rest == SubSeq(message, 6 + 1, size)
<1>1. size \in Nat /\ size >= 8
  BY LenProperties
<1>2. 6 \in 0..Len(message) /\ size \in 6..Len(message)
  <2> HIDE DEF size
  <2>1. 6 \in 0..size /\ size \in 6..size
    BY <1>1
  <2> QED
    BY <2>1 DEF size
<1>3. /\ rest \in Seq(Byte) /\ Len(rest) = size - 6
      /\ \A k \in 1..(size - 6) : rest[k] = message[6 + k]
  <2> HIDE DEF size
  <2> QED
    BY <1>2, Part
<1>4. rest = SubSeq(message, 7, Len(message))
  OBVIOUS
<1> QED
  BY <1>3, <1>4

LEMMA NextIs ==
  ASSUME NEW message \in Seq(Byte), Len(message) >= 8, NEW i \in 1..Following(message)
  PROVE  /\ Tp!Continuation(message, i) \in Seq(Byte) /\ Len(Tp!Continuation(message, i)) = 8
         /\ NextOf(message, 6 + 7 * (i - 1), i - 1, Tp!Continuation(message, i))
<1> DEFINE size == Len(message)
           rest == SubSeq(message, 7, Len(message))
           n == Len(rest)
           piece == SubSeq(rest, 7 * i - 6, Tp!Min({7 * i, Len(rest)}))
           number == 32 + (i % 16)
           head == <<number>> \o piece
           data == Tp!Pad(head, 8)
           before == 7 * (i - 1)
<1>1. Tp!Continuation(message, i) = data
  BY DEF Tp!Continuation
<1>2. size \in Nat /\ size >= 8
  BY LenProperties
<1>3. rest \in Seq(Byte) /\ n = size - 6 /\ \A k \in 1..(size - 6) : rest[k] = message[6 + k]
  BY RestIs
<1>4. i \in Nat /\ i >= 1 /\ 7 * i <= size
  <2>1. i \in 1..(size \div 7)
    BY DEF Following
  <2> HIDE DEF size
  <2> QED
    BY <1>2, <2>1
<1>5. before \in Nat /\ before < n
  <2> HIDE DEF size, n
  <2> QED
    BY <1>2, <1>3, <1>4
<1> HIDE DEF size, rest
<1> DEFINE length == Len(piece)
<1>6. /\ piece \in Seq(Byte) /\ length \in 1..7
      /\ \A k \in 1..7 : before + k <= n => k <= length /\ piece[k] = rest[before + k]
  BY <1>3, <1>4, <1>5, PieceIs
<1> HIDE DEF n, piece, length
<1>7. number \in Byte /\ number = 32 + (((i - 1) + 1) % 16)
  BY <1>4 DEF Byte
<1> HIDE DEF number
<1>8. /\ head \in Seq(Byte) /\ Len(head) = length + 1 /\ head[1] = number
      /\ \A k \in 2..(length + 1) : head[k] = piece[k - 1]
  BY <1>6, <1>7, Headed DEF length
<1> HIDE DEF head
<1>9. /\ data \in Seq(Byte) /\ Len(data) = 8
      /\ \A k \in 1..Len(head) : data[k] = head[k]
  <2>1. length + 1 \in 1..8
    BY <1>6
  <2>2. Len(head) \in 1..8
    BY <1>8, <2>1
  <2> QED
    BY <1>8, <2>2, Padded
<1> HIDE DEF data, before
<1>10. data # <<>> /\ data[1] = number
  <2>1. Len(<<>>) = 0 /\ 8 # 0
    OBVIOUS
  <2>2. data # <<>>
    <3>1. Len(data) = 8
      BY <1>9
    <3> QED
      BY <2>1, <3>1
  <2>3. 1 \in 1..(length + 1)
    BY <1>6
  <2> QED
    BY <1>8, <1>9, <2>2, <2>3
<1>11. ASSUME NEW k \in 2..8, 6 + before + k - 1 <= size
       PROVE  data[k] = message[6 + before + k - 1]
  <2>0. n = size - 6
    BY <1>3
  <2>1. k - 1 \in 1..7 /\ before + (k - 1) <= n
    BY <1>2, <1>5, <1>11, <2>0
  <2>2. k - 1 <= length /\ piece[k - 1] = rest[before + (k - 1)]
    BY <1>6, <2>1
  <2>3. k \in 2..(length + 1) /\ k \in 1..(length + 1)
    <3>1. length \in Nat /\ k - 1 <= length
      BY <1>6, <2>2
    <3> QED
      BY <3>1
  <2>4. data[k] = piece[k - 1]
    BY <1>8, <1>9, <2>3
  <2>5. before + (k - 1) \in 1..(size - 6) /\ 6 + (before + (k - 1)) = 6 + before + k - 1
    BY <1>2, <1>5, <2>0, <2>1
  <2>6. rest[before + (k - 1)] = message[6 + before + k - 1]
    BY <1>3, <2>5
  <2> QED
    BY <2>2, <2>4, <2>6
<1>12. NextOf(message, 6 + before, i - 1, data)
  <2>1. \A k \in 2..Len(data) : 6 + before + k - 1 <= Len(message)
          => data[k] = message[6 + before + k - 1]
    BY <1>9, <1>11 DEF size
  <2> QED
    BY <1>7, <1>10, <2>1 DEF NextOf
<1> QED
  BY <1>1, <1>9, <1>12 DEF before

LEMMA OpeningIs ==
  ASSUME NEW message \in Seq(Byte), Len(message) >= 8, Len(message) <= 4095
  PROVE  Tp!Opening(message) \in Seq(Byte) /\ FirstOf(message, Tp!Opening(message))
<1> DEFINE size == Len(message)
           start == SubSeq(message, 1, 6)
           high == 16 + size \div 256
           low == size % 256
           data == <<high, low>> \o start
<1>1. size \in Nat /\ size >= 8 /\ size <= 4095
  BY LenProperties
<1>2. Tp!Opening(message) = data
  BY DEF Tp!Opening
<1>3. start \in Seq(Byte) /\ Len(start) = 6 /\ \A k \in 1..6 : start[k] = message[k]
  <2>1. 6 \in Nat /\ 6 <= Len(message)
    <3> HIDE DEF size
    <3>1. 6 \in Nat /\ 6 <= size
      BY <1>1
    <3> QED
      BY <3>1 DEF size
  <2> QED
    BY <2>1, PrefixOfBytes
<1>4. high \in Byte /\ low \in Byte
  <2> HIDE DEF size
  <2> QED
    BY <1>1 DEF Byte
<1> HIDE DEF start, high, low
<1>5. /\ data \in Seq(Byte) /\ Len(data) = Len(start) + 2
      /\ data[1] = high /\ data[2] = low
      /\ \A k \in 3..(Len(start) + 2) : data[k] = start[k - 2]
  <2>1. start \in Seq(Byte)
    BY <1>3
  <2> HIDE DEF size
  <2> QED
    BY <1>4, <2>1, TwiceHeaded
<1> HIDE DEF data
<1>6. Len(data) = 8
  BY <1>3, <1>5
<1>7. ASSUME NEW k \in 1..6
      PROVE  data[2 + k] = message[k]
  <2>1. 2 + k \in 3..(6 + 2) /\ (2 + k) - 2 = k
    OBVIOUS
  <2>2. data[2 + k] = start[(2 + k) - 2]
    BY <1>3, <1>5, <2>1
  <2> QED
    BY <1>3, <2>1, <2>2
<1>8. data[1] = 16 + Len(message) \div 256 /\ data[2] = Len(message) % 256
  BY <1>5 DEF high, low
<1>9. FirstOf(message, data)
  BY <1>6, <1>7, <1>8 DEF FirstOf
<1> QED
  BY <1>2, <1>5, <1>9

LEMMA SegmentsAre ==
  ASSUME NEW ecu, NEW message \in Seq(Byte), Len(message) >= 8, Len(message) <= 4095
  PROVE  /\ Following(message) \in Nat
         /\ Tp!Segmented(ecu, message) \in Seq(Frames(ecu))
         /\ Len(Tp!Segmented(ecu, message)) = 1 + Following(message)
         /\ Tp!Segmented(ecu, message)[1].data = Tp!Opening(message)
         /\ \A i \in 1..Following(message) :
              Tp!Segmented(ecu, message)[1 + i].data = Tp!Continuation(message, i)
<1> DEFINE count == Following(message)
           first == <<Tp!Frame(ecu, Tp!Opening(message))>>
           others == [i \in 1..count |-> Tp!Frame(ecu, Tp!Continuation(message, i))]
           all == first \o others
<1>1. count \in Nat /\ ~(Len(message) <= 7)
  <2> DEFINE size == Len(message)
  <2>1. size \in Nat /\ size >= 8
    BY LenProperties
  <2>2. count = size \div 7
    BY DEF Following
  <2> HIDE DEF size, count
  <2>3. count \in Nat /\ ~(size <= 7)
    BY <2>1, <2>2
  <2> QED
    BY <2>3 DEF size
<1>2. Tp!Segmented(ecu, message) = all
  BY <1>1 DEF Tp!Segmented, Following
<1>3. \A i \in 1..count : Tp!Continuation(message, i) \in Seq(Byte)
  BY NextIs
<1> HIDE DEF count
<1>4. first \in Seq(Frames(ecu)) /\ Len(first) = 1 /\ first[1].data = Tp!Opening(message)
  BY OpeningIs, FrameIs
<1> HIDE DEF first
<1>5. others \in [1..count -> Frames(ecu)]
  BY <1>3, FrameIs
<1>6. \A i \in 1..count : others[i].data = Tp!Continuation(message, i)
  BY <1>3, FrameIs
<1> HIDE DEF others
<1>7. others \in Seq(Frames(ecu)) /\ Len(others) = count
  BY <1>1, <1>5, SeqDef
<1>8. /\ all \in Seq(Frames(ecu)) /\ Len(all) = Len(first) + Len(others)
      /\ \A i \in 1..(Len(first) + Len(others)) :
           all[i] = IF i <= Len(first) THEN first[i] ELSE others[i - Len(first)]
  <2>1. first \in Seq(Frames(ecu)) /\ others \in Seq(Frames(ecu))
    BY <1>4, <1>7
  <2> QED
    BY <2>1, ConcatProperties
<1> HIDE DEF all
<1>9. /\ Len(all) = 1 + count
      /\ \A i \in 1..(1 + count) : all[i] = IF i <= 1 THEN first[i] ELSE others[i - 1]
  BY <1>4, <1>7, <1>8
<1>10. all[1].data = Tp!Opening(message)
  <2>1. 1 \in 1..(1 + count)
    BY <1>1
  <2>2. all[1] = first[1]
    BY <1>9, <2>1
  <2> QED
    BY <1>4, <2>2
<1>11. ASSUME NEW i \in 1..count
       PROVE  all[1 + i].data = Tp!Continuation(message, i)
  <2>1. 1 + i \in 1..(1 + count) /\ ~(1 + i <= 1) /\ (1 + i) - 1 = i
    BY <1>1
  <2>2. all[1 + i] = others[i]
    BY <1>9, <2>1
  <2> QED
    BY <1>6, <2>2
<1> QED
  BY <1>1, <1>2, <1>8, <1>9, <1>10, <1>11 DEF count

(* What is known of an ECU after each of its lines.                        *)
Listens(g, own, last) ==
  g = [n \in 0..last |-> IF n = 0 THEN Tp!Silent ELSE Tp!Read(g[n - 1], own[n].data)]

LEMMA ListensExist ==
  ASSUME NEW own, NEW last \in Nat
  PROVE  \E g : Listens(g, own, last)
<1> DEFINE S == {n \in Nat : \E g : Listens(g, own, n)}
<1>1. 0 \in S
  <2> DEFINE g == [n \in 0..0 |-> Tp!Silent]
  <2>1. Listens(g, own, 0)
    BY DEF Listens
  <2> QED
    BY <2>1
<1>2. ASSUME NEW m \in Nat, m \in S
      PROVE  m + 1 \in S
  <2>1. PICK g : Listens(g, own, m)
    BY <1>2
  <2> DEFINE h == [n \in 0..(m + 1) |->
                     IF n <= m THEN g[n] ELSE Tp!Read(g[m], own[m + 1].data)]
  <2>2. ASSUME NEW n \in 0..(m + 1)
        PROVE  h[n] = IF n = 0 THEN Tp!Silent ELSE Tp!Read(h[n - 1], own[n].data)
    <3>1. CASE n = 0
      BY <2>1, <3>1 DEF Listens
    <3>2. CASE n \in 1..m
      <4>1. n \in 0..m /\ n - 1 \in 0..(m + 1) /\ n - 1 <= m /\ n <= m /\ n # 0
        BY <3>2
      <4>2. h[n] = g[n] /\ h[n - 1] = g[n - 1]
        BY <4>1
      <4>3. g[n] = Tp!Read(g[n - 1], own[n].data)
        BY <2>1, <4>1 DEF Listens
      <4> QED
        BY <4>1, <4>2, <4>3
    <3>3. CASE n = m + 1
      <4>1. n - 1 = m /\ n - 1 \in 0..(m + 1) /\ ~(n <= m) /\ n # 0
        BY <3>3
      <4>2. h[n] = Tp!Read(g[m], own[m + 1].data) /\ h[n - 1] = g[m]
        BY <4>1
      <4> QED
        BY <3>3, <4>1, <4>2
    <3> QED
      BY <3>1, <3>2, <3>3
  <2>3. DOMAIN h = 0..(m + 1) /\ h = [n \in DOMAIN h |-> h[n]]
    OBVIOUS
  <2> HIDE DEF h
  <2>4. Listens(h, own, m + 1)
    BY <2>2, <2>3 DEF Listens
  <2> QED
    BY <2>4
<1> HIDE DEF S
<1>3. Nat \subseteq S
  BY <1>1, <1>2, Induction
<1> QED
  BY <1>3 DEF S

Hearing(g, own, last) ==
  /\ Tp!Heard(own) = g[last] /\ g[0] = Tp!Silent
  /\ \A n \in 1..last : g[n] = Tp!Read(g[n - 1], own[n].data)

LEMMA HeardIs ==
  ASSUME NEW own, NEW last \in Nat, Len(own) = last
  PROVE  \E g : Hearing(g, own, last)
<1> DEFINE g == CHOOSE k : Listens(k, own, last)
<1>1. Tp!Heard(own) = g[last]
  BY DEF Tp!Heard, Listens
<1>2. Listens(g, own, last)
  BY ListensExist
<1> HIDE DEF g
<1>3. g[0] = Tp!Silent
  BY <1>2 DEF Listens
<1>4. ASSUME NEW n \in 1..last
      PROVE  g[n] = Tp!Read(g[n - 1], own[n].data)
  <2>1. n \in 0..last /\ n # 0
    OBVIOUS
  <2> QED
    BY <1>2, <2>1 DEF Listens
<1>5. Hearing(g, own, last)
  BY <1>1, <1>3, <1>4 DEF Hearing
<1> QED
  BY <1>5

LEMMA SilentIsSane ==
  Sane(Tp!Silent) /\ ~Tp!Silent.done /\ ~Tp!Silent.invalid /\ Tp!Silent.pending = Tp!None
BY EmptySeq DEF Sane, Responder, Tp!Silent

(* What is known of an ECU after the first frame and n more.               *)
AfterFrames(r, message, n) == Gathering(r, message, 6 + 7 * n, n)

(* A message's next frame brings its next seven bytes, or its last ones.   *)
LEMMA ContinuationGrows ==
  ASSUME NEW message \in Seq(Byte), Len(message) >= 8, NEW n \in Nat, n < Following(message),
         NEW r, Sane(r), AfterFrames(r, message, n)
  PROVE  /\ n + 1 < Following(message)
              => AfterFrames(Tp!Read(r, Tp!Continuation(message, n + 1)), message, n + 1)
         /\ n + 1 = Following(message)
              => Tp!Read(r, Tp!Continuation(message, n + 1))
                   = [Tp!Accept(r, message) EXCEPT !.pending = Tp!None]
<1> DEFINE size == Len(message)
           count == Following(message)
           data == Tp!Continuation(message, n + 1)
           have == 6 + 7 * n
<1>1. size \in Nat /\ size >= 8
  BY LenProperties
<1>2. count = size \div 7
  BY DEF Following
<1> HIDE DEF size, count
<1>3. count \in Nat /\ 7 * count <= size /\ size <= 6 + 7 * count
  BY <1>1, <1>2
<1>4. n + 1 \in 1..count /\ (n + 1) - 1 = n /\ have \in Nat
  BY <1>3 DEF count
<1>5. data \in Seq(Byte) /\ Len(data) = 8 /\ NextOf(message, have, n, data)
  <2> DEFINE i == n + 1
  <2>1. i \in 1..Following(message)
    BY <1>4 DEF count
  <2>2. i - 1 = n
    BY <1>4
  <2> HIDE DEF i
  <2>3. /\ Tp!Continuation(message, i) \in Seq(Byte) /\ Len(Tp!Continuation(message, i)) = 8
        /\ NextOf(message, 6 + 7 * (i - 1), i - 1, Tp!Continuation(message, i))
    BY <2>1, NextIs
  <2> QED
    BY <2>2, <2>3 DEF i
<1>6. Len(Tail(data)) = 7
  <2> HIDE DEF data
  <2>1. data # <<>>
    BY <1>5 DEF NextOf
  <2>2. Len(Tail(data)) = Len(data) - 1
    BY <1>5, <2>1, HeadTailProperties
  <2>3. Len(data) = 8
    BY <1>5
  <2> QED
    BY <2>2, <2>3
<1> HIDE DEF data
<1>7. /\ have + Len(Tail(data)) < Len(message)
           => Gathering(Tp!Read(r, data), message, have + Len(Tail(data)), n + 1)
      /\ have + Len(Tail(data)) >= Len(message)
           => Tp!Read(r, data) = [Tp!Accept(r, message) EXCEPT !.pending = Tp!None]
  <2>1. data \in Seq(Byte) /\ NextOf(message, have, n, data)
    BY <1>5
  <2> HIDE DEF have
  <2>2. Gathering(r, message, have, n) /\ have \in Nat
    BY <1>4 DEF have, AfterFrames
  <2> QED
    BY <2>1, <2>2, MessagesGrow
<1>8. have + 7 = 6 + 7 * (n + 1)
  OBVIOUS
<1>9. n + 1 < count => have + 7 < size
  BY <1>1, <1>3
<1>10. n + 1 = count => have + 7 >= size
  BY <1>1, <1>3
<1> HIDE DEF have
<1>11. ASSUME n + 1 < count
       PROVE  AfterFrames(Tp!Read(r, data), message, n + 1)
  BY <1>6, <1>7, <1>8, <1>9, <1>11 DEF size, AfterFrames
<1>12. ASSUME n + 1 = count
       PROVE  Tp!Read(r, data) = [Tp!Accept(r, message) EXCEPT !.pending = Tp!None]
  BY <1>6, <1>7, <1>10, <1>12 DEF size
<1> QED
  BY <1>11, <1>12 DEF data, count

LEMMA AcceptedIs ==
  ASSUME NEW r, Sane(r), NEW message
  PROVE  /\ Tp!Accept(r, message).done /\ Tp!Accept(r, message).payload = message
         /\ Tp!Accept(r, message).invalid = r.invalid
         /\ Tp!Accept(r, message).pending = r.pending
         /\ LET last == [Tp!Accept(r, message) EXCEPT !.pending = Tp!None]
            IN  last.done /\ last.payload = message /\ last.invalid = r.invalid
                /\ last.pending = Tp!None
<1> DEFINE first == [r EXCEPT !.done = TRUE]
           second == [first EXCEPT !.payload = message]
           third == [second EXCEPT !.pending = Tp!None]
<1>1. Tp!Accept(r, message) = second
  BY DEF Tp!Accept
<1>2. /\ DOMAIN r = {"done", "payload", "pending", "invalid"}
      /\ r = [k \in DOMAIN r |-> r[k]]
  BY DEF Sane, Responder
<1>3. /\ DOMAIN first = DOMAIN r /\ first.done = TRUE /\ first.invalid = r.invalid
      /\ first.pending = r.pending
  BY <1>2
<1> HIDE DEF first
<1>4. /\ DOMAIN second = DOMAIN r /\ second.done = TRUE /\ second.payload = message
      /\ second.invalid = r.invalid /\ second.pending = r.pending
  BY <1>2, <1>3
<1> HIDE DEF second
<1>5. /\ third.done = TRUE /\ third.payload = message /\ third.invalid = r.invalid
      /\ third.pending = Tp!None
  BY <1>2, <1>4
<1>6. third = [Tp!Accept(r, message) EXCEPT !.pending = Tp!None]
  BY <1>1
<1> HIDE DEF third
<1> QED
  BY <1>1, <1>4, <1>5, <1>6

(* An ECU whose lines all arrive in order, once, is read as it answered,   *)
(* however long its message is and whatever other ECUs' lines come between *)
(* (obd_protocol.py:106).                                                  *)
THEOREM WholeAnswersAreRead ==
  ASSUME NEW lines, NEW ecu, NEW message \in Seq(Byte), Len(message) <= 4095,
         Tp!Own(lines, ecu) = Tp!Segmented(ecu, message)
  PROVE  /\ Tp!Responder(lines, ecu).done /\ ~Tp!Responder(lines, ecu).invalid
         /\ Tp!Responder(lines, ecu).payload = message
<1> DEFINE own == Tp!Segmented(ecu, message)
           end == Tp!Heard(own)
<1>1. Tp!Responder(lines, ecu) = IF end.pending # Tp!None THEN Tp!Invalid(end) ELSE end
  BY DEF Tp!Responder
<1>2. SUFFICES end.done /\ ~end.invalid /\ end.payload = message /\ end.pending = Tp!None
  <2> HIDE DEF end
  <2> QED
    BY <1>1
<1>3. CASE Len(message) <= 7
  <2> DEFINE data == Tp!Single(message)
  <2>1. /\ own = <<Tp!Frame(ecu, data)>> /\ data \in Seq(Byte)
        /\ \A r : ~r.invalid => Tp!Read(r, data) = Tp!Accept(r, message)
    BY <1>3, SingleIs
  <2>2. own[1].data = data /\ Len(own) = 1
    BY <2>1, FrameIs
  <2> HIDE DEF own
  <2>3. PICK g : /\ end = g[1] /\ g[0] = Tp!Silent
                 /\ \A n \in 1..1 : g[n] = Tp!Read(g[n - 1], own[n].data)
    <3> DEFINE last == 1
    <3>1. last \in Nat /\ Len(own) = last
      BY <2>2
    <3> HIDE DEF last, end
    <3>2. \E g : Hearing(g, own, last)
      BY <3>1, HeardIs
    <3> QED
      BY <3>2 DEF Hearing, last, end
  <2>4. g[1] = Tp!Read(Tp!Silent, data)
    <3>1. 1 \in 1..1 /\ 1 - 1 = 0
      OBVIOUS
    <3> QED
      BY <2>2, <2>3, <3>1
  <2>5. end = Tp!Accept(Tp!Silent, message)
    BY <2>1, <2>3, <2>4, SilentIsSane
  <2> HIDE DEF end
  <2> QED
    BY <2>5, SilentIsSane, AcceptedIs
<1>4. CASE ~(Len(message) <= 7)
  <2> DEFINE count == Following(message)
  <2>1. Len(message) >= 8
    <3> DEFINE size == Len(message)
    <3>1. size \in Nat /\ ~(size <= 7)
      BY <1>4, LenProperties
    <3> HIDE DEF size
    <3>2. size >= 8
      BY <3>1
    <3> QED
      BY <3>2 DEF size
  <2>2. /\ count \in Nat /\ count >= 1 /\ Len(own) = 1 + count
        /\ own[1].data = Tp!Opening(message)
        /\ \A i \in 1..count : own[1 + i].data = Tp!Continuation(message, i)
    <3> DEFINE size == Len(message)
    <3>1. size \in Nat /\ size >= 8 /\ count = size \div 7
      BY <2>1, LenProperties DEF Following
    <3> HIDE DEF size, count
    <3>2. count >= 1
      BY <3>1
    <3> QED
      BY <2>1, <3>2, SegmentsAre DEF count
  <2> HIDE DEF count, own
  <2>3. PICK g : /\ end = g[1 + count] /\ g[0] = Tp!Silent
                 /\ \A n \in 1..(1 + count) : g[n] = Tp!Read(g[n - 1], own[n].data)
    <3> DEFINE last == 1 + count
    <3>1. last \in Nat /\ Len(own) = last
      BY <2>2
    <3> HIDE DEF last, end
    <3>2. \E g : Hearing(g, own, last)
      BY <3>1, HeardIs
    <3> QED
      BY <3>2 DEF Hearing, last, end
  <2> HIDE DEF end
  <2>4. ASSUME NEW n \in Nat, n < count
        PROVE  g[1 + (n + 1)] = Tp!Read(g[1 + n], Tp!Continuation(message, n + 1))
    <3>1. 1 + (n + 1) \in 1..(1 + count) /\ (1 + (n + 1)) - 1 = 1 + n /\ n + 1 \in 1..count
      BY <2>2, <2>4
    <3>2. own[1 + (n + 1)].data = Tp!Continuation(message, n + 1)
      BY <2>2, <3>1
    <3> QED
      BY <2>3, <3>1, <3>2
  <2> DEFINE S == {n \in Nat : n < count =>
                     Sane(g[1 + n]) /\ AfterFrames(g[1 + n], message, n)}
  <2>5. 0 \in S
    <3>1. g[1] = Tp!Read(Tp!Silent, Tp!Opening(message))
      <4>1. 1 \in 1..(1 + count) /\ 1 - 1 = 0
        BY <2>2
      <4> QED
        BY <2>2, <2>3, <4>1
    <3>2. Tp!Opening(message) \in Seq(Byte) /\ FirstOf(message, Tp!Opening(message))
      BY <2>1, OpeningIs
    <3>3. Sane(g[1]) /\ Gathering(g[1], message, 6, 0)
      BY <2>1, <3>1, <3>2, SilentIsSane, FirstBegins, LinesKeepResponderSane
    <3>4. 1 + 0 = 1 /\ 6 + 7 * 0 = 6
      OBVIOUS
    <3> QED
      BY <3>3, <3>4 DEF AfterFrames
  <2>6. ASSUME NEW n \in Nat, n \in S
        PROVE  n + 1 \in S
    <3>1. SUFFICES ASSUME n + 1 < count
                   PROVE  Sane(g[1 + (n + 1)])
                          /\ AfterFrames(g[1 + (n + 1)], message, n + 1)
      OBVIOUS
    <3>2. n < count /\ n + 1 \in 1..count
      BY <2>2, <3>1
    <3>3. Sane(g[1 + n]) /\ AfterFrames(g[1 + n], message, n)
      BY <2>6, <3>2
    <3>4. g[1 + (n + 1)] = Tp!Read(g[1 + n], Tp!Continuation(message, n + 1))
      BY <2>4, <3>2
    <3>5. Tp!Continuation(message, n + 1) \in Seq(Byte)
      BY <2>1, <3>2, NextIs DEF count
    <3>6. Sane(g[1 + (n + 1)])
      BY <3>3, <3>4, <3>5, LinesKeepResponderSane
    <3>7. AfterFrames(Tp!Read(g[1 + n], Tp!Continuation(message, n + 1)), message, n + 1)
      <4> DEFINE r == g[1 + n]
      <4>1. Sane(r) /\ AfterFrames(r, message, n)
        BY <3>3
      <4> HIDE DEF r
      <4>2. n \in Nat /\ n < Following(message) /\ n + 1 < Following(message)
        BY <3>1, <3>2 DEF count
      <4> HIDE DEF count, S
      <4>3. /\ n + 1 < Following(message)
                => AfterFrames(Tp!Read(r, Tp!Continuation(message, n + 1)), message, n + 1)
            /\ n + 1 = Following(message)
                => Tp!Read(r, Tp!Continuation(message, n + 1))
                     = [Tp!Accept(r, message) EXCEPT !.pending = Tp!None]
        BY <2>1, <4>1, <4>2, ContinuationGrows
      <4> QED
        BY <4>2, <4>3 DEF r
    <3> QED
      BY <3>4, <3>6, <3>7
  <2> HIDE DEF S
  <2>7. Nat \subseteq S
    BY <2>5, <2>6, Induction
  <2> DEFINE n == count - 1
  <2>8. n \in Nat /\ n < count /\ n + 1 = count
    BY <2>2
  <2> HIDE DEF n
  <2> DEFINE r == g[1 + n]
             answer == [Tp!Accept(r, message) EXCEPT !.pending = Tp!None]
  <2>9. Sane(r) /\ AfterFrames(r, message, n)
    BY <2>7, <2>8 DEF S
  <2>10. end = Tp!Read(r, Tp!Continuation(message, n + 1))
    BY <2>3, <2>4, <2>8
  <2> HIDE DEF r
  <2>11. Tp!Read(r, Tp!Continuation(message, n + 1)) = answer
    <3>1. n < Following(message) /\ n + 1 = Following(message)
      BY <2>8 DEF count
    <3> QED
      BY <2>1, <2>8, <2>9, <3>1, ContinuationGrows
  <2>12. ~r.invalid
    BY <2>9 DEF AfterFrames, Gathering
  <2>13. answer.done /\ answer.payload = message /\ answer.invalid = r.invalid
         /\ answer.pending = Tp!None
    BY <2>9, AcceptedIs
  <2> HIDE DEF answer
  <2> QED
    BY <2>10, <2>11, <2>12, <2>13
<1> QED
  BY <1>3, <1>4

(* What a frame of a message is: the data of one of the lines that send it.*)
FrameOf(message, data) ==
  IF Len(message) <= 7 THEN data = Tp!Single(message)
  ELSE \/ data = Tp!Opening(message)
       \/ \E i \in 1..Following(message) : data = Tp!Continuation(message, i)

(* A line that brings nothing of a message: no data, or flow control.      *)
Passed(data) == data = <<>> \/ data[1] \div 16 = 3

(* What is known of an ECU that sends one message: if it is completed it   *)
(* is that message, and what is pending is the start of it.                *)
Faithful(r, message) ==
  /\ Sane(r) /\ (r.done => r.payload = message)
  /\ r.pending # Tp!None =>
       Len(message) >= 8 /\ \E n \in Nat : n < Following(message) /\ AfterFrames(r, message, n)

LEMMA ErrorIsFaithful ==
  ASSUME NEW r, NEW message, Sane(r), r.invalid
  PROVE  Faithful(r, message)
BY DEF Faithful, Sane

(* A continuation that leaves a message pending completes none.            *)
LEMMA PendingCompletesNothing ==
  ASSUME NEW r, Sane(r), ~r.invalid, NEW data, Tp!ConsecutiveFrame(r, data).pending # Tp!None
  PROVE  /\ Tp!ConsecutiveFrame(r, data).done = r.done
         /\ Tp!ConsecutiveFrame(r, data).payload = r.payload
<1> DEFINE length == r.pending.length
           bytes == r.pending.bytes \o Tail(data)
           part == SubSeq(bytes, 1, length)
           done == [Tp!Accept(r, part) EXCEPT !.pending = Tp!None]
           pending == [length |-> length, bytes |-> bytes, next |-> (r.pending.next + 1) % 16]
           kept == [r EXCEPT !.pending = pending]
           read == Tp!ConsecutiveFrame(r, data)
<1>1. /\ ~Tp!Continues(r, data) => read = Tp!Invalid(r)
      /\ Tp!Continues(r, data) /\ Len(bytes) >= length => read = done
      /\ Tp!Continues(r, data) /\ ~(Len(bytes) >= length) => read = kept
  BY DEF Tp!ConsecutiveFrame
<1>2. Tp!Invalid(r).pending = Tp!None
  BY InvalidIsSane DEF Sane
<1>3. done.pending = Tp!None
  <2> HIDE DEF part
  <2> QED
    BY AcceptedIs
<1> HIDE DEF pending, done
<1>4. kept.done = r.done /\ kept.payload = r.payload
  BY DEF Sane, Responder
<1> HIDE DEF kept, read
<1>5. read.pending # Tp!None
  BY DEF read
<1>6. read = kept
  BY <1>1, <1>2, <1>3, <1>5
<1> QED
  BY <1>4, <1>6 DEF read

LEMMA FollowingIs ==
  ASSUME NEW message \in Seq(Byte), Len(message) >= 8, Len(message) <= 118
  PROVE  Following(message) \in 1..16
<1> DEFINE size == Len(message)
<1>1. size \in Nat /\ size >= 8 /\ size <= 118
  BY LenProperties
<1> HIDE DEF size
<1>2. size \div 7 \in 1..16
  BY <1>1
<1> QED
  BY <1>2 DEF Following, size

(* A continuation is one, with its number.                                 *)
LEMMA ContinuationIs ==
  ASSUME NEW message \in Seq(Byte), Len(message) >= 8, NEW i \in 1..Following(message)
  PROVE  /\ Tp!Continuation(message, i) \in Seq(Byte) /\ Tp!Continuation(message, i) # <<>>
         /\ Tp!Continuation(message, i)[1] \div 16 = 2
         /\ Tp!Continuation(message, i)[1] % 16 = i % 16
<1> DEFINE data == Tp!Continuation(message, i)
           number == i % 16
<1>1. data \in Seq(Byte) /\ NextOf(message, 6 + 7 * (i - 1), i - 1, data)
  BY NextIs
<1> HIDE DEF data
<1>2. (i - 1) + 1 = i /\ i \in Int
  <2>1. Following(message) \in Int
    BY LenProperties DEF Following
  <2> QED
    BY <2>1
<1>3. data # <<>> /\ data[1] = 32 + number
  BY <1>1, <1>2 DEF NextOf
<1>4. number \in 0..15
  BY <1>2
<1> HIDE DEF number
<1>5. data[1] \div 16 = 2 /\ data[1] % 16 = number
  BY <1>3, <1>4
<1> QED
  BY <1>1, <1>3, <1>5 DEF data, number

(* Continuations fewer than sixteen apart have different sequence numbers. *)
LEMMA NearNumbersDiffer ==
  ASSUME NEW i \in Nat, NEW j \in Nat, i # j, i - j <= 15, j - i <= 15
  PROVE  i % 16 # j % 16
OBVIOUS

(* What is known of an ECU that sends one message, when the last of the    *)
(* message's frames it sent was this one: the first is 0.                  *)
Standing(r, message, i) ==
  /\ Sane(r) /\ (r.done => r.payload = message)
  /\ r.pending # Tp!None =>
       Len(message) >= 8 /\ i \in Nat /\ i < Following(message) /\ AfterFrames(r, message, i)

LEMMA FollowingIsNat ==
  ASSUME NEW message \in Seq(Byte), Len(message) >= 8, Len(message) <= 4095
  PROVE  Following(message) \in Nat /\ Following(message) >= 1 /\ Following(message) <= 585
<1> DEFINE size == Len(message)
<1>1. size \in Nat /\ size >= 8 /\ size <= 4095
  BY LenProperties
<1> HIDE DEF size
<1>2. size \div 7 \in Nat /\ size \div 7 >= 1 /\ size \div 7 <= 585
  BY <1>1
<1> QED
  BY <1>2 DEF Following, size

LEMMA ErrorStands ==
  ASSUME NEW r, NEW message, NEW i, Sane(r), r.invalid
  PROVE  Standing(r, message, i)
BY DEF Standing, Sane

(* A continuation near the last frame that was sent continues the message  *)
(* if it is next, and is an error if not.                                  *)
LEMMA NearContinuation ==
  ASSUME NEW message \in Seq(Byte), Len(message) >= 8, Len(message) <= 4095,
         NEW i \in 1..Following(message), NEW n \in Nat, i - (n + 1) <= 15, (n + 1) - i <= 15,
         NEW r, Standing(r, message, n), ~r.invalid
  PROVE  Standing(Tp!Read(r, Tp!Continuation(message, i)), message, i)
<1> DEFINE data == Tp!Continuation(message, i)
           read == Tp!Read(r, data)
<1>1. /\ data \in Seq(Byte) /\ data # <<>> /\ data[1] \div 16 = 2 /\ data[1] % 16 = i % 16
  BY ContinuationIs
<1> SUFFICES Standing(read, message, i)
  OBVIOUS
<1> HIDE DEF data
<1>2. read = Tp!ConsecutiveFrame(r, data)
  BY SMTT(30), <1>1 DEF Tp!Read
<1>3. Sane(r) /\ (r.done => r.payload = message)
  BY DEF Standing
<1>4. Sane(read)
  BY <1>1, <1>3, LinesKeepResponderSane
<1>5. Following(message) \in Nat /\ i \in Nat /\ i <= Following(message)
  BY FollowingIsNat
<1>6. ASSUME ~Tp!Continues(r, data)
      PROVE  Standing(read, message, i)
  <2>1. read = Tp!Invalid(r)
    BY <1>2, <1>6 DEF Tp!ConsecutiveFrame
  <2>2. read.invalid
    BY <1>3, <2>1, InvalidIsSane
  <2> HIDE DEF read
  <2> QED
    BY <1>4, <2>2, ErrorStands
<1>7. CASE r.pending = Tp!None
  BY <1>6, <1>7 DEF Tp!Continues
<1>8. CASE r.pending # Tp!None
  <2>1. n < Following(message) /\ AfterFrames(r, message, n)
    BY <1>8 DEF Standing
  <2>2. r.pending.next = (n + 1) % 16
    BY <2>1, GatheringIs DEF AfterFrames
  <2>4. CASE i # n + 1
    <3>1. i % 16 # (n + 1) % 16
      BY <1>5, <2>4, NearNumbersDiffer
    <3> QED
      BY <1>1, <1>6, <2>2, <3>1 DEF Tp!Continues
  <2>5. CASE i = n + 1
    <3> DEFINE answer == [Tp!Accept(r, message) EXCEPT !.pending = Tp!None]
    <3>1. data = Tp!Continuation(message, n + 1)
      BY <2>5 DEF data
    <3>2. /\ n + 1 < Following(message) => AfterFrames(read, message, n + 1)
          /\ n + 1 = Following(message) => read = answer
      BY <1>3, <2>1, <3>1, ContinuationGrows
    <3>3. answer.done /\ answer.payload = message /\ answer.pending = Tp!None
      BY <1>3, AcceptedIs
    <3> HIDE DEF answer
    <3>4. CASE i < Following(message)
      <4>1. AfterFrames(read, message, i)
        BY <2>5, <3>2, <3>4
      <4>2. read.pending # Tp!None
        BY <4>1, GatheringIs DEF AfterFrames
      <4>3. read.done = r.done /\ read.payload = r.payload
        BY <1>2, <1>3, <4>2, PendingCompletesNothing
      <4> HIDE DEF read
      <4> QED
        BY <1>3, <1>4, <1>5, <3>4, <4>1, <4>3 DEF Standing
    <3>5. CASE ~(i < Following(message))
      <4>1. n + 1 = Following(message)
        BY <1>5, <2>5, <3>5
      <4>2. read = answer
        BY <3>2, <4>1
      <4> HIDE DEF read
      <4> QED
        BY <1>4, <3>3, <4>2 DEF Standing
    <3> QED
      BY <3>4, <3>5
  <2> QED
    BY <2>4, <2>5
<1> QED
  BY <1>7, <1>8

(* The first frame begins the message anew.                                *)
LEMMA OpeningStands ==
  ASSUME NEW message \in Seq(Byte), Len(message) >= 8, Len(message) <= 4095,
         NEW r, Sane(r), r.done => r.payload = message, ~r.invalid
  PROVE  Standing(Tp!Read(r, Tp!Opening(message)), message, 0)
<1> DEFINE data == Tp!Opening(message)
           read == Tp!Read(r, data)
<1> SUFFICES Standing(read, message, 0)
  OBVIOUS
<1>1. data \in Seq(Byte) /\ FirstOf(message, data)
  BY OpeningIs
<1>2. Gathering(read, message, 6, 0) /\ read.done = r.done /\ read.payload = r.payload
  BY <1>1, FirstBegins
<1>3. Sane(read)
  BY <1>1, LinesKeepResponderSane
<1> HIDE DEF read
<1>4. 6 + 7 * 0 = 6 /\ 0 \in Nat
  OBVIOUS
<1>5. AfterFrames(read, message, 0)
  BY <1>2, <1>4 DEF AfterFrames
<1>6. 0 < Following(message)
  BY FollowingIsNat
<1> QED
  BY <1>2, <1>3, <1>4, <1>5, <1>6 DEF Standing

(* A continuation in its turn continues; any other is an error.            *)
LEMMA ContinuationKeepsFaith ==
  ASSUME NEW message \in Seq(Byte), Len(message) >= 8, Len(message) <= 118,
         NEW i \in 1..Following(message), NEW r, Faithful(r, message), ~r.invalid
  PROVE  Faithful(Tp!Read(r, Tp!Continuation(message, i)), message)
<1> DEFINE read == Tp!Read(r, Tp!Continuation(message, i))
<1> SUFFICES Faithful(read, message)
  OBVIOUS
<1>1. Following(message) \in 1..16 /\ i \in 1..16 /\ Len(message) <= 4095
  <2>1. Following(message) \in 1..16
    BY FollowingIs
  <2>2. Len(message) \in Nat /\ Len(message) <= 118
    BY LenProperties
  <2> QED
    BY <2>1, <2>2
<1>2. PICK n \in Nat : n + 1 \in 1..16 /\ Standing(r, message, n)
  <2>1. CASE r.pending = Tp!None
    <3>1. Standing(r, message, 0) /\ 0 + 1 \in 1..16
      BY <2>1 DEF Standing, Faithful
    <3> QED
      BY <3>1
  <2>2. CASE r.pending # Tp!None
    <3>1. PICK n \in Nat : n < Following(message) /\ AfterFrames(r, message, n)
      BY <2>2 DEF Faithful
    <3>2. Standing(r, message, n)
      BY <2>2, <3>1 DEF Standing, Faithful
    <3> QED
      BY <1>1, <3>1, <3>2
  <2> QED
    BY <2>1, <2>2
<1>3. i - (n + 1) <= 15 /\ (n + 1) - i <= 15
  BY <1>1, <1>2
<1>4. Standing(read, message, i)
  BY <1>1, <1>2, <1>3, NearContinuation
<1> HIDE DEF read
<1> QED
  BY <1>4 DEF Standing, Faithful

(* Every line of one message's keeps what is known of its ECU faithful.    *)
LEMMA LinesKeepFaith ==
  ASSUME NEW message \in Seq(Byte), Len(message) <= 118, NEW r, Faithful(r, message),
         NEW data, Passed(data) \/ FrameOf(message, data)
  PROVE  Faithful(Tp!Read(r, data), message)
<1> DEFINE read == Tp!Read(r, data)
<1> SUFFICES Faithful(read, message)
  OBVIOUS
<1>1. Sane(r) /\ (r.done => r.payload = message)
  BY DEF Faithful
<1>2. CASE r.invalid \/ Passed(data)
  <2>1. read = r
    BY <1>2 DEF Tp!Read, Passed
  <2> QED
    BY <2>1
<1>3. CASE ~r.invalid /\ FrameOf(message, data) /\ Len(message) <= 7
  <2>1. data = Tp!Single(message)
    BY <1>3 DEF FrameOf
  <2>2. data \in Seq(Byte) /\ read = Tp!Accept(r, message)
    BY <1>3, <2>1, SingleIs
  <2>3. Sane(read)
    BY <1>1, <2>2, LinesKeepResponderSane
  <2>4. read.done /\ read.payload = message /\ read.pending = r.pending
    BY <1>1, <2>2, AcceptedIs
  <2>5. ~(Len(message) >= 8)
    BY <1>3, LenProperties
  <2>6. r.pending = Tp!None
    BY <2>5 DEF Faithful
  <2> HIDE DEF read
  <2> QED
    BY <2>3, <2>4, <2>6 DEF Faithful
<1>4. CASE ~r.invalid /\ FrameOf(message, data) /\ ~(Len(message) <= 7)
  <2>1. Len(message) >= 8 /\ Len(message) <= 4095
    BY <1>4, LenProperties
  <2>2. CASE data = Tp!Opening(message)
    <3>1. data \in Seq(Byte) /\ FirstOf(message, data)
      BY <2>1, <2>2, OpeningIs
    <3>2. Gathering(read, message, 6, 0) /\ read.done = r.done /\ read.payload = r.payload
      BY <1>1, <1>4, <2>1, <3>1, FirstBegins
    <3>3. Sane(read)
      BY <1>1, <3>1, LinesKeepResponderSane
    <3> HIDE DEF read
    <3>4. 6 + 7 * 0 = 6 /\ 0 \in Nat
      OBVIOUS
    <3>5. AfterFrames(read, message, 0)
      BY <3>2, <3>4 DEF AfterFrames
    <3>6. 0 < Following(message)
      BY <2>1, FollowingIs
    <3> QED
      BY <1>1, <2>1, <3>2, <3>3, <3>4, <3>5, <3>6 DEF Faithful
  <2>3. CASE \E i \in 1..Following(message) : data = Tp!Continuation(message, i)
    <3>1. PICK i \in 1..Following(message) : data = Tp!Continuation(message, i)
      BY <2>3
    <3> QED
      BY <1>4, <2>1, <3>1, ContinuationKeepsFaith
  <2> QED
    BY <1>4, <2>2, <2>3 DEF FrameOf
<1> QED
  BY <1>2, <1>3, <1>4

(* Whatever becomes of the lines of a message of up to sixteen             *)
(* continuations on their way - lost, repeated, in another order, with     *)
(* flow control or other ECUs' lines between - a payload that is accepted  *)
(* is that message (obd_protocol.py:106).  In a longer message sequence    *)
(* numbers repeat and do not tell two of its frames apart.                 *)
THEOREM NothingIsMisassembled ==
  ASSUME NEW lines, NEW ecu, NEW message \in Seq(Byte), Len(message) <= 118,
         NEW last \in Nat, Len(Tp!Own(lines, ecu)) = last,
         \A k \in 1..last : LET data == Tp!Own(lines, ecu)[k].data
                            IN  Passed(data) \/ FrameOf(message, data),
         Tp!Responder(lines, ecu).done
  PROVE  Tp!Responder(lines, ecu).payload = message
<1> DEFINE own == Tp!Own(lines, ecu)
           end == Tp!Heard(own)
<1>1. Tp!Responder(lines, ecu) = IF end.pending # Tp!None THEN Tp!Invalid(end) ELSE end
  BY DEF Tp!Responder
<1> HIDE DEF own
<1>2. PICK g : Hearing(g, own, last)
  <2>1. Len(own) = last
    BY DEF own
  <2> QED
    BY <2>1, HeardIs
<1>3. end = g[last] /\ g[0] = Tp!Silent
  BY <1>2 DEF Hearing
<1> HIDE DEF end
<1> DEFINE S == {n \in Nat : n <= last => Faithful(g[n], message)}
<1>4. 0 \in S
  BY <1>3, SilentIsSane DEF Faithful
<1>5. ASSUME NEW n \in Nat, n \in S
      PROVE  n + 1 \in S
  <2>1. SUFFICES ASSUME n + 1 <= last
                 PROVE  Faithful(g[n + 1], message)
    OBVIOUS
  <2>2. n <= last /\ n + 1 \in 1..last /\ (n + 1) - 1 = n
    BY <2>1
  <2> DEFINE r == g[n]
             data == own[n + 1].data
  <2>3. Faithful(r, message)
    BY <1>5, <2>2
  <2>4. g[n + 1] = Tp!Read(r, data)
    BY <1>2, <2>2 DEF Hearing
  <2>5. Passed(data) \/ FrameOf(message, data)
    BY <2>2 DEF own
  <2> HIDE DEF r, data
  <2>6. Faithful(Tp!Read(r, data), message)
    BY <2>3, <2>5, LinesKeepFaith
  <2> QED
    BY <2>4, <2>6
<1> HIDE DEF S
<1>6. Nat \subseteq S
  BY <1>4, <1>5, Induction
<1>7. Faithful(end, message)
  BY <1>3, <1>6 DEF S
<1>8. ~Tp!Invalid(end).done
  BY <1>7, InvalidIsSane DEF Faithful, Sane
<1> QED
  BY <1>1, <1>7, <1>8 DEF Faithful
--------------------------------------------------------------------------------
(* The data of a message's frames, the first of which is 0.                *)
Numbered(message, i) == IF i = 0 THEN Tp!Opening(message) ELSE Tp!Continuation(message, i)

(* Lines of one message, whatever its length, of which none is followed by *)
(* a line sixteen or more away from the one that should follow.            *)
Nearby(own, message, at, last) ==
  /\ \A k \in 1..last : /\ at[k] \in 0..Following(message)
                        /\ own[k].data = Numbered(message, at[k])
  /\ \A k \in 2..last : at[k] - (at[k - 1] + 1) <= 15 /\ (at[k - 1] + 1) - at[k] <= 15

(* A message of any length is not misassembled either, however many of its *)
(* lines are lost, repeated or in another order, as long as no two of them *)
(* whose sequence numbers agree come to stand next to each other's place   *)
(* (obd_protocol.py:106).                                                  *)
THEOREM NearbyLinesAreNotMistaken ==
  ASSUME NEW lines, NEW ecu, NEW message \in Seq(Byte), Len(message) >= 8, Len(message) <= 4095,
         NEW last \in Nat, Len(Tp!Own(lines, ecu)) = last, NEW at,
         Nearby(Tp!Own(lines, ecu), message, at, last), Tp!Responder(lines, ecu).done
  PROVE  Tp!Responder(lines, ecu).payload = message
<1> DEFINE own == Tp!Own(lines, ecu)
           end == Tp!Heard(own)
<1>1. Tp!Responder(lines, ecu) = IF end.pending # Tp!None THEN Tp!Invalid(end) ELSE end
  BY DEF Tp!Responder
<1>0. Nearby(own, message, at, last)
  OBVIOUS
<1> HIDE DEF own
<1>2. PICK g : Hearing(g, own, last)
  <2>1. Len(own) = last
    BY DEF own
  <2> QED
    BY <2>1, HeardIs
<1>3. end = g[last] /\ g[0] = Tp!Silent
  BY <1>2 DEF Hearing
<1> HIDE DEF end
<1> DEFINE Place(n) == IF n = 0 THEN 0 ELSE at[n]
           S == {n \in Nat : n <= last => Standing(g[n], message, Place(n))}
<1>4. 0 \in S
  BY <1>3, SilentIsSane DEF Standing
<1>5. ASSUME NEW n \in Nat, n \in S
      PROVE  n + 1 \in S
  <2> DEFINE r == g[n]
             m == n + 1
             i == at[m]
             data == own[m].data
             read == Tp!Read(r, data)
  <2>1. SUFFICES ASSUME n + 1 <= last
                 PROVE  Standing(g[m], message, i)
    BY DEF Place
  <2>2. n <= last /\ m \in 1..last /\ m - 1 = n
    BY <2>1
  <2>3. Standing(r, message, Place(n))
    BY <1>5, <2>2
  <2>4. g[m] = read
    <3>1. g[m] = Tp!Read(g[m - 1], own[m].data)
      BY <1>2, <2>2 DEF Hearing
    <3> QED
      BY <2>2, <3>1
  <2>5. i \in 0..Following(message) /\ data = Numbered(message, i)
    BY <1>0, <2>2 DEF Nearby
  <2>6. CASE r.invalid
    <3>1. read = r
      BY <2>6 DEF Tp!Read
    <3>2. Sane(r)
      BY <2>3 DEF Standing
    <3> HIDE DEF r, i, read
    <3> QED
      BY <2>4, <2>6, <3>1, <3>2, ErrorStands
  <2>7. CASE ~r.invalid /\ i = 0
    <3>1. data = Tp!Opening(message)
      BY <2>5, <2>7 DEF Numbered
    <3>2. Sane(r) /\ (r.done => r.payload = message)
      BY <2>3 DEF Standing
    <3> HIDE DEF r, i, data
    <3>3. Standing(Tp!Read(r, Tp!Opening(message)), message, 0)
      BY <2>7, <3>2, OpeningStands
    <3> QED
      BY <2>4, <2>7, <3>1, <3>3
  <2>8. CASE ~r.invalid /\ i # 0
    <3>1. data = Tp!Continuation(message, i) /\ i \in 1..Following(message)
      <4>1. Following(message) \in Nat
        BY FollowingIsNat
      <4> HIDE DEF i
      <4> QED
        BY <2>5, <2>8, <4>1 DEF Numbered
    <3>2. CASE r.pending = Tp!None
      <4>1. Tp!Continuation(message, i) \in Seq(Byte) /\ Tp!Continuation(message, i) # <<>>
            /\ Tp!Continuation(message, i)[1] \div 16 = 2
        BY <3>1, ContinuationIs
      <4>2. data \in Seq(Byte) /\ data # <<>> /\ data[1] \div 16 = 2
        BY <3>1, <4>1
      <4>3. Sane(r)
        BY <2>3 DEF Standing
      <4> HIDE DEF r, i, data
      <4>4. read = Tp!Invalid(r)
        BY <2>8, <3>2, <4>2 DEF Tp!Read, Tp!ConsecutiveFrame, Tp!Continues
      <4>5. Sane(read) /\ read.invalid
        BY <4>3, <4>4, InvalidIsSane
      <4> HIDE DEF read
      <4> QED
        BY <2>4, <4>5, ErrorStands
    <3>3. CASE r.pending # Tp!None
      <4> DEFINE p == Place(n)
      <4>1. p \in Nat /\ p < Following(message) /\ AfterFrames(r, message, p)
        BY <2>3, <3>3 DEF Standing
      <4>2. n # 0
        <5>1. n = 0 => r = Tp!Silent
          BY <1>3
        <5> QED
          BY <3>3, <5>1, SilentIsSane
      <4>3. i - (p + 1) <= 15 /\ (p + 1) - i <= 15
        <5>1. m \in 2..last
          BY <2>2, <4>2
        <5>2. at[m] - (at[m - 1] + 1) <= 15 /\ (at[m - 1] + 1) - at[m] <= 15
          BY <1>0, <5>1 DEF Nearby
        <5>3. p = at[m - 1]
          BY <2>2, <4>2
        <5> QED
          BY <5>2, <5>3
      <4>4. Standing(r, message, p)
        BY <2>3
      <4> HIDE DEF p, r, i, data
      <4>5. Standing(Tp!Read(r, Tp!Continuation(message, i)), message, i)
        BY <2>8, <3>1, <4>1, <4>3, <4>4, NearContinuation
      <4> QED
        BY <2>4, <3>1, <4>5
    <3> QED
      BY <3>2, <3>3
  <2> QED
    BY <2>6, <2>7, <2>8
<1> HIDE DEF S
<1>6. Nat \subseteq S
  BY SMTT(30), <1>4, <1>5, Induction
<1>7. Standing(end, message, Place(last))
  BY <1>3, <1>6 DEF S
<1> HIDE DEF Place
<1>8. ~Tp!Invalid(end).done
  BY <1>7, InvalidIsSane DEF Standing, Sane
<1> QED
  BY <1>1, <1>7, <1>8 DEF Standing

(* The lines of one ECU among so many.                                     *)
Picks(g, lines, ecu, last) ==
  g = [n \in 0..last |-> IF n = 0 THEN <<>>
                         ELSE IF Tp!From(lines[n], ecu) THEN Append(g[n - 1], lines[n])
                         ELSE g[n - 1]]

LEMMA PicksExist ==
  ASSUME NEW lines, NEW ecu, NEW last \in Nat
  PROVE  \E g : Picks(g, lines, ecu, last)
<1> DEFINE S == {n \in Nat : \E g : Picks(g, lines, ecu, n)}
           Next1(one, n) == IF Tp!From(lines[n], ecu) THEN Append(one, lines[n]) ELSE one
<1>1. 0 \in S
  <2> DEFINE g == [n \in 0..0 |-> <<>>]
  <2>1. Picks(g, lines, ecu, 0)
    BY DEF Picks
  <2> QED
    BY <2>1
<1>2. ASSUME NEW m \in Nat, m \in S
      PROVE  m + 1 \in S
  <2>1. PICK g : Picks(g, lines, ecu, m)
    BY <1>2
  <2> DEFINE h == [n \in 0..(m + 1) |-> IF n <= m THEN g[n] ELSE Next1(g[m], m + 1)]
  <2>2. ASSUME NEW n \in 0..(m + 1)
        PROVE  h[n] = IF n = 0 THEN <<>> ELSE Next1(h[n - 1], n)
    <3>1. CASE n = 0
      BY <2>1, <3>1 DEF Picks
    <3>2. CASE n \in 1..m
      <4>1. n \in 0..m /\ n - 1 \in 0..(m + 1) /\ n - 1 <= m /\ n <= m /\ n # 0
        BY <3>2
      <4>2. h[n] = g[n] /\ h[n - 1] = g[n - 1]
        BY <4>1
      <4>3. g[n] = Next1(g[n - 1], n)
        BY <2>1, <4>1 DEF Picks
      <4> QED
        BY <4>1, <4>2, <4>3
    <3>3. CASE n = m + 1
      <4>1. n - 1 = m /\ n - 1 \in 0..(m + 1) /\ ~(n <= m) /\ n # 0
        BY <3>3
      <4>2. h[n] = Next1(g[m], m + 1) /\ h[n - 1] = g[m]
        BY <4>1
      <4> QED
        BY <3>3, <4>1, <4>2
    <3> QED
      BY <3>1, <3>2, <3>3
  <2>3. DOMAIN h = 0..(m + 1) /\ h = [n \in DOMAIN h |-> h[n]]
    OBVIOUS
  <2> HIDE DEF h
  <2>4. Picks(h, lines, ecu, m + 1)
    BY <2>2, <2>3 DEF Picks
  <2> QED
    BY <2>4
<1> HIDE DEF S
<1>3. Nat \subseteq S
  BY <1>1, <1>2, Induction
<1> QED
  BY <1>3 DEF S

Picking(g, lines, ecu, last) ==
  /\ Tp!Own(lines, ecu) = g[last] /\ g[0] = <<>>
  /\ \A n \in 1..last :
       g[n] = IF Tp!From(lines[n], ecu) THEN Append(g[n - 1], lines[n]) ELSE g[n - 1]

LEMMA OwnIs ==
  ASSUME NEW lines, NEW ecu, NEW last \in Nat, Len(lines) = last
  PROVE  \E g : Picking(g, lines, ecu, last)
<1> DEFINE g == CHOOSE k : Picks(k, lines, ecu, last)
<1>1. Tp!Own(lines, ecu) = g[last]
  BY DEF Tp!Own, Picks
<1>2. Picks(g, lines, ecu, last)
  BY PicksExist
<1> HIDE DEF g
<1>3. g[0] = <<>>
  BY <1>2 DEF Picks
<1>4. ASSUME NEW n \in 1..last
      PROVE  g[n] = IF Tp!From(lines[n], ecu) THEN Append(g[n - 1], lines[n]) ELSE g[n - 1]
  <2>1. n \in 0..last /\ n # 0
    OBVIOUS
  <2> QED
    BY <1>2, <2>1 DEF Picks
<1>5. Picking(g, lines, ecu, last)
  BY <1>1, <1>3, <1>4 DEF Picking
<1> QED
  BY <1>5

(* An ECU's lines are lines of the answer, and of that ECU.                *)
LinesFrom(lines, ecu) == {lines[i] : i \in {j \in 1..Len(lines) : Tp!From(lines[j], ecu)}}

LEMMA OwnAre ==
  ASSUME NEW S, NEW lines \in Seq(S), NEW ecu
  PROVE  Tp!Own(lines, ecu) \in Seq(LinesFrom(lines, ecu))
<1> DEFINE last == Len(lines)
           F == LinesFrom(lines, ecu)
<1>1. last \in Nat
  BY LenProperties
<1>2. PICK g : Picking(g, lines, ecu, last)
  <2> HIDE DEF last
  <2>1. Len(lines) = last
    BY DEF last
  <2> QED
    BY <1>1, <2>1, OwnIs
<1> DEFINE T == {n \in Nat : n <= last => g[n] \in Seq(F)}
<1> HIDE DEF F
<1>3. 0 \in T
  BY <1>2, EmptySeq DEF Picking
<1>4. ASSUME NEW n \in Nat, n \in T
      PROVE  n + 1 \in T
  <2>1. SUFFICES ASSUME n + 1 <= last
                 PROVE  g[n + 1] \in Seq(F)
    OBVIOUS
  <2>2. n + 1 \in 1..last /\ (n + 1) - 1 = n /\ n <= last
    BY <1>1, <2>1
  <2>3. g[n] \in Seq(F)
    BY <1>4, <2>2
  <2>4. g[n + 1] = IF Tp!From(lines[n + 1], ecu) THEN Append(g[n], lines[n + 1]) ELSE g[n]
    BY <1>2, <2>2 DEF Picking
  <2>5. CASE Tp!From(lines[n + 1], ecu)
    <3>1. lines[n + 1] \in F
      BY <2>2, <2>5 DEF F, LinesFrom
    <3> QED
      BY <2>3, <2>4, <2>5, <3>1, AppendProperties
  <2>6. CASE ~Tp!From(lines[n + 1], ecu)
    BY <2>3, <2>4, <2>6
  <2> QED
    BY <2>5, <2>6
<1> HIDE DEF T
<1>5. Nat \subseteq T
  BY <1>3, <1>4, Induction
<1>6. g[last] \in Seq(F)
  BY <1>1, <1>5 DEF T
<1> QED
  BY <1>2, <1>6 DEF Picking, F

(* When no other ECU answers, all lines are its own.                       *)
LEMMA AloneAllAreOwn ==
  ASSUME NEW S, NEW lines \in Seq(S), NEW ecu, \A i \in 1..Len(lines) : Tp!From(lines[i], ecu)
  PROVE  Tp!Own(lines, ecu) = lines
<1> DEFINE last == Len(lines)
<1>1. last \in Nat
  BY LenProperties
<1>2. PICK g : Picking(g, lines, ecu, last)
  <2> HIDE DEF last
  <2>1. Len(lines) = last
    BY DEF last
  <2> QED
    BY <1>1, <2>1, OwnIs
<1>0. \A i \in 1..last : lines[i] \in S
  BY ElementOfSeq
<1> DEFINE T == {n \in Nat : n <= last => /\ g[n] \in Seq(S) /\ Len(g[n]) = n
                                          /\ \A i \in 1..n : g[n][i] = lines[i]}
<1>3. 0 \in T
  <2>1. g[0] = <<>>
    BY <1>2 DEF Picking
  <2> DEFINE none == g[0]
  <2>2. none \in Seq(S) /\ Len(none) = 0 /\ \A i \in 1..0 : none[i] = lines[i]
    BY <2>1, EmptySeq
  <2> QED
    BY <2>2
<1>4. ASSUME NEW n \in Nat, n \in T
      PROVE  n + 1 \in T
  <2> DEFINE one == g[n]
             more == g[n + 1]
             line == lines[n + 1]
  <2>1. SUFFICES ASSUME n + 1 <= last
                 PROVE  /\ more \in Seq(S) /\ Len(more) = n + 1
                        /\ \A i \in 1..(n + 1) : more[i] = lines[i]
    OBVIOUS
  <2>2. n + 1 \in 1..last /\ (n + 1) - 1 = n /\ n <= last
    BY <1>1, <2>1
  <2>3. one \in Seq(S) /\ Len(one) = n /\ \A i \in 1..n : one[i] = lines[i]
    BY <1>4, <2>2
  <2>4. more = Append(one, line)
    <3>1. Tp!From(lines[n + 1], ecu)
      BY <2>2
    <3> QED
      BY <1>2, <2>2, <3>1 DEF Picking
  <2>5. line \in S
    <3> HIDE DEF last, one, more
    <3>1. lines[n + 1] \in S
      BY <1>0, <2>2
    <3> QED
      BY <3>1
  <2> HIDE DEF one, more, line
  <2>6. /\ more \in Seq(S) /\ Len(more) = n + 1 /\ more[n + 1] = line
        /\ \A i \in 1..n : more[i] = one[i]
    BY <2>3, <2>4, <2>5, AppendProperties
  <2>7. ASSUME NEW i \in 1..(n + 1)
        PROVE  more[i] = lines[i]
    <3>1. CASE i = n + 1
      BY <2>6, <3>1 DEF line
    <3>2. CASE i # n + 1
      <4>1. i \in 1..n
        BY <3>2
      <4> QED
        BY <2>3, <2>6, <4>1
    <3> QED
      BY <3>1, <3>2
  <2> QED
    BY <2>6, <2>7
<1> HIDE DEF T
<1>5. Nat \subseteq T
  BY <1>3, <1>4, Induction
<1> DEFINE all == g[last]
<1>6. all \in Seq(S) /\ Len(all) = last /\ \A i \in 1..last : all[i] = lines[i]
  BY <1>1, <1>5 DEF T
<1> HIDE DEF all
<1>7. all = lines
  BY <1>6, SeqEqual
<1> QED
  BY <1>2, <1>7 DEF Picking, all

(* A line that is a frame of a message of this ECU.                        *)
LineOf(ecu, message, line) ==
  line \in Frames(ecu) /\ line.kind = "frame" /\ line.ecu = ecu /\ FrameOf(message, line.data)

LEMMA LineIs ==
  ASSUME NEW ecu, NEW message, NEW data \in Seq(Byte), FrameOf(message, data)
  PROVE  LineOf(ecu, message, Tp!Frame(ecu, data))
BY DEF LineOf, Frames, Tp!Frame

LEMMA SegmentedLines ==
  ASSUME NEW ecu, NEW message \in Seq(Byte), Len(message) <= 4095
  PROVE  /\ Tp!Segmented(ecu, message) \in Seq(Frames(ecu))
         /\ Len(Tp!Segmented(ecu, message)) >= 1
         /\ \A i \in 1..Len(Tp!Segmented(ecu, message)) :
              LineOf(ecu, message, Tp!Segmented(ecu, message)[i])
         /\ Len(message) >= 8 => \A i \in 1..Len(Tp!Segmented(ecu, message)) :
              /\ i - 1 \in 0..Following(message)
              /\ Tp!Segmented(ecu, message)[i].data = Numbered(message, i - 1)
<1> DEFINE all == Tp!Segmented(ecu, message)
<1>1. CASE Len(message) <= 7
  <2> DEFINE data == Tp!Single(message)
             line == Tp!Frame(ecu, data)
  <2>1. all = <<line>> /\ data \in Seq(Byte)
    BY <1>1, SingleIs
  <2>2. FrameOf(message, data)
    BY <1>1 DEF FrameOf
  <2>3. LineOf(ecu, message, line) /\ line \in Frames(ecu)
    BY <2>1, <2>2, LineIs, FrameIs
  <2>4. ~(Len(message) >= 8)
    BY <1>1, LenProperties
  <2> HIDE DEF line, all
  <2>5. all \in Seq(Frames(ecu)) /\ Len(all) = 1 /\ all[1] = line
    BY <2>1, <2>3
  <2>6. \A i \in 1..1 : LineOf(ecu, message, all[i])
    BY <2>3, <2>5
  <2>7. SUFFICES /\ all \in Seq(Frames(ecu)) /\ Len(all) >= 1
                 /\ \A i \in 1..Len(all) : LineOf(ecu, message, all[i])
    BY <2>4 DEF all
  <2> QED
    BY <2>5, <2>6
<1>2. CASE ~(Len(message) <= 7)
  <2> DEFINE count == Following(message)
  <2>1. Len(message) >= 8
    <3> DEFINE size == Len(message)
    <3>1. size \in Nat /\ ~(size <= 7)
      BY <1>2, LenProperties
    <3> HIDE DEF size
    <3>2. size >= 8
      BY <3>1
    <3> QED
      BY <3>2 DEF size
  <2>2. /\ count \in Nat /\ all \in Seq(Frames(ecu)) /\ Len(all) = 1 + count
        /\ all[1].data = Tp!Opening(message)
        /\ \A i \in 1..count : all[1 + i].data = Tp!Continuation(message, i)
    BY <2>1, SegmentsAre
  <2> HIDE DEF all
  <2>3. ASSUME NEW i \in 1..Len(all)
        PROVE  /\ LineOf(ecu, message, all[i])
               /\ i - 1 \in 0..count /\ all[i].data = Numbered(message, i - 1)
    <3> DEFINE line == all[i]
    <3>1. line \in Frames(ecu)
      BY <2>2, <2>3, ElementOfSeq
    <3>2. line.kind = "frame" /\ line.ecu = ecu
      <4> HIDE DEF line
      <4> QED
        BY <3>1 DEF Frames, Tp!Frame
    <3>3. i - 1 \in 0..count
      <4> HIDE DEF count
      <4> QED
        BY <2>2, <2>3
    <3>4. line.data = Numbered(message, i - 1)
      <4>1. CASE i = 1
        BY <2>2, <4>1 DEF Numbered
      <4>2. CASE i # 1
        <5> DEFINE j == i - 1
        <5>1. j \in 1..count /\ 1 + j = i /\ j # 0
          <6> HIDE DEF count
          <6> QED
            BY <2>2, <2>3, <4>2
        <5> HIDE DEF j, count
        <5>2. all[1 + j].data = Tp!Continuation(message, j)
          BY <2>2, <5>1
        <5>3. line.data = Numbered(message, j)
          BY <5>1, <5>2 DEF Numbered
        <5> QED
          BY <5>3 DEF j
      <4> QED
        BY <4>1, <4>2
    <3>5. FrameOf(message, line.data)
      <4> DEFINE j == i - 1
      <4>1. j \in 0..count /\ line.data = Numbered(message, j)
        BY <3>3, <3>4
      <4> HIDE DEF j, line
      <4>2. j = 0 \/ j \in 1..count
        <5> HIDE DEF count
        <5> QED
          BY <2>2, <4>1
      <4> QED
        BY <1>2, <4>1, <4>2 DEF FrameOf, Numbered
    <3> HIDE DEF line
    <3>6. LineOf(ecu, message, line)
      BY <3>1, <3>2, <3>5 DEF LineOf
    <3> QED
      BY <3>3, <3>4, <3>6 DEF line
  <2>4. Len(all) >= 1
    <3> HIDE DEF count
    <3> QED
      BY <2>2
  <2>5. /\ all \in Seq(Frames(ecu)) /\ Len(all) >= 1
        /\ \A i \in 1..Len(all) : LineOf(ecu, message, all[i])
        /\ \A i \in 1..Len(all) : i - 1 \in 0..count /\ all[i].data = Numbered(message, i - 1)
    BY <2>2, <2>3, <2>4
  <2> QED
    BY <2>5 DEF all
<1> QED
  BY <1>1, <1>2

(* What is sent: for each ECU, a message that ISO 15765-2 can send.        *)
Messages(sent) == \A ecu \in DOMAIN sent : sent[ecu] \in Seq(Byte) /\ Len(sent[ecu]) <= 4095

(* An answer of which every line that is a frame comes from an ECU that    *)
(* sends something.                                                        *)
Theirs(lines, sent) ==
  \A k \in 1..Len(lines) : lines[k].kind = "frame" => lines[k].ecu \in DOMAIN sent

(* What PayloadsAreSent says of an answer.                                 *)
AsSent(lines, sent, payloads) ==
  /\ \A ecu \in DOMAIN payloads : payloads[ecu] = sent[ecu]
  /\ \A ecu \in DOMAIN sent :
       Tp!Own(lines, ecu) = Tp!Segmented(ecu, sent[ecu]) => ecu \in DOMAIN payloads

LEMMA RespondersAre ==
  ASSUME NEW S, NEW lines \in Seq(S), NEW ecu
  PROVE  ecu \in Tp!Responders(lines) <=> \E k \in 1..Len(lines) : Tp!From(lines[k], ecu)
<1>1. DOMAIN lines = 1..Len(lines)
  BY LenProperties
<1>2. Tp!Range(lines) = {lines[k] : k \in 1..Len(lines)}
  BY <1>1 DEF Tp!Range
<1> QED
  BY <1>2 DEF Tp!Responders, Tp!From

LEMMA ScopedIs ==
  ASSUME NEW lines, Tp!Scoped(lines) # Failed
  PROVE  /\ Tp!Scoped(lines).payloads =
              [ecu \in {e \in Tp!Responders(lines) : Tp!Responder(lines, e).done} |->
                 Tp!Responder(lines, ecu).payload]
         /\ Tp!Scoped(lines).errors =
              {e \in Tp!Responders(lines) : Tp!Responder(lines, e).invalid}
<1> DEFINE ended == [ecu \in Tp!Responders(lines) |-> Tp!Responder(lines, ecu)]
           payloads == [ecu \in {e \in DOMAIN ended : ended[e].done} |-> ended[ecu].payload]
           errors == {e \in DOMAIN ended : ended[e].invalid}
<1>1. Tp!Scoped(lines) = [payloads |-> payloads, errors |-> errors]
  BY DEF Tp!Scoped
<1>2. payloads = [ecu \in {e \in Tp!Responders(lines) : Tp!Responder(lines, e).done} |->
                   Tp!Responder(lines, ecu).payload]
  OBVIOUS
<1>3. errors = {e \in Tp!Responders(lines) : Tp!Responder(lines, e).invalid}
  OBVIOUS
<1> HIDE DEF payloads, errors
<1> QED
  BY <1>1, <1>2, <1>3

LEMMA SentIsScoped ==
  ASSUME NEW S, NEW lines \in Seq(S), NEW sent, Messages(sent), Theirs(lines, sent),
         \A ecu \in DOMAIN sent :
           Tp!Responder(lines, ecu).done => Tp!Responder(lines, ecu).payload = sent[ecu],
         Tp!Scoped(lines) # Failed
  PROVE  AsSent(lines, sent, Tp!Scoped(lines).payloads)
<1> DEFINE payloads == Tp!Scoped(lines).payloads
           heard == {e \in Tp!Responders(lines) : Tp!Responder(lines, e).done}
<1>1. payloads = [ecu \in heard |-> Tp!Responder(lines, ecu).payload]
  BY ScopedIs
<1> HIDE DEF payloads
<1>2. DOMAIN payloads = heard
  BY <1>1
<1>3. ASSUME NEW ecu \in DOMAIN payloads
      PROVE  payloads[ecu] = sent[ecu]
  <2>1. ecu \in Tp!Responders(lines) /\ Tp!Responder(lines, ecu).done
    BY <1>2
  <2>2. PICK k \in 1..Len(lines) : Tp!From(lines[k], ecu)
    BY <2>1, RespondersAre
  <2>3. ecu \in DOMAIN sent
    BY <2>2 DEF Theirs, Tp!From
  <2> QED
    BY <1>1, <1>2, <2>1, <2>3
<1>4. ASSUME NEW ecu \in DOMAIN sent, Tp!Own(lines, ecu) = Tp!Segmented(ecu, sent[ecu])
      PROVE  ecu \in DOMAIN payloads
  <2> DEFINE own == Tp!Own(lines, ecu)
             message == sent[ecu]
  <2>1. message \in Seq(Byte) /\ Len(message) <= 4095
    BY DEF Messages
  <2>2. Tp!Responder(lines, ecu).done
    <3>1. own = Tp!Segmented(ecu, message)
      BY <1>4
    <3> HIDE DEF message
    <3> QED
      BY <2>1, <3>1, WholeAnswersAreRead
  <2>3. Len(own) >= 1
    <3>1. own = Tp!Segmented(ecu, message)
      BY <1>4
    <3> HIDE DEF message, own
    <3> QED
      BY <2>1, <3>1, SegmentedLines
  <2>4. own \in Seq(LinesFrom(lines, ecu))
    BY OwnAre
  <2>5. own[1] \in LinesFrom(lines, ecu)
    <3> HIDE DEF own
    <3>1. Len(own) \in Nat
      BY <2>4, LenProperties
    <3>2. 1 \in 1..Len(own)
      BY <2>3, <3>1
    <3> QED
      BY <2>4, <3>2, ElementOfSeq
  <2> HIDE DEF own
  <2>6. \E k \in 1..Len(lines) : Tp!From(lines[k], ecu)
    BY <2>5 DEF LinesFrom
  <2>7. ecu \in Tp!Responders(lines)
    BY <2>6, RespondersAre
  <2> QED
    BY <1>2, <2>2, <2>7
<1>5. AsSent(lines, sent, payloads)
  BY <1>3, <1>4 DEF AsSent
<1> QED
  BY <1>5 DEF payloads

(* The lines of an answer: frames of its ECUs' messages, flow control, and *)
(* the adapter's own words.                                                *)
LineFrom(sent, line) ==
  line.kind = "frame" =>
    line.ecu \in DOMAIN sent /\ (Passed(line.data) \/ FrameOf(sent[line.ecu], line.data))

(* Messages of up to sixteen continuations are read as they were sent.     *)
LEMMA ShortIsAsSent ==
  ASSUME NEW S, NEW lines \in Seq(S), NEW sent, Messages(sent),
         \A line \in S : LineFrom(sent, line),
         NEW ecu \in DOMAIN sent, Len(sent[ecu]) <= 118, Tp!Responder(lines, ecu).done
  PROVE  Tp!Responder(lines, ecu).payload = sent[ecu]
<1> DEFINE own == Tp!Own(lines, ecu)
           message == sent[ecu]
           last == Len(own)
<1>1. message \in Seq(Byte) /\ Len(message) <= 118
  BY DEF Messages
<1>2. own \in Seq(LinesFrom(lines, ecu))
  BY OwnAre
<1>3. last \in Nat
  BY <1>2, LenProperties
<1>4. ASSUME NEW k \in 1..last
      PROVE  LET data == own[k].data IN Passed(data) \/ FrameOf(message, data)
  <2> DEFINE line == own[k]
  <2>1. line \in LinesFrom(lines, ecu)
    BY <1>2, ElementOfSeq
  <2> HIDE DEF line
  <2>2. PICK i \in 1..Len(lines) : line = lines[i] /\ Tp!From(lines[i], ecu)
    BY <2>1 DEF LinesFrom
  <2>3. lines[i] \in S
    BY <2>2, ElementOfSeq
  <2>4. line.kind = "frame" /\ line.ecu = ecu /\ LineFrom(sent, line)
    BY <2>2, <2>3 DEF Tp!From
  <2>5. Passed(line.data) \/ FrameOf(message, line.data)
    BY <2>4 DEF LineFrom
  <2> QED
    BY <2>5 DEF line
<1> HIDE DEF message, last
<1>5. Len(Tp!Own(lines, ecu)) = last
  BY DEF last
<1>6. \A k \in 1..last : LET data == Tp!Own(lines, ecu)[k].data
                         IN  Passed(data) \/ FrameOf(message, data)
  BY <1>4
<1> HIDE DEF own
<1>7. Tp!Responder(lines, ecu).payload = message
  BY <1>1, <1>3, <1>5, <1>6, NothingIsMisassembled
<1> QED
  BY <1>7 DEF message

(* A message of any length, from the only ECU, of which no line stands     *)
(* eight places or more from its own.                                      *)
LEMMA LongIsAsSent ==
  ASSUME NEW lines, NEW ecu, NEW message \in Seq(Byte), Len(message) >= 8, Len(message) <= 4095,
         lines \in Seq(Frames(ecu)), NEW faults \in Nat, faults <= 7,
         Displaced(lines, Tp!Segmented(ecu, message), faults), Tp!Responder(lines, ecu).done
  PROVE  Tp!Responder(lines, ecu).payload = message
<1> DEFINE whole == Tp!Segmented(ecu, message)
           last == Len(lines)
           size == Len(whole)
           At(k) == CHOOSE i \in 1..size : i - k <= faults /\ k - i <= faults
                                             /\ lines[k] = whole[i]
           at == [k \in 1..last |-> At(k) - 1]
<1>1. last \in Nat /\ size \in Nat
  <2>1. whole \in Seq(Frames(ecu))
    BY SegmentedLines
  <2> HIDE DEF whole
  <2> QED
    BY <2>1, LenProperties
<1>2. Tp!Own(lines, ecu) = lines
  <2>1. ASSUME NEW i \in 1..Len(lines)
        PROVE  Tp!From(lines[i], ecu)
    <3>1. lines[i] \in Frames(ecu)
      BY ElementOfSeq
    <3> QED
      BY <3>1 DEF Frames, Tp!Frame, Tp!From
  <2> QED
    BY <2>1, AloneAllAreOwn
<1>3. \A i \in 1..size : i - 1 \in 0..Following(message)
                         /\ whole[i].data = Numbered(message, i - 1)
  BY SegmentedLines
<1> HIDE DEF whole, size
<1>4. ASSUME NEW k \in 1..last
      PROVE  /\ At(k) \in 1..size /\ At(k) - k <= faults /\ k - At(k) <= faults
             /\ lines[k] = whole[At(k)]
  <2>1. \E i \in 1..size : i - k <= faults /\ k - i <= faults /\ lines[k] = whole[i]
    BY DEF Displaced, whole, size
  <2> QED
    BY <2>1
<1> HIDE DEF At
<1>5. ASSUME NEW k \in 1..last
      PROVE  at[k] \in 0..Following(message) /\ lines[k].data = Numbered(message, at[k])
  <2>1. at[k] = At(k) - 1
    OBVIOUS
  <2> DEFINE i == At(k)
  <2>2. at[k] = i - 1 /\ i \in 1..size /\ lines[k] = whole[i]
    BY <1>4, <2>1
  <2> HIDE DEF at, i
  <2>3. i - 1 \in 0..Following(message) /\ whole[i].data = Numbered(message, i - 1)
    BY <1>3, <2>2
  <2> QED
    BY <2>2, <2>3
<1>6. ASSUME NEW k \in 2..last
      PROVE  at[k] - (at[k - 1] + 1) <= 15 /\ (at[k - 1] + 1) - at[k] <= 15
  <2>1. k \in 1..last /\ k - 1 \in 1..last
    BY <1>1
  <2> DEFINE i == At(k)
             j == At(k - 1)
  <2>2. at[k] = i - 1 /\ at[k - 1] = j - 1
    BY <2>1
  <2>3. i \in 1..size /\ i - k <= faults /\ k - i <= faults
    BY <1>4, <2>1
  <2>4. j \in 1..size /\ j - (k - 1) <= faults /\ (k - 1) - j <= faults
    BY <1>4, <2>1
  <2> HIDE DEF i, j, at
  <2> QED
    BY <1>1, <2>1, <2>2, <2>3, <2>4
<1> HIDE DEF at
<1>7. Nearby(lines, message, at, last)
  BY <1>5, <1>6 DEF Nearby
<1>8. Len(Tp!Own(lines, ecu)) = last /\ Nearby(Tp!Own(lines, ecu), message, at, last)
  BY <1>2, <1>7 DEF last
<1> HIDE DEF last
<1> QED
  BY <1>1, <1>8, NearbyLinesAreNotMistaken

(* The whole answer of one ECU or two.                                     *)
Sending(sent) == Messages(sent) /\ (DOMAIN sent = {"a"} \/ DOMAIN sent = {"a", "b"})

LEMMA WholeIs ==
  ASSUME NEW sent, Sending(sent)
  PROVE  /\ Whole(sent, "a", "b") \in Seq(UNION {Frames(ecu) : ecu \in DOMAIN sent})
         /\ \A i \in 1..Len(Whole(sent, "a", "b")) :
              \E ecu \in DOMAIN sent : LineOf(ecu, sent[ecu], Whole(sent, "a", "b")[i])
         /\ DOMAIN sent = {"a"} => Whole(sent, "a", "b") = Tp!Segmented("a", sent["a"])
<1> DEFINE F == UNION {Frames(ecu) : ecu \in DOMAIN sent}
           first == Tp!Segmented("a", sent["a"])
           second == IF "b" \in DOMAIN sent THEN Tp!Segmented("b", sent["b"]) ELSE <<>>
           Known(line) == \E ecu \in DOMAIN sent : LineOf(ecu, sent[ecu], line)
           whole == first \o second
<1>1. Whole(sent, "a", "b") = whole
  BY DEF Whole
<1>2. "a" \in DOMAIN sent
  BY DEF Sending
<1>3. ASSUME NEW ecu \in DOMAIN sent
      PROVE  /\ Tp!Segmented(ecu, sent[ecu]) \in Seq(F)
             /\ \A i \in 1..Len(Tp!Segmented(ecu, sent[ecu])) :
                  Known(Tp!Segmented(ecu, sent[ecu])[i])
  <2> DEFINE message == sent[ecu]
  <2>1. message \in Seq(Byte) /\ Len(message) <= 4095
    BY DEF Sending, Messages
  <2>2. /\ Tp!Segmented(ecu, message) \in Seq(Frames(ecu))
        /\ \A i \in 1..Len(Tp!Segmented(ecu, message)) :
             LineOf(ecu, message, Tp!Segmented(ecu, message)[i])
    <3> HIDE DEF message
    <3> QED
      BY <2>1, SegmentedLines
  <2>3. Frames(ecu) \subseteq F
    OBVIOUS
  <2>4. Tp!Segmented(ecu, message) \in Seq(F)
    <3> DEFINE seg == Tp!Segmented(ecu, message)
    <3>1. seg \in Seq(Frames(ecu)) /\ Frames(ecu) \subseteq F
      BY <2>2, <2>3
    <3> DEFINE own == Frames(ecu)
    <3>2. seg \in Seq(own) /\ own \subseteq F
      BY <3>1
    <3> HIDE DEF seg, F, own
    <3>3. seg \in Seq(F)
      BY <3>2, WiderSeq
    <3> QED
      BY <3>3 DEF seg
  <2> QED
    BY <2>2, <2>4
<1>4. first \in Seq(F) /\ \A i \in 1..Len(first) : Known(first[i])
  BY <1>2, <1>3
<1>5. second \in Seq(F) /\ \A i \in 1..Len(second) : Known(second[i])
  <2>1. CASE "b" \in DOMAIN sent
    BY <1>3, <2>1
  <2>2. CASE "b" \notin DOMAIN sent
    <3>1. second = <<>>
      BY <2>2
    <3> HIDE DEF second, F, Known
    <3>2. second \in Seq(F) /\ Len(second) = 0
      BY <3>1, EmptySeq
    <3>3. 1..Len(second) = {}
      BY <3>2
    <3> QED
      BY <3>2, <3>3
  <2> QED
    BY <2>1, <2>2
<1> HIDE DEF first
<1>6. DOMAIN sent = {"a"} => whole = first
  <2>1. SUFFICES ASSUME DOMAIN sent = {"a"}
                 PROVE  whole = first
    OBVIOUS
  <2>2. second = <<>>
    BY <2>1
  <2> HIDE DEF second, F
  <2> QED
    BY <1>4, <2>2, ConcatEmptySeq
<1> HIDE DEF second, F, Known
<1>7. /\ whole \in Seq(F) /\ Len(whole) = Len(first) + Len(second)
      /\ \A i \in 1..(Len(first) + Len(second)) :
           whole[i] = IF i <= Len(first) THEN first[i] ELSE second[i - Len(first)]
  BY <1>4, <1>5, ConcatProperties
<1>8. Len(first) \in Nat /\ Len(second) \in Nat
  BY <1>4, <1>5, LenProperties
<1> DEFINE n == Len(first)
           m == Len(second)
<1>9. ASSUME NEW i \in 1..Len(whole)
      PROVE  Known(whole[i])
  <2>0. n \in Nat /\ m \in Nat /\ i \in 1..(n + m)
    BY <1>7, <1>8
  <2>1. CASE i <= n
    <3>1. i \in 1..n
      <4> HIDE DEF n, m
      <4> QED
        BY <2>0, <2>1
    <3>2. whole[i] = first[i]
      BY <1>7, <2>0, <2>1
    <3> QED
      BY <1>4, <3>1, <3>2
  <2>2. CASE ~(i <= n)
    <3>1. i - n \in 1..m
      <4> HIDE DEF n, m
      <4> QED
        BY <2>0, <2>2
    <3>2. whole[i] = second[i - n]
      BY <1>7, <2>0, <2>2
    <3> QED
      BY <1>5, <3>1, <3>2
  <2> QED
    BY <2>1, <2>2
<1> HIDE DEF whole
<1> QED
  BY <1>1, <1>6, <1>7, <1>9 DEF F, Known, first

(* Each line of the whole answer is one of its ECUs'.                      *)
LEMMA WholeLines ==
  ASSUME NEW sent, Sending(sent), NEW line \in Range(Whole(sent, "a", "b"))
  PROVE  LineFrom(sent, line)
<1> DEFINE whole == Whole(sent, "a", "b")
<1>1. whole \in Seq(UNION {Frames(ecu) : ecu \in DOMAIN sent})
  BY WholeIs
<1>2. \A i \in 1..Len(whole) : \E ecu \in DOMAIN sent : LineOf(ecu, sent[ecu], whole[i])
  BY WholeIs
<1> HIDE DEF whole
<1>3. DOMAIN whole = 1..Len(whole)
  BY <1>1, LenProperties
<1>4. PICK i \in 1..Len(whole) : line = whole[i]
  BY <1>3 DEF Range, whole
<1>5. PICK ecu \in DOMAIN sent : LineOf(ecu, sent[ecu], line)
  BY <1>2, <1>4
<1> QED
  BY <1>5 DEF LineOf, LineFrom

(* Lines that move by one place more.                                      *)
LEMMA OneFaultMore ==
  ASSUME NEW S, NEW lines \in Seq(S), NEW whole, Len(whole) \in Nat, NEW f \in Nat,
         Displaced(lines, whole, f), NEW next \in Seq(S), Displaced(next, lines, 1)
  PROVE  Displaced(next, whole, f + 1)
<1>1. Len(lines) \in Nat /\ Len(next) \in Nat
  BY LenProperties
<1>2. ASSUME NEW k \in 1..Len(next)
      PROVE  \E i \in 1..Len(whole) : i - k <= f + 1 /\ k - i <= f + 1 /\ next[k] = whole[i]
  <2>1. PICK j \in 1..Len(lines) : j - k <= 1 /\ k - j <= 1 /\ next[k] = lines[j]
    BY DEF Displaced
  <2>2. PICK i \in 1..Len(whole) : i - j <= f /\ j - i <= f /\ lines[j] = whole[i]
    BY DEF Displaced
  <2>3. i - k <= f + 1 /\ k - i <= f + 1
    BY <1>1, <2>1, <2>2
  <2> QED
    BY <2>1, <2>2, <2>3
<1> QED
  BY <1>2 DEF Displaced

LEMMA LostLine ==
  ASSUME NEW S, NEW lines \in Seq(S), NEW i \in 1..Len(lines)
  PROVE  RemoveAt(lines, i) \in Seq(S) /\ Displaced(RemoveAt(lines, i), lines, 1)
<1> DEFINE n == Len(lines)
           start == SubSeq(lines, 1, i - 1)
           end == SubSeq(lines, i + 1, Len(lines))
           next == start \o end
<1>1. RemoveAt(lines, i) = next
  BY DEF RemoveAt
<1>2. n \in Nat /\ i \in 1..n
  BY LenProperties
<1>3. i \in 1..(n + 1) /\ i + 1 \in 1..(n + 1) /\ n - (i + 1) + 1 = n - i /\ (i + 1) - 1 = i
  <2> HIDE DEF n
  <2> QED
    BY <1>2
<1>4. start \in Seq(S) /\ Len(start) = i - 1 /\ \A k \in 1..(i - 1) : start[k] = lines[k]
  BY <1>3, StartOf
<1>5. end \in Seq(S) /\ Len(end) = n - i /\ \A k \in 1..(n - i) : end[k] = lines[i + k]
  <2> DEFINE j == i + 1
  <2>1. j \in 1..(Len(lines) + 1)
    BY <1>3
  <2> HIDE DEF j
  <2>2. /\ SubSeq(lines, j, Len(lines)) \in Seq(S)
        /\ Len(SubSeq(lines, j, Len(lines))) = Len(lines) - j + 1
        /\ \A k \in 1..(Len(lines) - j + 1) : SubSeq(lines, j, Len(lines))[k] = lines[j - 1 + k]
    BY <2>1, EndOf
  <2>3. n - j + 1 = n - i /\ j - 1 = i
    BY <1>3 DEF j
  <2> QED
    BY <2>2, <2>3 DEF j
<1> HIDE DEF start, end
<1>6. /\ next \in Seq(S) /\ Len(next) = Len(start) + Len(end)
      /\ \A k \in 1..(Len(start) + Len(end)) :
           next[k] = IF k <= Len(start) THEN start[k] ELSE end[k - Len(start)]
  BY <1>4, <1>5, ConcatProperties
<1> HIDE DEF next, n
<1>7. (i - 1) + (n - i) = n - 1 /\ i - 1 \in Nat /\ n - i \in Nat
  BY <1>2
<1>8. /\ Len(next) = n - 1
      /\ \A k \in 1..(n - 1) : next[k] = IF k <= i - 1 THEN start[k] ELSE end[k - (i - 1)]
  BY <1>4, <1>5, <1>6, <1>7
<1>9. ASSUME NEW k \in 1..Len(next)
      PROVE  \E j \in 1..Len(lines) : j - k <= 1 /\ k - j <= 1 /\ next[k] = lines[j]
  <2>1. k \in 1..(n - 1)
    BY <1>8
  <2>2. CASE k <= i - 1
    <3>1. k \in 1..(i - 1) /\ k \in 1..n /\ k - k <= 1
      BY <1>2, <2>1, <2>2
    <3>2. next[k] = lines[k]
      BY <1>4, <1>8, <2>1, <2>2, <3>1
    <3> QED
      BY <3>1, <3>2 DEF n
  <2>3. CASE ~(k <= i - 1)
    <3>1. /\ k - (i - 1) \in 1..(n - i) /\ i + (k - (i - 1)) = k + 1 /\ k + 1 \in 1..n
          /\ (k + 1) - k <= 1 /\ k - (k + 1) <= 1
      BY <1>2, <2>1, <2>3
    <3>2. next[k] = end[k - (i - 1)]
      BY <1>8, <2>1, <2>3
    <3>3. next[k] = lines[k + 1]
      BY <1>5, <3>1, <3>2
    <3> QED
      BY <3>1, <3>3 DEF n
  <2> QED
    BY <2>2, <2>3
<1>10. Displaced(next, lines, 1)
  BY <1>9 DEF Displaced
<1> QED
  BY <1>1, <1>6, <1>10

LEMMA RepeatedLine ==
  ASSUME NEW S, NEW lines \in Seq(S), NEW i \in 1..Len(lines)
  PROVE  /\ InsertAt(lines, i, lines[i]) \in Seq(S)
         /\ Displaced(InsertAt(lines, i, lines[i]), lines, 1)
<1> DEFINE n == Len(lines)
           start == SubSeq(lines, 1, i - 1)
           one == <<lines[i]>>
           longer == start \o one
           end == SubSeq(lines, i, Len(lines))
           next == longer \o end
<1>1. InsertAt(lines, i, lines[i]) = next
  BY DEF InsertAt
<1>2. n \in Nat /\ i \in 1..n
  BY LenProperties
<1>3. i \in 1..(n + 1)
  <2> HIDE DEF n
  <2> QED
    BY <1>2
<1>4. start \in Seq(S) /\ Len(start) = i - 1 /\ \A k \in 1..(i - 1) : start[k] = lines[k]
  BY <1>3, StartOf
<1>5. /\ end \in Seq(S) /\ Len(end) = n - i + 1
      /\ \A k \in 1..(n - i + 1) : end[k] = lines[i - 1 + k]
  BY <1>3, EndOf
<1>6. one \in Seq(S) /\ Len(one) = 1 /\ one[1] = lines[i]
  <2> DEFINE line == lines[i]
  <2>1. line \in S
    BY ElementOfSeq
  <2> HIDE DEF line
  <2>2. <<line>> \in Seq(S) /\ Len(<<line>>) = 1 /\ <<line>>[1] = line
    BY <2>1
  <2> QED
    BY <2>2 DEF line
<1> HIDE DEF start, end, one
<1>7. /\ longer \in Seq(S) /\ Len(longer) = Len(start) + Len(one)
      /\ \A k \in 1..(Len(start) + Len(one)) :
           longer[k] = IF k <= Len(start) THEN start[k] ELSE one[k - Len(start)]
  BY <1>4, <1>6, ConcatProperties
<1> HIDE DEF longer, n
<1>8. (i - 1) + 1 = i /\ i \in Nat /\ n - i + 1 \in Nat /\ i + (n - i + 1) = n + 1
  BY <1>2
<1>9. /\ Len(longer) = i
      /\ \A k \in 1..i : longer[k] = IF k <= i - 1 THEN start[k] ELSE one[k - (i - 1)]
  BY <1>4, <1>6, <1>7, <1>8
<1>10. /\ next \in Seq(S) /\ Len(next) = Len(longer) + Len(end)
       /\ \A k \in 1..(Len(longer) + Len(end)) :
            next[k] = IF k <= Len(longer) THEN longer[k] ELSE end[k - Len(longer)]
  <2>1. longer \in Seq(S) /\ end \in Seq(S)
    BY <1>5, <1>7
  <2> QED
    BY <2>1, ConcatProperties
<1> HIDE DEF next
<1>11. /\ Len(next) = n + 1
       /\ \A k \in 1..(n + 1) : next[k] = IF k <= i THEN longer[k] ELSE end[k - i]
  BY <1>5, <1>8, <1>9, <1>10
<1>12. ASSUME NEW k \in 1..Len(next)
       PROVE  \E j \in 1..Len(lines) : j - k <= 1 /\ k - j <= 1 /\ next[k] = lines[j]
  <2>1. k \in 1..(n + 1)
    BY <1>11
  <2>2. CASE k <= i - 1
    <3>1. k \in 1..(i - 1) /\ k \in 1..n /\ k - k <= 1 /\ k \in 1..i /\ k <= i
      BY <1>2, <2>1, <2>2
    <3>2. next[k] = lines[k]
      BY <1>4, <1>9, <1>11, <2>1, <2>2, <3>1
    <3> QED
      BY <3>1, <3>2 DEF n
  <2>3. CASE k = i
    <3>1. k \in 1..n /\ k - k <= 1 /\ k \in 1..i /\ k <= i /\ ~(k <= i - 1) /\ k - (i - 1) = 1
      BY <1>2, <2>1, <2>3
    <3>2. next[k] = lines[k]
      BY <1>6, <1>9, <1>11, <2>1, <2>3, <3>1
    <3> QED
      BY <3>1, <3>2 DEF n
  <2>4. CASE k > i
    <3>1. /\ k - i \in 1..(n - i + 1) /\ i - 1 + (k - i) = k - 1 /\ k - 1 \in 1..n
          /\ (k - 1) - k <= 1 /\ k - (k - 1) <= 1 /\ ~(k <= i)
      BY <1>2, <2>1, <2>4
    <3>2. next[k] = end[k - i]
      BY <1>11, <2>1, <3>1
    <3>3. next[k] = lines[k - 1]
      BY <1>5, <3>1, <3>2
    <3> QED
      BY <3>1, <3>3 DEF n
  <2> QED
    BY <1>2, <2>1, <2>2, <2>3, <2>4
<1>13. Displaced(next, lines, 1)
  BY <1>12 DEF Displaced
<1> QED
  BY <1>1, <1>10, <1>13

LEMMA SwappedLines ==
  ASSUME NEW S, NEW lines \in Seq(S), NEW i \in 1..(Len(lines) - 1)
  PROVE  Swapped(lines, i) \in Seq(S) /\ Displaced(Swapped(lines, i), lines, 1)
<1> DEFINE n == Len(lines)
           first == [lines EXCEPT ![i] = lines[i + 1]]
           next == [first EXCEPT ![i + 1] = lines[i]]
<1>1. Swapped(lines, i) = next
  BY DEF Swapped
<1>2. n \in Nat /\ i \in 1..n /\ i + 1 \in 1..n /\ i # i + 1
  <2>1. n \in Nat /\ i \in 1..(n - 1)
    BY LenProperties
  <2> HIDE DEF n
  <2> QED
    BY <2>1
<1>3. lines \in [1..n -> S]
  BY LenProperties
<1> HIDE DEF n
<1>4. first \in [1..n -> S] /\ \A k \in 1..n : first[k] = IF k = i THEN lines[i + 1] ELSE lines[k]
  BY <1>2, <1>3
<1> HIDE DEF first
<1>5. next \in [1..n -> S] /\ \A k \in 1..n : next[k] = IF k = i + 1 THEN lines[i] ELSE first[k]
  BY <1>2, <1>3, <1>4
<1> HIDE DEF next
<1>6. next \in Seq(S) /\ Len(next) = n
  BY <1>2, <1>5, SeqDef
<1>7. ASSUME NEW k \in 1..Len(next)
      PROVE  \E j \in 1..Len(lines) : j - k <= 1 /\ k - j <= 1 /\ next[k] = lines[j]
  <2>1. k \in 1..n
    BY <1>6
  <2>2. CASE k = i
    <3>1. next[k] = lines[i + 1] /\ (i + 1) - k <= 1 /\ k - (i + 1) <= 1
      BY <1>2, <1>4, <1>5, <2>1, <2>2
    <3> QED
      BY <1>2, <3>1 DEF n
  <2>3. CASE k = i + 1
    <3>1. next[k] = lines[i] /\ i - k <= 1 /\ k - i <= 1
      BY <1>2, <1>4, <1>5, <2>1, <2>3
    <3> QED
      BY <1>2, <3>1 DEF n
  <2>4. CASE k # i /\ k # i + 1
    <3>1. next[k] = lines[k] /\ k - k <= 1
      BY <1>2, <1>4, <1>5, <2>1, <2>4
    <3> QED
      BY <2>1, <3>1 DEF n
  <2> QED
    BY <2>2, <2>3, <2>4
<1>8. Displaced(next, lines, 1)
  BY <1>7 DEF Displaced
<1> QED
  BY <1>1, <1>6, <1>8

(* Pairs of bytes put together. *)
Pairs == {<<x, y>> : x \in Byte, y \in Byte}

LEMMA PairIs == ASSUME NEW p \in Pairs PROVE p \in Seq(Byte) /\ Len(p) = 2
<1>1. PICK x \in Byte, y \in Byte : p = <<x, y>>
  BY DEF Pairs
<1>2. <<x, y>> \in Seq(Byte) /\ Len(<<x, y>>) = 2
  OBVIOUS
<1> QED
  BY <1>1, <1>2

LEMMA PairsFlatten ==
  ASSUME NEW codes, NEW last \in Nat, last >= 1, Len(codes) = last,
         \A i \in 1..last : codes[i] \in Pairs
  PROVE  Tp!FlattenSeq(codes) \in Seq(Byte) /\ Len(Tp!FlattenSeq(codes)) = 2 * last
<1> DEFINE g == CHOOSE k : Flattens(k, codes, last)
<1>1. Tp!FlattenSeq(codes) = g[last]
  BY DEF Tp!FlattenSeq, Flattens
<1>2. Flattens(g, codes, last)
  BY FlattensExist
<1> HIDE DEF g
<1>3. ASSUME NEW i \in 1..last
      PROVE  g[i] = IF i = 1 THEN codes[i] ELSE g[i - 1] \o codes[i]
  BY <1>2 DEF Flattens
<1> DEFINE S == {n \in Nat : n \in 1..last => g[n] \in Seq(Byte) /\ Len(g[n]) = 2 * n}
<1>4. 0 \in S
  OBVIOUS
<1>5. ASSUME NEW n \in Nat, n \in S
      PROVE  n + 1 \in S
  <2> DEFINE m == n + 1
             one == codes[m]
             before == g[n]
             more == g[m]
  <2>1. SUFFICES ASSUME m \in 1..last
                 PROVE  more \in Seq(Byte) /\ Len(more) = 2 * m
    OBVIOUS
  <2>2. one \in Seq(Byte) /\ Len(one) = 2
    BY <2>1, PairIs
  <2>3. CASE n = 0
    <3>1. more = one /\ 2 * m = 2
      BY <1>3, <2>1, <2>3
    <3> QED
      BY <2>2, <3>1
  <2>4. CASE n # 0
    <3>1. n \in 1..last /\ m - 1 = n /\ m # 1
      BY <2>1, <2>4
    <3>2. before \in Seq(Byte) /\ Len(before) = 2 * n
      BY <1>5, <3>1
    <3>3. more = before \o one
      BY <1>3, <2>1, <3>1
    <3> HIDE DEF one, before, more
    <3>4. more \in Seq(Byte) /\ Len(more) = Len(before) + Len(one)
      BY <2>2, <3>2, <3>3, ConcatProperties
    <3>5. 2 * n + 2 = 2 * m
      OBVIOUS
    <3> QED
      BY <2>2, <3>2, <3>4, <3>5
  <2> QED
    BY <2>3, <2>4
<1> HIDE DEF S
<1>6. Nat \subseteq S
  BY <1>4, <1>5, Induction
<1> QED
  BY <1>1, <1>6 DEF S

(* The trouble codes' answers. *)
LEMMA CodesMessageIs ==
  ASSUME NEW codes, NEW last \in Nat, last >= 1, last <= 50, Len(codes) = last,
         \A i \in 1..last : codes[i] \in Pairs
  PROVE  Tp!CodesMessage(codes) \in Seq(Byte) /\ Len(Tp!CodesMessage(codes)) <= 118
<1> DEFINE flat == Tp!FlattenSeq(codes)
<1>1. flat \in Seq(Byte) /\ Len(flat) = 2 * last
  BY PairsFlatten
<1>2. Tp!CodesMessage(codes) = <<67, last>> \o flat
  BY DEF Tp!CodesMessage
<1>3. 67 \in Byte /\ last \in Byte
  BY DEF Byte
<1> HIDE DEF flat
<1> DEFINE message == <<67, last>> \o flat
<1>4. message \in Seq(Byte) /\ Len(message) = Len(flat) + 2
  BY <1>1, <1>3, TwiceHeaded
<1> HIDE DEF message
<1>5. Len(message) <= 118
  BY <1>1, <1>4
<1> QED
  BY <1>2, <1>4, <1>5 DEF message

LEMMA FreeMessages ==
  ASSUME NEW sent, sent = [ecu \in DOMAIN CodesOf |-> Tp!CodesMessage(CodesOf[ecu])]
  PROVE  Sending(sent) /\ \A ecu \in DOMAIN sent : Len(sent[ecu]) <= 118
<1>1. DOMAIN CodesOf = {"a", "b"}
  BY DEF CodesOf
<1>2. Tp!CodesMessage(CodesOf["a"]) \in Seq(Byte) /\ Len(Tp!CodesMessage(CodesOf["a"])) <= 118
  <2> DEFINE codes == [i \in 1..6 |-> <<1, i>>]
             last == 6
  <2>1. CodesOf["a"] = codes
    BY DEF CodesOf
  <2>2. ASSUME NEW i \in 1..last
        PROVE  codes[i] \in Pairs
    <3>1. codes[i] = <<1, i>> /\ 1 \in Byte /\ i \in Byte
      BY DEF Byte
    <3> QED
      BY <3>1 DEF Pairs
  <2>3. last \in Nat /\ last >= 1 /\ last <= 50 /\ Len(codes) = last
    OBVIOUS
  <2> HIDE DEF codes, last
  <2> QED
    BY <2>1, <2>2, <2>3, CodesMessageIs
<1>3. Tp!CodesMessage(CodesOf["b"]) \in Seq(Byte) /\ Len(Tp!CodesMessage(CodesOf["b"])) <= 118
  <2> DEFINE codes == <<<<2, 7>>, <<2, 8>>, <<2, 9>>>>
             last == 3
  <2>1. CodesOf["b"] = codes
    BY DEF CodesOf
  <2>2. ASSUME NEW i \in 1..last
        PROVE  codes[i] \in Pairs
    <3>1. i = 1 \/ i = 2 \/ i = 3
      OBVIOUS
    <3>2. codes[1] = <<2, 7>> /\ codes[2] = <<2, 8>> /\ codes[3] = <<2, 9>>
      OBVIOUS
    <3>3. 2 \in Byte /\ 7 \in Byte /\ 8 \in Byte /\ 9 \in Byte
      BY DEF Byte
    <3>4. <<2, 7>> \in Pairs /\ <<2, 8>> \in Pairs /\ <<2, 9>> \in Pairs
      BY <3>3 DEF Pairs
    <3> HIDE DEF codes
    <3> QED
      BY <3>1, <3>2, <3>4
  <2>3. last \in Nat /\ last >= 1 /\ last <= 50 /\ Len(codes) = last
    OBVIOUS
  <2> HIDE DEF codes, last
  <2> QED
    BY <2>1, <2>2, <2>3, CodesMessageIs
<1>4. DOMAIN sent = {"a", "b"}
  BY <1>1
<1>5. \A ecu \in DOMAIN sent : sent[ecu] \in Seq(Byte) /\ Len(sent[ecu]) <= 118
  BY <1>1, <1>2, <1>3
<1>6. \A ecu \in DOMAIN sent : sent[ecu] \in Seq(Byte) /\ Len(sent[ecu]) <= 4095
  <2>1. ASSUME NEW ecu \in DOMAIN sent
        PROVE  Len(sent[ecu]) <= 4095
    <3> DEFINE n == Len(sent[ecu])
    <3>1. n \in Nat /\ n <= 118
      BY <1>5, LenProperties
    <3> HIDE DEF n
    <3>2. n <= 4095
      BY <3>1
    <3> QED
      BY <3>2 DEF n
  <2> QED
    BY <1>5, <2>1
<1> QED
  BY <1>4, <1>5, <1>6 DEF Sending, Messages

(* A VIN's message. *)
LEMMA VinIs ==
  ASSUME NEW byte \in Byte
  PROVE  VinOf(byte) \in Seq(Byte) /\ Len(VinOf(byte)) = 20
<1> DEFINE head == <<73, 2, 1>>
           size == 17
           vin == [i \in 1..size |-> IF i = 9 THEN byte ELSE 50]
<1>1. head \in Seq(Byte) /\ Len(head) = 3
  BY DEF Byte
<1>2. vin \in Seq(Byte) /\ Len(vin) = size
  <2>1. 50 \in Byte
    BY DEF Byte
  <2>2. vin \in [1..size -> Byte]
    BY <2>1
  <2>3. size \in Nat
    OBVIOUS
  <2> HIDE DEF vin, size
  <2> QED
    BY <2>2, <2>3, SeqDef
<1>3. VinOf(byte) = head \o vin /\ 3 + size = 20
  BY DEF VinOf
<1> HIDE DEF head, vin, size
<1>4. head \o vin \in Seq(Byte) /\ Len(head \o vin) = Len(head) + Len(vin)
  BY <1>1, <1>2, ConcatProperties
<1> QED
  BY <1>1, <1>2, <1>3, <1>4

(* A long message is the only one.                                         *)
LEMMA KeptMessagesAre ==
  ASSUME NEW sent \in KeptMessages
  PROVE  /\ Sending(sent)
         /\ DOMAIN sent = {"a"} \/ \A ecu \in DOMAIN sent : Len(sent[ecu]) <= 118
<1> DEFINE long == [i \in 1..LongMessage |-> i % 256]
<1>1. long \in Seq(Byte) /\ Len(long) <= 4095
  <2>1. LongMessage \in Nat /\ LongMessage <= 4095
    BY AnswersAssumption
  <2>2. \A i \in 1..LongMessage : i % 256 \in Byte
    BY <2>1 DEF Byte
  <2>3. long \in [1..LongMessage -> Byte]
    BY <2>2
  <2> HIDE DEF long
  <2>4. long \in Seq(Byte) /\ Len(long) = LongMessage
    BY <2>1, <2>3, SeqDef
  <2> QED
    BY <2>1, <2>4
<1> HIDE DEF long
<1>2. CASE sent = [a |-> long]
  <2>1. DOMAIN sent = {"a"} /\ sent["a"] = long
    BY <1>2
  <2> QED
    BY <1>1, <2>1 DEF Sending, Messages
<1>3. CASE \E x \in Byte, y \in Byte : sent = [a |-> VinOf(x), b |-> VinOf(y)]
  <2>1. PICK x \in Byte, y \in Byte : sent = [a |-> VinOf(x), b |-> VinOf(y)]
    BY <1>3
  <2>2. DOMAIN sent = {"a", "b"} /\ sent["a"] = VinOf(x) /\ sent["b"] = VinOf(y)
    BY <2>1
  <2>3. /\ VinOf(x) \in Seq(Byte) /\ Len(VinOf(x)) <= 118 /\ Len(VinOf(x)) <= 4095
        /\ VinOf(y) \in Seq(Byte) /\ Len(VinOf(y)) <= 118 /\ Len(VinOf(y)) <= 4095
    <3>1. VinOf(x) \in Seq(Byte) /\ Len(VinOf(x)) = 20
      BY VinIs
    <3>2. VinOf(y) \in Seq(Byte) /\ Len(VinOf(y)) = 20
      BY VinIs
    <3> QED
      BY <3>1, <3>2
  <2>4. \A ecu \in DOMAIN sent : /\ sent[ecu] \in Seq(Byte) /\ Len(sent[ecu]) <= 118
                                 /\ Len(sent[ecu]) <= 4095
    BY <2>2, <2>3
  <2> QED
    BY <2>2, <2>4 DEF Sending, Messages
<1>4. 65 \in Byte /\ 66 \in Byte
  BY DEF Byte
<1>5. \/ sent = [a |-> long]
      \/ sent = [a |-> VinOf(65), b |-> VinOf(65)]
      \/ sent = [a |-> VinOf(65), b |-> VinOf(66)]
  BY DEF KeptMessages, long
<1> QED
  BY <1>2, <1>3, <1>4, <1>5

(* A sequence, and the places of what is in it. *)
LEMMA OwnRange ==
  ASSUME NEW S, NEW s \in Seq(S)
  PROVE  s \in Seq(Range(s)) /\ Displaced(s, s, 0)
<1>1. Len(s) \in Nat /\ DOMAIN s = 1..Len(s) /\ s \in [1..Len(s) -> S]
  BY LenProperties
<1>2. s \in [1..Len(s) -> Range(s)]
  BY <1>1 DEF Range
<1>3. s \in Seq(Range(s))
  BY <1>1, <1>2, SeqDef
<1>4. ASSUME NEW k \in 1..Len(s)
      PROVE  k - k <= 0
  BY <1>1
<1> QED
  BY <1>3, <1>4 DEF Displaced

(* At the beginning nothing is received, or all of it.                     *)
LEMMA AnswersBegin == Init => AnswersKnown
<1>1. ASSUME Init, subject = "free"
      PROVE  /\ input.sent = [ecu \in DOMAIN CodesOf |-> Tp!CodesMessage(CodesOf[ecu])]
             /\ input = [lines |-> input.lines, ready |-> input.ready, sent |-> input.sent]
             /\ input.lines \in Seq(Lines)
  <2> DEFINE sent == [ecu \in DOMAIN CodesOf |-> Tp!CodesMessage(CodesOf[ecu])]
  <2>1. PICK ready : input = [lines |-> <<>>, ready |-> ready, sent |-> sent]
    BY <1>1 DEF Init, CanInit, AnswerInit, PidsInit, MarksInit, StreamInit, TrafficInit,
                CompareInit, DeviceInit, ScopesInit
  <2> HIDE DEF sent
  <2>2. /\ input.lines = <<>> /\ input.sent = sent
        /\ input = [lines |-> input.lines, ready |-> input.ready, sent |-> input.sent]
    BY <2>1
  <2>3. <<>> \in Seq(Lines)
    BY EmptySeq
  <2> QED
    BY <2>2, <2>3 DEF sent
<1>2. ASSUME Init, subject = "kept"
      PROVE  /\ input.sent \in KeptMessages /\ input.faults \in 0..MaxFaults
             /\ input = [lines |-> input.lines, sent |-> input.sent, faults |-> input.faults]
             /\ input.lines \in Seq(Range(Whole(input.sent, "a", "b")))
             /\ Displaced(input.lines, Whole(input.sent, "a", "b"), input.faults)
  <2>1. PICK sent \in KeptMessages :
          input = [lines |-> Whole(sent, "a", "b"), sent |-> sent, faults |-> 0]
    BY <1>2 DEF Init, CanInit, AnswerInit, PidsInit, MarksInit, StreamInit, TrafficInit,
                CompareInit, DeviceInit, ScopesInit
  <2> DEFINE whole == Whole(sent, "a", "b")
  <2>2. whole \in Seq(Range(whole)) /\ Displaced(whole, whole, 0)
    <3>1. Sending(sent)
      BY KeptMessagesAre
    <3>2. whole \in Seq(UNION {Frames(ecu) : ecu \in DOMAIN sent})
      BY <3>1, WholeIs
    <3> HIDE DEF whole
    <3> QED
      BY <3>2, OwnRange
  <2>3. input.lines = whole /\ input.sent = sent /\ input.faults = 0
        /\ input = [lines |-> input.lines, sent |-> input.sent, faults |-> input.faults]
    <3> HIDE DEF whole
    <3>1. input = [lines |-> whole, sent |-> sent, faults |-> 0]
      BY <2>1 DEF whole
    <3> QED
      BY <3>1
  <2>4. 0 \in 0..MaxFaults
    BY AnswersAssumption
  <2> QED
    BY <2>2, <2>3, <2>4
<1> QED
  BY <1>1, <1>2 DEF AnswersKnown

(* Another line of a free answer. *)
LEMMA ReceiveStep ==
  ASSUME AnswersKnown, subject = "free", NEW line \in Lines, Receive(line)
  PROVE  AnswersKnown'
<1>1. /\ input.sent = [ecu \in DOMAIN CodesOf |-> Tp!CodesMessage(CodesOf[ecu])]
      /\ input = [lines |-> input.lines, ready |-> input.ready, sent |-> input.sent]
      /\ input.lines \in Seq(Lines)
  BY DEF AnswersKnown
<1> DEFINE more == Append(input.lines, line)
<1>2. subject' = subject /\ input' = [input EXCEPT !.lines = more]
  BY DEF Receive
<1>3. more \in Seq(Lines)
  <2> DEFINE lines == input.lines
             all == Lines
  <2>1. lines \in Seq(all) /\ line \in all
    BY <1>1
  <2> HIDE DEF lines, all
  <2>2. Append(lines, line) \in Seq(all)
    BY <2>1, AppendProperties
  <2> QED
    BY <2>2 DEF lines, all
<1> HIDE DEF more
<1>4. /\ input'.lines = more /\ input'.sent = input.sent
      /\ input' = [lines |-> input'.lines, ready |-> input'.ready, sent |-> input'.sent]
  BY <1>1, <1>2
<1>5. Lines' = Lines
  BY <1>4 DEF Lines
<1> QED
  BY <1>1, <1>2, <1>3, <1>4, <1>5 DEF AnswersKnown

(* Another fault. *)
LEMMA FaultyStep ==
  ASSUME AnswersKnown, subject = "kept", NEW next, Faulty(next),
         next \in Seq(Range(Whole(input.sent, "a", "b"))), Displaced(next, input.lines, 1)
  PROVE  AnswersKnown'
<1> DEFINE whole == Whole(input.sent, "a", "b")
           now == input.faults + 1
<1>1. /\ input.sent \in KeptMessages /\ input.faults \in 0..MaxFaults
      /\ input = [lines |-> input.lines, sent |-> input.sent, faults |-> input.faults]
      /\ input.lines \in Seq(Range(whole)) /\ Displaced(input.lines, whole, input.faults)
  BY DEF AnswersKnown
<1>2. subject' = subject /\ input.faults < MaxFaults
      /\ input' = [input EXCEPT !.lines = next, !.faults = now]
  BY DEF Faulty
<1>3. /\ input'.lines = next /\ input'.sent = input.sent /\ input'.faults = now
      /\ input' = [lines |-> input'.lines, sent |-> input'.sent, faults |-> input'.faults]
  <2> HIDE DEF now
  <2> QED
    BY <1>1, <1>2
<1>4. now \in 0..MaxFaults /\ input.faults \in Nat
  BY <1>1, <1>2, AnswersAssumption
<1>5. Len(whole) \in Nat
  <2>1. Sending(input.sent)
    BY <1>1, KeptMessagesAre
  <2>2. whole \in Seq(UNION {Frames(ecu) : ecu \in DOMAIN input.sent})
    BY <2>1, WholeIs
  <2> HIDE DEF whole
  <2> QED
    BY <2>2, LenProperties
<1>6. whole' = whole
  BY <1>3
<1>7. next \in Seq(Range(whole)) /\ Displaced(next, input.lines, 1)
  OBVIOUS
<1> HIDE DEF whole
<1>8. Displaced(next, whole, now)
  <2> DEFINE lines == input.lines
             faults == input.faults
             S == Range(whole)
  <2>1. /\ lines \in Seq(S) /\ faults \in Nat /\ Displaced(lines, whole, faults)
        /\ next \in Seq(S) /\ Displaced(next, lines, 1)
    BY <1>1, <1>4, <1>7
  <2> HIDE DEF lines, faults, S
  <2>2. Displaced(next, whole, faults + 1)
    BY <1>5, <2>1, OneFaultMore
  <2> QED
    BY <2>2 DEF faults
<1> HIDE DEF now
<1>9. /\ input'.sent \in KeptMessages /\ input'.faults \in 0..MaxFaults
      /\ input'.lines \in Seq(Range(whole')) /\ Displaced(input'.lines, whole', input'.faults)
  BY <1>1, <1>3, <1>4, <1>6, <1>7, <1>8
<1> QED
  BY <1>2, <1>3, <1>9 DEF AnswersKnown, whole

(* No action takes what is known of an answer from it.                     *)
LEMMA AnswersNext ==
  ASSUME AnswersKnown, [Next]_vars
  PROVE  AnswersKnown'
<1>1. CASE Next /\ subject \in {"free", "kept"}
  <2>2. /\ \A pid : ~Support(pid)
        /\ \A f, pause : ~See(f, pause)
        /\ \A which, key : ~SeeIn(which, key)
        /\ ~Renumber
    BY <1>1 DEF Support, See, SeeIn, Renumber
  <2>3. /\ \A text : ~Describe(text)
        /\ \A more : ~Reply(more)
        /\ \A code : ~ReplyException(code)
    BY <1>1 DEF Describe, Reply, ReplyException
  <2>4. /\ \A n, overflow, stop : ~Deliver(n, overflow, stop)
        /\ \A ended : ~DeliverNothing(ended)
    BY <1>1 DEF Deliver, DeliverNothing, Streaming
  <2>5. /\ \A char : ~ReceiveChar(char)
        /\ ~ReadNext
    BY <1>1 DEF ReceiveChar, ReadNext
  <2>6. AnswerNext
    BY <1>1, <2>2, <2>3, <2>4, <2>5 DEF Next
  <2>7. CASE subject = "free"
    <3>1. PICK line \in Lines : Receive(line)
      BY <2>6, <2>7 DEF AnswerNext
    <3> QED
      BY <2>7, <3>1, ReceiveStep
  <2>8. CASE subject = "kept"
    <3> DEFINE lines == input.lines
               S == Range(Whole(input.sent, "a", "b"))
    <3>1. lines \in Seq(S)
      BY <2>8 DEF AnswersKnown
    <3>2. \/ \E i \in DOMAIN lines : Faulty(RemoveAt(lines, i))
          \/ \E i \in DOMAIN lines : Faulty(InsertAt(lines, i, lines[i]))
          \/ \E i \in 1..(Len(lines) - 1) : Faulty(Swapped(lines, i))
      BY <2>6, <2>8 DEF AnswerNext
    <3> HIDE DEF lines, S
    <3>3. DOMAIN lines = 1..Len(lines)
      BY <3>1, LenProperties
    <3>4. PICK next : /\ Faulty(next) /\ next \in Seq(S) /\ Displaced(next, lines, 1)
      <4>1. CASE \E i \in DOMAIN lines : Faulty(RemoveAt(lines, i))
        BY <3>1, <3>3, <4>1, LostLine
      <4>2. CASE \E i \in DOMAIN lines : Faulty(InsertAt(lines, i, lines[i]))
        BY <3>1, <3>3, <4>2, RepeatedLine
      <4>3. CASE \E i \in 1..(Len(lines) - 1) : Faulty(Swapped(lines, i))
        BY <3>1, <4>3, SwappedLines
      <4> QED
        BY <3>2, <4>1, <4>2, <4>3
    <3> QED
      BY <2>8, <3>4, FaultyStep DEF lines, S
  <2> QED
    BY <1>1, <2>7, <2>8
<1>2. CASE Next /\ subject \notin {"free", "kept"}
  <2>1. subject' = subject
    BY <1>2, SubjectStays
  <2> QED
    BY <1>2, <2>1 DEF AnswersKnown
<1>3. CASE UNCHANGED vars
  <2>1. subject' = subject /\ input' = input
    BY <1>3 DEF vars
  <2>2. Lines' = Lines
    BY <2>1 DEF Lines
  <2> QED
    BY <2>1, <2>2 DEF AnswersKnown
<1> QED
  BY <1>1, <1>2, <1>3

(* What is known of an answer makes its payloads those that were sent.     *)
LEMMA KnownIsSent == AnswersKnown => PayloadsAreSent
<1> SUFFICES ASSUME AnswersKnown, subject \in {"free", "kept"}, Tp!Scoped(input.lines) # Failed
             PROVE  AsSent(input.lines, input.sent, Tp!Scoped(input.lines).payloads)
  BY DEF PayloadsAreSent, Answers, AsSent
<1> DEFINE lines == input.lines
           sent == input.sent
<1>1. Sending(sent)
  <2>1. CASE subject = "free"
    BY <2>1, FreeMessages DEF AnswersKnown
  <2>2. CASE subject = "kept"
    BY <2>2, KeptMessagesAre DEF AnswersKnown
  <2> QED
    BY <2>1, <2>2
<1> DEFINE whole == Whole(sent, "a", "b")
           S == Range(whole) \cup {Tp!NoData, Tp!AdapterError, Tp!Frame("a", <<48, 0, 0>>)}
<1>2. lines \in Seq(S)
  <2>1. CASE subject = "free"
    BY <2>1 DEF AnswersKnown, Lines
  <2>2. CASE subject = "kept"
    <3>1. lines \in Seq(Range(whole))
      BY <2>2 DEF AnswersKnown
    <3> DEFINE R == Range(whole)
    <3>2. R \subseteq S /\ lines \in Seq(R)
      BY <3>1
    <3> HIDE DEF lines, S, R
    <3> QED
      BY <3>2, WiderSeq
  <2> QED
    BY <2>1, <2>2
<1>3. ASSUME NEW line \in S
      PROVE  LineFrom(sent, line)
  <2> HIDE DEF lines, sent
  <2>1. CASE line \in Range(whole)
    BY <1>1, <2>1, WholeLines
  <2>2. CASE line \in {Tp!NoData, Tp!AdapterError}
    <3>1. Tp!NoData.kind # "frame"
      BY DEF Tp!NoData, Tp!Word
    <3>2. Tp!AdapterError.kind # "frame"
      BY DEF Tp!AdapterError, Tp!Word
    <3>3. line.kind # "frame"
      BY <2>2, <3>1, <3>2
    <3> QED
      BY <3>3 DEF LineFrom
  <2>3. CASE line = Tp!Frame("a", <<48, 0, 0>>)
    <3>1. line.ecu = "a" /\ line.data = <<48, 0, 0>>
      BY <2>3 DEF Tp!Frame
    <3>2. <<48, 0, 0>>[1] = 48 /\ 48 \div 16 = 3
      OBVIOUS
    <3>3. Passed(line.data)
      BY <3>1, <3>2 DEF Passed
    <3>4. "a" \in DOMAIN sent
      BY <1>1 DEF Sending
    <3> QED
      BY <3>1, <3>3, <3>4 DEF LineFrom
  <2> QED
    BY <2>1, <2>2, <2>3
<1>4. ASSUME NEW ecu \in DOMAIN sent, Tp!Responder(lines, ecu).done
      PROVE  Tp!Responder(lines, ecu).payload = sent[ecu]
  <2> DEFINE message == sent[ecu]
  <2>1. message \in Seq(Byte) /\ Len(message) <= 4095
    BY <1>1 DEF Sending, Messages
  <2>2. CASE Len(message) <= 118
    <3>1. Messages(sent)
      BY <1>1 DEF Sending
    <3> HIDE DEF lines, sent, S
    <3> QED
      BY <1>2, <1>3, <1>4, <2>2, <3>1, ShortIsAsSent
  <2>3. CASE ~(Len(message) <= 118)
    <3>1. subject = "kept"
      BY <2>3, FreeMessages DEF AnswersKnown
    <3>2. DOMAIN sent = {"a"}
      BY <2>3, <3>1, KeptMessagesAre DEF AnswersKnown
    <3>3. ecu = "a" /\ whole = Tp!Segmented(ecu, message)
      BY <1>1, <3>2, WholeIs
    <3> DEFINE faults == input.faults
    <3>4. /\ faults \in Nat /\ faults <= 7 /\ lines \in Seq(Range(whole))
          /\ Displaced(lines, whole, faults)
      <4>1. faults \in 0..MaxFaults /\ lines \in Seq(Range(whole)) /\ Displaced(lines, whole, faults)
        BY <3>1 DEF AnswersKnown
      <4> QED
        BY <4>1, AnswersAssumption
    <3>5. Len(message) >= 8
      <4> DEFINE n == Len(message)
      <4>1. n \in Nat /\ ~(n <= 118)
        BY <2>1, <2>3, LenProperties
      <4> HIDE DEF n
      <4>2. n >= 8
        BY <4>1
      <4> QED
        BY <4>2 DEF n
    <3>6. Range(whole) \subseteq Frames(ecu)
      <4> HIDE DEF message
      <4>1. whole \in Seq(Frames(ecu))
        BY <2>1, <3>3, SegmentedLines
      <4> HIDE DEF whole
      <4>2. DOMAIN whole = 1..Len(whole) /\ \A i \in 1..Len(whole) : whole[i] \in Frames(ecu)
        BY <4>1, LenProperties, ElementOfSeq
      <4> QED
        BY <4>2 DEF Range
    <3>7. lines \in Seq(Frames(ecu))
      <4> DEFINE R == Range(whole)
                 F == Frames(ecu)
      <4>1. lines \in Seq(R) /\ R \subseteq F
        BY <3>4, <3>6
      <4> HIDE DEF lines, R, F
      <4>2. lines \in Seq(F)
        BY <4>1, WiderSeq
      <4> QED
        BY <4>2 DEF F
    <3>8. Displaced(lines, Tp!Segmented(ecu, message), faults)
      BY <3>3, <3>4
    <3> HIDE DEF lines, message, faults, whole
    <3>9. Tp!Responder(lines, ecu).payload = message
      BY <1>4, <2>1, <3>4, <3>5, <3>7, <3>8, LongIsAsSent
    <3> QED
      BY <3>9 DEF message
  <2> QED
    BY <2>2, <2>3
<1>5. Messages(sent) /\ Theirs(lines, sent)
  <2>1. ASSUME NEW k \in 1..Len(lines), lines[k].kind = "frame"
        PROVE  lines[k].ecu \in DOMAIN sent
    <3> DEFINE line == lines[k]
    <3>1. line \in S
      <4> HIDE DEF lines, S
      <4> QED
        BY <1>2, ElementOfSeq
    <3> HIDE DEF lines, sent, S
    <3>2. LineFrom(sent, line)
      BY <1>3, <3>1
    <3> QED
      BY <2>1, <3>2 DEF LineFrom
  <2> QED
    BY <1>1, <2>1 DEF Sending, Theirs
<1>6. Tp!Scoped(lines) # Failed
  OBVIOUS
<1> HIDE DEF lines, sent, S
<1>7. AsSent(lines, sent, Tp!Scoped(lines).payloads)
  BY <1>2, <1>4, <1>5, <1>6, SentIsScoped
<1> QED
  BY <1>7 DEF lines, sent

(* Whatever up to seven faults lose, repeat or exchange of an answer of    *)
(* ECUs, and whichever lines come in whatever order and number, a payload  *)
(* that is accepted is the message its ECU sent, and an ECU whose lines    *)
(* all arrive is decoded (obd_protocol.py:106, obd_service.py:254).        *)
THEOREM AnswersAreRead == Spec => []PayloadsAreSent
<1>1. AnswersKnown /\ [Next]_vars => AnswersKnown'
  BY AnswersNext
<1> QED
  BY <1>1, AnswersBegin, KnownIsSent, PTL DEF Spec
================================================================================
