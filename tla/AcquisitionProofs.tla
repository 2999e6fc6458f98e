-------------------------- MODULE AcquisitionProofs --------------------------
(* What acquisition records is what was there, whatever the reads bring:   *)
(* the Pico driver's polls, and the receive lane's reads of a tty that     *)
(* marks errors; what discovery reads of a Modbus device's answer; and     *)
(* which networks it may ask.  The loops are recursive functions over the  *)
(* polls, the bytes and the objects; what they compute is proved by        *)
(* induction over the naturals.                                            *)
EXTENDS MCDecoders, SequenceTheorems, WellFoundedInduction, TLAPS

(* Induction over data: a set of numbers that is not empty has a least     *)
(* element, and what holds of zero and of each next number holds of all.   *)
LEMMA Least ==
  ASSUME NEW T \in SUBSET Nat, T # {}
  PROVE  \E n \in T : \A m \in T : n <= m
<1> DEFINE R == OpToRel(<, Nat)
<1>1. IsWellFoundedOn(R, Nat)
  BY NatLessThanWellFounded
<1>2. \A m, n \in Nat : m < n => <<m, n>> \in R
  BY DEF OpToRel
<1> HIDE DEF R
<1>3. PICK n \in T : \A m \in T : <<m, n>> \notin R
  BY <1>1, WFMin
<1>4. ASSUME NEW m \in T
      PROVE  n <= m
  <2>1. m \in Nat /\ n \in Nat
    OBVIOUS
  <2>2. ~(m < n)
    BY <1>2, <1>3, <2>1
  <2> QED
    BY <2>1, <2>2
<1> QED
  BY <1>4

LEMMA Induction ==
  ASSUME NEW S, 0 \in S, \A n \in Nat : n \in S => n + 1 \in S
  PROVE  Nat \subseteq S
<1>1. SUFFICES ASSUME Nat \ S # {} PROVE FALSE
  OBVIOUS
<1>2. PICK n \in Nat \ S : \A m \in Nat \ S : n <= m
  BY <1>1, Least
<1>3. n - 1 \in Nat /\ n - 1 + 1 = n
  BY <1>2
<1>4. n - 1 \in S
  BY <1>2, <1>3
<1> QED
  BY <1>2, <1>3, <1>4

--------------------------------------------------------------------------------
(* A segment that fits into the driver's buffer and follows what the       *)
(* callback was handed before.                                             *)
Follows(s, poll, chunk) ==
  /\ s.buffer \in [1..chunk -> Nat]
  /\ poll.samples \in Seq(Nat)
  /\ poll.start \in 1..chunk /\ poll.start + Len(poll.samples) - 1 <= chunk
  /\ \A i \in 1..Len(poll.samples) : poll.samples[i] = Len(s.complete) + i

(* How many samples of a segment are still wanted. *)
Wanted(s, poll, total) ==
  IF Len(poll.samples) <= total - Len(s.complete) THEN Len(poll.samples)
  ELSE total - Len(s.complete)

LEMMA WantedIsMin ==
  ASSUME NEW a \in Int, NEW b \in Int
  PROVE  Pico!Min({a, b}) = IF a <= b THEN a ELSE b
<1>1. \E x \in {a, b} : \A y \in {a, b} : x <= y
  OBVIOUS
<1>2. Pico!Min({a, b}) \in {a, b} /\ \A y \in {a, b} : Pico!Min({a, b}) <= y
  BY <1>1 DEF Pico!Min
<1> QED
  BY <1>2

LEMMA WantedIs ==
  ASSUME NEW have \in Nat, NEW sent \in Nat, NEW total \in Nat, have <= total
  PROVE  LET n == IF sent <= total - have THEN sent ELSE total - have
         IN  n \in Nat /\ n <= sent /\ have + n <= total
OBVIOUS

(* A stretch of the buffer that holds consecutive samples. *)
LEMMA Stretch ==
  ASSUME NEW memory, NEW start \in Nat \ {0}, NEW n \in Nat, NEW have \in Nat,
         \A i \in 1..n : memory[start + i - 1] = have + i
  PROVE  /\ SubSeq(memory, start, start + n - 1) \in Seq(Nat)
         /\ Len(SubSeq(memory, start, start + n - 1)) = n
         /\ \A i \in 1..n : SubSeq(memory, start, start + n - 1)[i] = memory[start + i - 1]
<1> DEFINE last == start + n - 1
<1>1. last \in Int /\ last - start + 1 = n /\ (start <= last <=> n # 0)
  OBVIOUS
<1>2. ASSUME NEW j \in start..last
      PROVE  memory[j] \in Nat
  <2>1. j - start + 1 \in 1..n /\ start + (j - start + 1) - 1 = j
    BY <1>2
  <2>2. memory[j] = have + (j - start + 1)
    BY <2>1
  <2>3. have + (j - start + 1) \in Nat
    BY <2>1
  <2> QED
    BY <2>2, <2>3
<1> HIDE DEF last
<1>3. /\ SubSeq(memory, start, last) \in Seq(Nat)
      /\ Len(SubSeq(memory, start, last)) = IF start <= last THEN last - start + 1 ELSE 0
      /\ \A i \in 1..(last - start + 1) : SubSeq(memory, start, last)[i] = memory[start + i - 1]
  <2>1. start \in Int
    OBVIOUS
  <2> QED
    BY <1>1, <1>2, <2>1, SubSeqProperties
<1>4. Len(SubSeq(memory, start, last)) = n
  BY <1>1, <1>3
<1>5. \A i \in 1..n : SubSeq(memory, start, last)[i] = memory[start + i - 1]
  BY <1>1, <1>3
<1> QED
  BY <1>3, <1>4, <1>5 DEF last

(* What the callback copies of the driver's buffer. *)
LEMMA SegmentIs ==
  ASSUME NEW chunk \in Nat, NEW total \in Nat, NEW s, NEW poll,
         Pico!Copied(s, total), Follows(s, poll, chunk)
  PROVE  LET count == Wanted(s, poll, total)
             segment == Pico!Segment(Pico!Written(s.buffer, poll), poll.start, count)
         IN  /\ segment \in Seq(Nat) /\ Len(segment) = count
             /\ \A i \in 1..count : segment[i] = Len(s.complete) + i
<1> DEFINE count == Wanted(s, poll, total)
           full == Pico!Written(s.buffer, poll)
           copied == Len(s.complete)
           sent == Len(poll.samples)
           place == poll.start
<1>1. /\ copied \in Nat /\ sent \in Nat /\ copied <= total /\ place \in Nat \ {0}
      /\ place + sent - 1 <= chunk
  BY LenProperties DEF Pico!Copied, Follows
<1>2. count = IF sent <= total - copied THEN sent ELSE total - copied
  BY DEF Wanted
<1>3. /\ DOMAIN s.buffer = 1..chunk
      /\ \A i \in 1..sent : poll.samples[i] = copied + i
  BY DEF Follows
<1>4. \A j \in DOMAIN s.buffer :
        j >= place /\ j < place + sent => full[j] = poll.samples[j - place + 1]
  BY DEF Pico!Written
<1> HIDE DEF count, full, copied, sent, place
<1>5. count \in Nat /\ count <= sent
  BY <1>1, <1>2, WantedIs
<1>6. ASSUME NEW i \in 1..count
      PROVE  full[place + i - 1] = copied + i
  <2>1. /\ place + i - 1 \in 1..chunk /\ i \in 1..sent
        /\ place + i - 1 >= place /\ place + i - 1 < place + sent
        /\ (place + i - 1) - place + 1 = i
    BY <1>1, <1>5
  <2> DEFINE j == place + i - 1
  <2>2. j \in DOMAIN s.buffer /\ j >= place /\ j < place + sent /\ j - place + 1 = i
    BY <1>3, <2>1
  <2> HIDE DEF j
  <2>3. full[j] = poll.samples[i]
    BY <1>4, <2>2
  <2> QED
    BY <1>3, <2>1, <2>3 DEF j
<1>7. copied \in Nat /\ place \in Nat \ {0} /\ count \in Nat
  BY <1>1, <1>5
<1>8. \A i \in 1..count : full[place + i - 1] = copied + i
  BY <1>6
<1>9. SubSeq(full, place, place + count - 1) \in Seq(Nat)
  BY <1>7, <1>8, Stretch
<1>10. Len(SubSeq(full, place, place + count - 1)) = count
  BY <1>7, <1>8, Stretch
<1>11. ASSUME NEW i \in 1..count
       PROVE  SubSeq(full, place, place + count - 1)[i] = copied + i
  <2>1. SubSeq(full, place, place + count - 1)[i] = full[place + i - 1]
    BY <1>7, <1>8, <1>11, Stretch
  <2> QED
    BY <1>8, <2>1
<1> QED
  BY <1>9, <1>10, <1>11 DEF count, full, copied, place, Pico!Segment

(* The callback appends what it copied and remembers what overflowed.      *)
LEMMA CallbackIs ==
  ASSUME NEW chunk \in Nat, NEW channels, NEW total \in Nat,
         NEW s \in Pico!Captures(chunk, channels), NEW poll \in Pico!Polls(chunk, channels),
         Pico!Copied(s, total), Follows(s, poll, chunk)
  PROVE  LET called == Pico!Callback(s, poll, total)
         IN  /\ called \in Pico!Captures(chunk, channels)
             /\ Pico!Copied(called, total)
             /\ Len(called.complete) = Len(s.complete) + Wanted(s, poll, total)
             /\ called.overflow = s.overflow \cup poll.overflow
<1> DEFINE count == Wanted(s, poll, total)
           part == Pico!Segment(Pico!Written(s.buffer, poll), poll.start, count)
           called == Pico!Callback(s, poll, total)
           have == Len(s.complete)
           sent == Len(poll.samples)
<1>1. /\ s.complete \in Seq(Nat) /\ have \in Nat /\ sent \in Nat /\ have <= total
      /\ \A i \in 1..have : s.complete[i] = i
  BY LenProperties DEF Pico!Copied, Follows
<1>2. /\ count = IF sent <= total - have THEN sent ELSE total - have
      /\ count \in Nat /\ have + count <= total
  <2>1. count = IF sent <= total - have THEN sent ELSE total - have
    BY DEF Wanted
  <2> HIDE DEF count, have, sent
  <2> QED
    BY <1>1, <2>1, WantedIs
<1>3. /\ part \in Seq(Nat) /\ Len(part) = count
      /\ \A i \in 1..count : part[i] = have + i
  BY SegmentIs
<1>4. /\ called.buffer = Pico!Written(s.buffer, poll) /\ called.complete = s.complete \o part
      /\ called.overflow = s.overflow \cup poll.overflow
      /\ called.stop = poll.stop /\ called.ended = s.ended
      /\ called = [buffer |-> called.buffer, complete |-> called.complete,
                   overflow |-> called.overflow, stop |-> called.stop, ended |-> called.ended]
  <2>1. Pico!Min({sent, total - have}) = count
    <3>1. sent \in Int /\ total - have \in Int
      BY <1>1
    <3> HIDE DEF count, have, sent
    <3> QED
      BY <1>2, <3>1, WantedIsMin
  <2>2. called = [s EXCEPT !.buffer = Pico!Written(s.buffer, poll),
                           !.complete = @ \o part,
                           !.overflow = @ \cup poll.overflow,
                           !.stop = poll.stop]
    BY <2>1 DEF Pico!Callback
  <2> HIDE DEF called, part
  <2> QED
    BY <2>2 DEF Pico!Captures
<1>5. Pico!Written(s.buffer, poll) \in [1..chunk -> Nat]
  <2>1. ASSUME NEW i \in 1..chunk, i >= poll.start, i < poll.start + sent
        PROVE  poll.samples[i - poll.start + 1] \in Nat
    <3>1. i - poll.start + 1 \in 1..sent
      BY <1>1, <2>1 DEF Pico!Polls
    <3> QED
      BY <3>1, ElementOfSeq DEF Pico!Polls
  <2> QED
    BY <2>1 DEF Pico!Written, Pico!Captures
<1> HIDE DEF count, part, called, have, sent
<1>6. /\ s.complete \o part \in Seq(Nat) /\ Len(s.complete \o part) = have + count
      /\ \A i \in 1..(have + count) :
           (s.complete \o part)[i] = IF i <= have THEN s.complete[i] ELSE part[i - have]
  BY <1>1, <1>3, ConcatProperties DEF have
<1>7. ASSUME NEW i \in 1..(have + count)
      PROVE  (s.complete \o part)[i] = i
  <2>1. CASE i <= have
    <3>1. i \in 1..have
      BY <1>1, <1>2, <2>1
    <3> QED
      BY <1>1, <1>6, <2>1, <3>1
  <2>2. CASE ~(i <= have)
    <3>1. i - have \in 1..count /\ have + (i - have) = i
      BY <1>1, <1>2, <2>2
    <3> QED
      BY <1>3, <1>6, <2>2, <3>1
  <2> QED
    BY <2>1, <2>2
<1>8. Pico!Copied(called, total) /\ Len(called.complete) = have + count
  BY <1>2, <1>4, <1>6, <1>7 DEF Pico!Copied
<1>9. called \in Pico!Captures(chunk, channels)
  BY <1>4, <1>5, <1>6 DEF Pico!Captures, Pico!Polls
<1> QED
  BY <1>4, <1>8, <1>9 DEF called, have, count

(* A poll of a capture that goes on adds every sample of its segment that  *)
(* is still wanted, once and in its place, wherever in the driver's buffer *)
(* it lies (pico.py:140, 167).                                             *)
THEOREM PollsAreCopiedOnce ==
  ASSUME NEW chunk \in Nat, NEW channels, NEW total \in Nat,
         NEW s \in Pico!Captures(chunk, channels), NEW poll \in Pico!Polls(chunk, channels),
         Pico!Copied(s, total), Follows(s, poll, chunk)
  PROVE  /\ Pico!Step(s, poll, total) \in Pico!Captures(chunk, channels)
         /\ Pico!Copied(Pico!Step(s, poll, total), total)
         /\ Pico!Going(s, total) =>
              Len(Pico!Step(s, poll, total).complete) = Len(s.complete) + Wanted(s, poll, total)
<1> DEFINE called == IF poll.samples = <<>> THEN s ELSE Pico!Callback(s, poll, total)
           next == Pico!Step(s, poll, total)
<1>1. CASE ~Pico!Going(s, total)
  BY <1>1 DEF Pico!Step
<1>2. CASE Pico!Going(s, total)
  <2>1. /\ called \in Pico!Captures(chunk, channels) /\ Pico!Copied(called, total)
        /\ Len(called.complete) = Len(s.complete) + Wanted(s, poll, total)
    <3>1. CASE poll.samples = <<>>
      <4>1. called = s
        BY <3>1
      <4>2. Len(s.complete) \in Nat /\ Len(s.complete) <= total
        BY LenProperties DEF Pico!Copied
      <4>3. Len(poll.samples) = 0
        BY <3>1, EmptySeq
      <4>4. 0 <= total - Len(s.complete)
        BY <4>2
      <4>5. Wanted(s, poll, total) = 0
        BY <4>3, <4>4 DEF Wanted
      <4>6. Len(s.complete) = Len(s.complete) + Wanted(s, poll, total)
        BY <4>2, <4>5
      <4> QED
        BY <3>1, <4>1, <4>6
    <3>2. CASE poll.samples # <<>>
      BY <3>2, CallbackIs
    <3> QED
      BY <3>1, <3>2
  <2>2. next = [called EXCEPT !.ended = poll.ended]
    BY <1>2 DEF Pico!Step
  <2> HIDE DEF called, next
  <2>3. next \in Pico!Captures(chunk, channels) /\ next.complete = called.complete
    BY <2>1, <2>2 DEF Pico!Captures, Pico!Polls
  <2>4. Pico!Copied(next, total)
    BY <2>1, <2>3 DEF Pico!Copied
  <2> QED
    BY <2>1, <2>3, <2>4 DEF next
<1> QED
  BY <1>1, <1>2

(* Nor is an overflow of any segment forgotten. *)
LEMMA OverflowsAreKept ==
  ASSUME NEW chunk \in Nat, NEW channels, NEW total \in Nat,
         NEW s \in Pico!Captures(chunk, channels), NEW poll \in Pico!Polls(chunk, channels),
         Pico!Copied(s, total), Follows(s, poll, chunk), Pico!Going(s, total),
         poll.samples = <<>> => poll.overflow = {}
  PROVE  Pico!Step(s, poll, total).overflow = s.overflow \cup poll.overflow
<1> DEFINE called == IF poll.samples = <<>> THEN s ELSE Pico!Callback(s, poll, total)
<1>1. called \in Pico!Captures(chunk, channels) /\ called.overflow = s.overflow \cup poll.overflow
  <2>1. CASE poll.samples = <<>>
    BY <2>1
  <2>2. CASE poll.samples # <<>>
    BY <2>2, CallbackIs
  <2> QED
    BY <2>1, <2>2
<1>2. Pico!Step(s, poll, total) = [called EXCEPT !.ended = poll.ended]
  BY DEF Pico!Step
<1> HIDE DEF called
<1> QED
  BY <1>1, <1>2 DEF Pico!Captures

(* The states a capture goes through, one for each poll.                   *)
Runs(g, chunk, total, polls, last) ==
  g = [n \in 0..last |->
         IF n = 0 THEN Pico!Idle(chunk) ELSE Pico!Step(g[n - 1], polls[n], total)]

LEMMA RunsExist ==
  ASSUME NEW chunk, NEW total, NEW polls, NEW last \in Nat
  PROVE  \E g : Runs(g, chunk, total, polls, last)
<1> DEFINE S == {n \in Nat : \E g : Runs(g, chunk, total, polls, n)}
<1>1. 0 \in S
  <2> DEFINE g == [n \in 0..0 |-> Pico!Idle(chunk)]
  <2>1. Runs(g, chunk, total, polls, 0)
    BY DEF Runs
  <2> QED
    BY <2>1
<1>2. ASSUME NEW m \in Nat, m \in S
      PROVE  m + 1 \in S
  <2>1. PICK g : Runs(g, chunk, total, polls, m)
    BY <1>2
  <2> DEFINE h == [n \in 0..(m + 1) |->
                     IF n <= m THEN g[n] ELSE Pico!Step(g[m], polls[m + 1], total)]
  <2>2. ASSUME NEW n \in 0..(m + 1)
        PROVE  h[n] = IF n = 0 THEN Pico!Idle(chunk) ELSE Pico!Step(h[n - 1], polls[n], total)
    <3>1. CASE n = 0
      BY <2>1, <3>1 DEF Runs
    <3>2. CASE n \in 1..m
      <4>1. n \in 0..m /\ n - 1 \in 0..(m + 1) /\ n - 1 <= m /\ n <= m /\ n # 0
        BY <3>2
      <4>2. h[n] = g[n] /\ h[n - 1] = g[n - 1]
        BY <4>1
      <4>3. g[n] = Pico!Step(g[n - 1], polls[n], total)
        BY <2>1, <4>1 DEF Runs
      <4> QED
        BY <4>1, <4>2, <4>3
    <3>3. CASE n = m + 1
      <4>1. n - 1 = m /\ n - 1 \in 0..(m + 1) /\ ~(n <= m) /\ n # 0
        BY <3>3
      <4>2. h[n] = Pico!Step(g[m], polls[m + 1], total) /\ h[n - 1] = g[m]
        BY <4>1
      <4> QED
        BY <3>3, <4>1, <4>2
    <3> QED
      BY <3>1, <3>2, <3>3
  <2>3. DOMAIN h = 0..(m + 1) /\ h = [n \in DOMAIN h |-> h[n]]
    OBVIOUS
  <2> HIDE DEF h
  <2>4. Runs(h, chunk, total, polls, m + 1)
    BY <2>2, <2>3 DEF Runs
  <2> QED
    BY <2>4
<1> HIDE DEF S
<1>3. Nat \subseteq S
  BY <1>1, <1>2, Induction
<1> QED
  BY <1>3 DEF S

LEMMA RunsAgree ==
  ASSUME NEW chunk, NEW total, NEW polls, NEW last \in Nat, NEW g,
         NEW longer, NEW more \in Nat, NEW h,
         Runs(g, chunk, total, polls, last), Runs(h, chunk, total, longer, more),
         last <= more, \A n \in 1..last : polls[n] = longer[n]
  PROVE  g[last] = h[last]
<1> DEFINE S == {n \in Nat : n <= last => g[n] = h[n]}
<1>1. 0 \in S
  BY DEF Runs
<1>2. ASSUME NEW m \in Nat, m \in S
      PROVE  m + 1 \in S
  <2>1. SUFFICES ASSUME m + 1 <= last PROVE g[m + 1] = h[m + 1]
    OBVIOUS
  <2>2. m + 1 \in 0..last /\ m + 1 \in 0..more /\ m + 1 \in 1..last /\ m + 1 # 0
        /\ (m + 1) - 1 = m
    BY <2>1
  <2>3. g[m] = h[m]
    BY <1>2, <2>1
  <2>4. g[m + 1] = Pico!Step(g[m], polls[m + 1], total)
    BY <2>2 DEF Runs
  <2>5. h[m + 1] = Pico!Step(h[m], longer[m + 1], total)
    BY <2>2 DEF Runs
  <2> QED
    BY <2>2, <2>3, <2>4, <2>5
<1> HIDE DEF S
<1>3. Nat \subseteq S
  BY <1>1, <1>2, Induction
<1> QED
  BY <1>3 DEF S

LEMMA AfterIs ==
  ASSUME NEW chunk, NEW total, NEW polls, NEW last \in Nat, Len(polls) = last, NEW g,
         Runs(g, chunk, total, polls, last)
  PROVE  Pico!After(total, chunk, polls) = g[last]
<1> DEFINE h == CHOOSE k : Runs(k, chunk, total, polls, last)
<1>1. Pico!After(total, chunk, polls) = h[last]
  BY DEF Pico!After, Runs
<1>2. Runs(h, chunk, total, polls, last)
  OBVIOUS
<1> HIDE DEF h
<1>3. g[last] = h[last]
  BY <1>2, RunsAgree
<1> QED
  BY <1>1, <1>3

(* One more poll is one more step of the loop.                             *)
LEMMA AfterOneMore ==
  ASSUME NEW chunk, NEW total, NEW P, NEW polls \in Seq(P), NEW poll \in P
  PROVE  Pico!After(total, chunk, Append(polls, poll))
           = Pico!Step(Pico!After(total, chunk, polls), poll, total)
<1> DEFINE last == Len(polls)
           longer == Append(polls, poll)
<1>1. last \in Nat /\ Len(longer) = last + 1 /\ longer[last + 1] = poll
      /\ \A n \in 1..last : polls[n] = longer[n]
  BY LenProperties, AppendProperties
<1>2. PICK g : Runs(g, chunk, total, polls, last)
  BY <1>1, RunsExist
<1>3. PICK h : Runs(h, chunk, total, longer, last + 1)
  <2>1. last + 1 \in Nat
    BY <1>1
  <2> HIDE DEF last, longer
  <2> QED
    BY <2>1, RunsExist
<1> HIDE DEF longer
<1>4. Pico!After(total, chunk, polls) = g[last]
  BY <1>1, <1>2, AfterIs
<1>5. Pico!After(total, chunk, longer) = h[last + 1]
  BY <1>1, <1>3, AfterIs
<1> HIDE DEF last
<1>6. g[last] = h[last]
  <2>1. last + 1 \in Nat /\ last <= last + 1
    BY <1>1
  <2> QED
    BY <1>1, <1>2, <1>3, <2>1, RunsAgree
<1>7. h[last + 1] = Pico!Step(h[last], longer[last + 1], total)
  <2>1. last + 1 \in 0..(last + 1) /\ last + 1 # 0 /\ (last + 1) - 1 = last
    BY <1>1
  <2> QED
    BY <1>3, <2>1 DEF Runs
<1> QED
  BY <1>1, <1>4, <1>5, <1>6, <1>7 DEF longer

LEMMA ChunkIs == Chunk \in Nat \ {0} /\ Chunk <= StreamBuffer
<1>1. Pico!Min({StreamTotal, StreamBuffer}) \in {StreamTotal, StreamBuffer}
      /\ Pico!Min({StreamTotal, StreamBuffer}) <= StreamBuffer
  BY StreamAssumption, WantedIsMin
<1> QED
  BY <1>1, StreamAssumption DEF Chunk, Pico!ChunkOf

LEMMA AfterNone ==
  ASSUME NEW chunk, NEW total
  PROVE  Pico!After(total, chunk, <<>>) = Pico!Idle(chunk)
<1>1. Len(<<>>) = 0
  OBVIOUS
<1>2. PICK g : Runs(g, chunk, total, <<>>, 0)
  BY RunsExist
<1>3. g[0] = Pico!Idle(chunk)
  BY <1>2 DEF Runs
<1> QED
  BY <1>1, <1>2, <1>3, AfterIs

(* At the beginning nothing has been sent or copied. *)
LEMMA StreamBegins == Init => StreamKnown
<1> SUFFICES ASSUME Init, subject = "pico"
             PROVE  StreamKnown
  BY DEF StreamKnown
<1>1. input = [polls |-> <<>>, sent |-> 0]
  BY DEF Init, CanInit, AnswerInit, PidsInit, MarksInit, StreamInit, TrafficInit, CompareInit,
         DeviceInit, ScopesInit
<1>2. input.polls = <<>> /\ input.sent = 0
  BY <1>1
<1> DEFINE s == Pico!After(StreamTotal, Chunk, input.polls)
<1>3. s = Pico!Idle(Chunk)
  BY <1>2, AfterNone
<1>4. Chunk \in Nat /\ StreamTotal \in Nat
  BY ChunkIs, StreamAssumption
<1>5. /\ s.complete = <<>> /\ s.overflow = {} /\ Len(s.complete) = 0
      /\ s \in Pico!Captures(Chunk, Channels)
  BY <1>3, <1>4 DEF Pico!Idle, Pico!Captures
<1> HIDE DEF s
<1>6. Pico!Copied(s, StreamTotal)
  <2>1. <<>> \in Seq(Nat)
    BY EmptySeq
  <2> QED
    BY <1>4, <1>5, <2>1 DEF Pico!Copied
<1>7. input.polls \in Seq(Pico!Polls(Chunk, Channels))
  BY <1>2, EmptySeq
<1>8. s.overflow = Overflowed(input.polls)
  <2>1. DOMAIN input.polls = {}
    BY <1>2
  <2> QED
    BY <1>5, <2>1 DEF Overflowed
<1>9. input \in [polls : Seq(Pico!Polls(Chunk, Channels)), sent : Nat]
  BY <1>1, <1>2, <1>7
<1> QED
  BY <1>2, <1>5, <1>6, <1>8, <1>9 DEF StreamKnown, s

(* While polls come, the capture goes on. *)
LEMMA StreamGoesOn ==
  ASSUME Streaming
  PROVE  Pico!Going(Pico!After(StreamTotal, Chunk, input.polls), StreamTotal)
<1> DEFINE s == Pico!After(StreamTotal, Chunk, input.polls)
<1>1. Pico!Capture(StreamTotal, StreamBuffer, input.polls).outcome = "running"
  BY DEF Streaming
<1>2. Pico!Capture(StreamTotal, StreamBuffer, input.polls).outcome =
        CASE StreamTotal % Chunk # 0 -> "refused"
          [] StreamTotal % Chunk = 0 /\ Pico!Going(s, StreamTotal) -> "running"
          [] StreamTotal % Chunk = 0 /\ s.ended = "ok" /\ ~Pico!Going(s, StreamTotal)
               /\ Pico!Full(s, StreamTotal) -> "captured"
          [] OTHER -> "failed"
  BY DEF Pico!Capture, Chunk
<1> HIDE DEF s
<1> QED
  BY <1>1, <1>2 DEF s

(* The union over one more poll. *)
LEMMA OverflowOfOneMore ==
  ASSUME NEW P, NEW polls \in Seq(P), NEW poll \in P
  PROVE  Overflowed(Append(polls, poll)) = Overflowed(polls) \cup poll.overflow
<1> DEFINE longer == Append(polls, poll)
           last == Len(polls)
<1>1. /\ last \in Nat /\ DOMAIN polls = 1..last /\ DOMAIN longer = 1..(last + 1)
      /\ longer[last + 1] = poll /\ \A n \in 1..last : longer[n] = polls[n]
  BY LenProperties, AppendProperties
<1> HIDE DEF longer, last
<1>2. 1..(last + 1) = (1..last) \cup {last + 1}
  BY <1>1
<1> DEFINE all == {longer[i].overflow : i \in 1..(last + 1)}
           some == {polls[i].overflow : i \in 1..last}
<1>3. ASSUME NEW x
      PROVE  x \in UNION all <=> x \in (UNION some) \cup poll.overflow
  <2>1. x \in UNION all <=> \E i \in 1..(last + 1) : x \in longer[i].overflow
    OBVIOUS
  <2>2. x \in UNION some <=> \E i \in 1..last : x \in polls[i].overflow
    OBVIOUS
  <2> HIDE DEF all, some
  <2> QED
    BY <1>1, <1>2, <2>1, <2>2
<1>4. UNION all = (UNION some) \cup poll.overflow
  BY <1>3
<1> QED
  BY <1>1, <1>4 DEF longer, Overflowed

(* One more poll that the driver may bring. *)
LEMMA StreamStep ==
  ASSUME StreamKnown, Streaming, subject' = subject,
         NEW poll \in Pico!Polls(Chunk, Channels),
         poll.start + Len(poll.samples) - 1 <= Chunk,
         \A i \in 1..Len(poll.samples) : poll.samples[i] = input.sent + i,
         poll.samples = <<>> => poll.overflow = {},
         input' = [polls |-> Append(input.polls, poll),
                   sent |-> input.sent + Len(poll.samples)]
  PROVE  StreamKnown'
<1> DEFINE s == Pico!After(StreamTotal, Chunk, input.polls)
           next == Pico!After(StreamTotal, Chunk, Append(input.polls, poll))
           sent == input.sent
           n == Len(poll.samples)
           have == Len(s.complete)
<1>1. subject = "pico"
  BY DEF Streaming
<1>2. /\ input.polls \in Seq(Pico!Polls(Chunk, Channels)) /\ sent \in Nat
      /\ s \in Pico!Captures(Chunk, Channels) /\ Pico!Copied(s, StreamTotal)
      /\ s.overflow = Overflowed(input.polls)
      /\ Pico!Going(s, StreamTotal) => have = sent
  BY <1>1 DEF StreamKnown
<1>3. Pico!Going(s, StreamTotal)
  BY StreamGoesOn
<1>4. next = Pico!Step(s, poll, StreamTotal)
  BY <1>2, AfterOneMore
<1>5. Chunk \in Nat /\ StreamTotal \in Nat
  BY ChunkIs, StreamAssumption
<1>6. /\ poll.samples \in Seq(Nat) /\ n \in Nat /\ poll.start \in 1..Chunk
      /\ s.buffer \in [1..Chunk -> Nat] /\ s.complete \in Seq(Nat) /\ have \in Nat
      /\ have <= StreamTotal
  BY <1>2, LenProperties DEF Pico!Polls, Pico!Captures, Pico!Copied
<1> HIDE DEF s, next
<1>7. Follows(s, poll, Chunk)
  BY <1>2, <1>3, <1>6 DEF Follows
<1>8. next \in Pico!Captures(Chunk, Channels)
  BY <1>2, <1>4, <1>5, <1>7, PollsAreCopiedOnce
<1>9. Pico!Copied(next, StreamTotal)
  BY <1>2, <1>4, <1>5, <1>7, PollsAreCopiedOnce
<1>10. Len(next.complete) = have + Wanted(s, poll, StreamTotal)
  <2>1. Len(Pico!Step(s, poll, StreamTotal).complete)
          = Len(s.complete) + Wanted(s, poll, StreamTotal)
    BY <1>2, <1>3, <1>5, <1>7, PollsAreCopiedOnce
  <2> QED
    BY <1>4, <2>1
<1>11. next.overflow = s.overflow \cup poll.overflow
  <2>1. Pico!Step(s, poll, StreamTotal).overflow = s.overflow \cup poll.overflow
    BY <1>2, <1>3, <1>5, <1>7, OverflowsAreKept
  <2> QED
    BY <1>4, <2>1
<1>12. next.overflow = Overflowed(Append(input.polls, poll))
  <2>1. Overflowed(Append(input.polls, poll)) = Overflowed(input.polls) \cup poll.overflow
    BY <1>2, OverflowOfOneMore
  <2> QED
    BY <1>2, <1>11, <2>1
<1>13. Pico!Going(next, StreamTotal) => Len(next.complete) = sent + n
  <2>1. Wanted(s, poll, StreamTotal) = IF n <= StreamTotal - have THEN n ELSE StreamTotal - have
    BY DEF Wanted
  <2>2. have = sent
    BY <1>2, <1>3
  <2>3. Pico!Going(next, StreamTotal) => Len(next.complete) < StreamTotal
    BY DEF Pico!Going
  <2> HIDE DEF have, sent, n
  <2> QED
    BY <1>2, <1>5, <1>6, <1>10, <2>1, <2>2, <2>3
<1>14. Append(input.polls, poll) \in Seq(Pico!Polls(Chunk, Channels))
  BY <1>2, AppendProperties
<1>15. sent + n \in Nat
  BY <1>2, <1>6
<1>16. /\ subject' = "pico" /\ input'.polls = Append(input.polls, poll) /\ input'.sent = sent + n
       /\ input' \in [polls : Seq(Pico!Polls(Chunk, Channels)), sent : Nat]
  BY <1>1, <1>14, <1>15
<1> QED
  BY <1>8, <1>9, <1>12, <1>13, <1>16 DEF StreamKnown, next, Chunk

(* Segments follow each other around the driver's buffer. *)
LEMMA DeliverStep ==
  ASSUME StreamKnown, NEW n \in 1..StreamBuffer, NEW overflow \in SUBSET Channels,
         NEW stop \in BOOLEAN, Deliver(n, overflow, stop)
  PROVE  StreamKnown'
<1> DEFINE place == input.sent % Chunk
           samples == [i \in 1..n |-> input.sent + i]
           poll == Pico!Poll(place + 1, samples, overflow, stop, "ok")
<1>1. /\ Streaming /\ place + n <= Chunk /\ subject' = subject
      /\ input' = [sent |-> input.sent + n, polls |-> Append(input.polls, poll)]
  BY DEF Deliver
<1>2. input.sent \in Nat /\ n \in Nat /\ n # 0 /\ Chunk \in Nat \ {0}
  BY <1>1, ChunkIs, StreamAssumption DEF StreamKnown, Streaming
<1>3. samples \in Seq(Nat) /\ Len(samples) = n /\ \A i \in 1..n : samples[i] = input.sent + i
  <2>1. \A i \in 1..n : input.sent + i \in Nat
    BY <1>2
  <2> QED
    BY <1>2, <2>1, IsASeq
<1>4. place \in Nat
  BY <1>2
<1> HIDE DEF place, samples
<1>5. place + 1 \in 1..Chunk /\ (place + 1) + n - 1 <= Chunk
  BY <1>1, <1>2, <1>4
<1>6. poll \in Pico!Polls(Chunk, Channels) /\ poll.samples = samples /\ poll.start = place + 1
  BY <1>3, <1>5 DEF Pico!Polls, Pico!Poll
<1>7. samples # <<>>
  BY <1>2, <1>3, EmptySeq
<1> HIDE DEF poll
<1>8. input' = [polls |-> Append(input.polls, poll), sent |-> input.sent + Len(poll.samples)]
  BY <1>1, <1>3, <1>6
<1>9. poll.start + Len(poll.samples) - 1 <= Chunk
  BY <1>3, <1>5, <1>6
<1>10. \A i \in 1..Len(poll.samples) : poll.samples[i] = input.sent + i
  BY <1>3, <1>6
<1>11. poll.samples # <<>>
  BY <1>6, <1>7
<1> QED
  BY <1>1, <1>6, <1>8, <1>9, <1>10, <1>11, StreamStep

(* A poll that brings nothing. *)
LEMMA DeliverNothingStep ==
  ASSUME StreamKnown, NEW ended \in {"ok", "error", "late"}, DeliverNothing(ended)
  PROVE  StreamKnown'
<1> DEFINE poll == Pico!Poll(1, <<>>, {}, FALSE, ended)
<1>1. /\ Streaming /\ subject' = subject
      /\ input' = [input EXCEPT !.polls = Append(@, poll)]
  BY DEF DeliverNothing
<1>2. Chunk \in Nat \ {0} /\ 1 \in 1..Chunk /\ <<>> \in Seq(Nat)
  BY ChunkIs, EmptySeq
<1>3. poll \in Pico!Polls(Chunk, Channels) /\ poll.samples = <<>> /\ poll.start = 1
      /\ poll.overflow = {}
  BY <1>2 DEF Pico!Polls, Pico!Poll
<1> HIDE DEF poll
<1>4. input \in [polls : Seq(Pico!Polls(Chunk, Channels)), sent : Nat]
  BY <1>1 DEF StreamKnown, Streaming
<1>5. Len(poll.samples) = 0
  BY <1>3, EmptySeq
<1>6. input' = [polls |-> Append(input.polls, poll), sent |-> input.sent]
  BY <1>1, <1>4
<1>7. input.sent = input.sent + Len(poll.samples)
  BY <1>4, <1>5
<1>8. poll.start + Len(poll.samples) - 1 <= Chunk
  BY <1>2, <1>3, <1>5
<1>9. \A i \in 1..Len(poll.samples) : poll.samples[i] = input.sent + i
  BY <1>5
<1>10. input' = [polls |-> Append(input.polls, poll), sent |-> input.sent + Len(poll.samples)]
  BY <1>6, <1>7
<1> QED
  BY <1>1, <1>3, <1>8, <1>9, <1>10, StreamStep

(* A behaviour keeps to its subject. *)
LEMMA SubjectStays == Next => subject' = subject
<1>1. CanNext => subject' = subject
  <2>1. \A f, bits : CanSend(f, bits) => subject' = subject
    BY Zenon DEF CanSend
  <2>2. \A extended : CanSendFd(extended) => subject' = subject
    BY Zenon DEF CanSendFd
  <2>3. /\ \A i : CanFlip(i) => subject' = subject
        /\ \A i, j : CanCut(i, j) => subject' = subject
    BY DEF CanFlip, CanCut
  <2> QED
    BY <2>1, <2>2, <2>3 DEF CanNext
<1>2. AnswerNext => subject' = subject
  BY DEF AnswerNext, Receive, Faulty
<1>3. /\ \A pid : Support(pid) => subject' = subject
      /\ \A char : ReceiveChar(char) => subject' = subject
      /\ ReadNext => subject' = subject
      /\ \A f, pause : See(f, pause) => subject' = subject
      /\ \A which, key : SeeIn(which, key) => subject' = subject
      /\ Renumber => subject' = subject
  BY DEF Support, ReceiveChar, ReadNext, ReadMarks, See, SeeIn, Renumber
<1>4. /\ \A n, overflow, stop : Deliver(n, overflow, stop) => subject' = subject
      /\ \A ended : DeliverNothing(ended) => subject' = subject
  BY DEF Deliver, DeliverNothing
<1>5. /\ \A text : Describe(text) => subject' = subject
      /\ \A more : Reply(more) => subject' = subject
      /\ \A code : ReplyException(code) => subject' = subject
      /\ \A i : Garble(i) => subject' = subject
  BY DEF Describe, Reply, ReplyException, Garble
<1> QED
  BY <1>1, <1>2, <1>3, <1>4, <1>5 DEF Next

(* The other subjects' actions are not the Pico's. *)
LEMMA StreamNext ==
  ASSUME StreamKnown, [Next]_vars
  PROVE  StreamKnown'
<1>1. CASE Next /\ subject = "pico"
  <2>1. ~AnswerNext
    BY <1>1 DEF AnswerNext
  <2>2. /\ \A pid : ~Support(pid)
        /\ \A char : ~ReceiveChar(char)
        /\ ~ReadNext
        /\ \A f, pause : ~See(f, pause)
        /\ \A which, key : ~SeeIn(which, key)
        /\ ~Renumber
    BY <1>1 DEF Support, ReceiveChar, ReadNext, ReadMarks, See, SeeIn, Renumber
  <2>3. /\ \A text : ~Describe(text)
        /\ \A more : ~Reply(more)
        /\ \A code : ~ReplyException(code)
    BY <1>1 DEF Describe, Reply, ReplyException
  <2>4. \/ \E n \in 1..StreamBuffer, overflow \in SUBSET Channels, stop \in BOOLEAN :
             Deliver(n, overflow, stop)
        \/ \E ended \in {"ok", "error", "late"} : DeliverNothing(ended)
    BY <1>1, <2>1, <2>2, <2>3 DEF Next
  <2> QED
    BY <2>4, DeliverStep, DeliverNothingStep
<1>2. CASE Next /\ subject # "pico"
  <2>1. subject' = subject
    BY <1>2, SubjectStays
  <2> QED
    BY <1>2, <2>1 DEF StreamKnown
<1>3. CASE UNCHANGED vars
  BY <1>3 DEF vars, StreamKnown
<1> QED
  BY <1>1, <1>2, <1>3

(* A capture that is returned is whole. *)
LEMMA KnownIsWhole == StreamKnown => CaptureIsWhole
<1> SUFFICES ASSUME StreamKnown, subject = "pico",
                    Pico!Capture(StreamTotal, StreamBuffer, input.polls).outcome = "captured"
             PROVE  LET capture == Pico!Capture(StreamTotal, StreamBuffer, input.polls)
                    IN  /\ capture.samples = [i \in 1..StreamTotal |-> i]
                        /\ capture.overflow = Overflowed(input.polls)
  BY DEF CaptureIsWhole
<1> DEFINE s == Pico!After(StreamTotal, Chunk, input.polls)
           capture == Pico!Capture(StreamTotal, StreamBuffer, input.polls)
<1>1. /\ capture.outcome =
           CASE StreamTotal % Chunk # 0 -> "refused"
             [] StreamTotal % Chunk = 0 /\ Pico!Going(s, StreamTotal) -> "running"
             [] StreamTotal % Chunk = 0 /\ s.ended = "ok" /\ ~Pico!Going(s, StreamTotal)
                  /\ Pico!Full(s, StreamTotal) -> "captured"
             [] OTHER -> "failed"
      /\ capture.samples = s.complete /\ capture.overflow = s.overflow
  BY DEF Pico!Capture, Chunk
<1>2. Pico!Copied(s, StreamTotal) /\ s.overflow = Overflowed(input.polls)
  BY DEF StreamKnown
<1> HIDE DEF s
<1>3. Len(s.complete) = StreamTotal
  BY <1>1 DEF Pico!Full
<1>4. s.complete = [i \in 1..StreamTotal |-> i]
  <2>1. /\ s.complete \in Seq(Nat) /\ DOMAIN s.complete = 1..StreamTotal
        /\ \A i \in 1..StreamTotal : s.complete[i] = i
    BY <1>2, <1>3, LenProperties DEF Pico!Copied
  <2>2. s.complete = [i \in DOMAIN s.complete |-> s.complete[i]]
    BY <2>1, LenProperties
  <2> QED
    BY <2>1, <2>2
<1> HIDE DEF capture
<1> QED
  BY <1>1, <1>2, <1>4 DEF capture

(* Whatever the driver hands over, in segments of whatever size, a capture *)
(* that is returned has every sample once and in order and names every     *)
(* channel that overflowed (pico.py:152, 185).                             *)
THEOREM CapturesAreWhole == Spec => []CaptureIsWhole
<1>1. StreamKnown /\ [Next]_vars => StreamKnown'
  BY StreamNext
<1> QED
  BY <1>1, StreamBegins, KnownIsWhole, PTL DEF Spec
--------------------------------------------------------------------------------
(* The bytes of a character's mark stand at place i, as far as they go.    *)
MarkAt(bytes, i, char) ==
  \A k \in 1..Len(Marks!Mark(char)) :
    i + k - 1 <= Len(bytes) => bytes[i + k - 1] = Marks!Mark(char)[k]

(* Each character is read as it was marked, whatever follows it.           *)
THEOREM MarksAreTakenWhole ==
  ASSUME NEW bytes \in Seq(0..255), NEW i \in 1..Len(bytes),
         NEW byte \in 0..255, NEW bad \in BOOLEAN, MarkAt(bytes, i, Marks!Char(byte, bad)),
         i + Len(Marks!Mark(Marks!Char(byte, bad))) - 1 <= Len(bytes)
  PROVE  Marks!Take(bytes, i) =
           [size |-> Len(Marks!Mark(Marks!Char(byte, bad))),
            data |-> IF bad /\ byte = 0 THEN <<>> ELSE <<byte>>,
            event |-> IF ~bad THEN "data" ELSE IF byte = 0 THEN "break" ELSE "marked"]
<1> DEFINE char == Marks!Char(byte, bad)
<1>0. Len(bytes) \in Nat /\ i \in Nat
  BY LenProperties
<1>1. CASE bad
  <2>1. Marks!Mark(char) = <<255, 0, byte>>
    BY <1>1 DEF Marks!Mark, Marks!Char
  <2>2. Len(Marks!Mark(char)) = 3
    BY <2>1
  <2>3. i + 2 <= Len(bytes) /\ i + 1 <= Len(bytes)
    BY <1>0, <2>2
  <2>4. bytes[i] = 255 /\ bytes[i + 1] = 0 /\ bytes[i + 2] = byte
    <3>1. \A k \in 1..3 : i + k - 1 <= Len(bytes) => bytes[i + k - 1] = <<255, 0, byte>>[k]
      BY <2>1, <2>2 DEF MarkAt
    <3>2. i + 1 - 1 = i /\ i + 2 - 1 = i + 1 /\ i + 3 - 1 = i + 2
      BY <1>0
    <3> QED
      BY <1>0, <2>3, <3>1, <3>2
  <2>5. i # Len(bytes) /\ ~(i + 2 > Len(bytes))
    BY <1>0, <2>3
  <2>6. CASE byte = 0
    <3>1. Marks!Take(bytes, i) = [size |-> 3, data |-> <<>>, event |-> "break"]
      BY <2>4, <2>5, <2>6 DEF Marks!Take
    <3> QED
      BY <1>1, <2>2, <2>6, <3>1
  <2>7. CASE byte # 0
    <3>1. Marks!Take(bytes, i) = [size |-> 3, data |-> <<byte>>, event |-> "marked"]
      BY <2>4, <2>5, <2>7 DEF Marks!Take
    <3> QED
      BY <1>1, <2>2, <2>7, <3>1
  <2> QED
    BY <2>6, <2>7
<1>2. CASE ~bad /\ byte = 255
  <2>1. Marks!Mark(char) = <<255, 255>>
    BY <1>2 DEF Marks!Mark, Marks!Char
  <2>2. Len(Marks!Mark(char)) = 2
    BY <2>1
  <2>3. i + 1 <= Len(bytes)
    BY <1>0, <2>2
  <2>4. bytes[i] = 255 /\ bytes[i + 1] = 255
    <3>1. \A k \in 1..2 : i + k - 1 <= Len(bytes) => bytes[i + k - 1] = <<255, 255>>[k]
      BY <2>1, <2>2 DEF MarkAt
    <3>2. i + 1 - 1 = i /\ i + 2 - 1 = i + 1
      BY <1>0
    <3> QED
      BY <1>0, <2>3, <3>1, <3>2
  <2>5. i # Len(bytes)
    BY <1>0, <2>3
  <2> QED
    BY <1>2, <2>2, <2>4, <2>5 DEF Marks!Take
<1>3. CASE ~bad /\ byte # 255
  <2>1. Marks!Mark(char) = <<byte>>
    BY <1>3 DEF Marks!Mark, Marks!Char
  <2>2. Len(Marks!Mark(char)) = 1
    BY <2>1
  <2>3. bytes[i] = byte
    <3>1. \A k \in 1..1 : i + k - 1 <= Len(bytes) => bytes[i + k - 1] = <<byte>>[k]
      BY <2>1, <2>2 DEF MarkAt
    <3>2. i + 1 - 1 = i
      BY <1>0
    <3> QED
      BY <1>0, <3>1, <3>2
  <2> QED
    BY <1>3, <2>2, <2>3 DEF Marks!Take
<1> QED
  BY <1>1, <1>2, <1>3

(* A mark whose end has not come waits, and decodes to nothing.            *)
THEOREM CutMarksWait ==
  ASSUME NEW bytes \in Seq(0..255), NEW i \in 1..Len(bytes),
         NEW byte \in 0..255, NEW bad \in BOOLEAN, MarkAt(bytes, i, Marks!Char(byte, bad)),
         Len(bytes) < i + Len(Marks!Mark(Marks!Char(byte, bad))) - 1
  PROVE  Marks!Take(bytes, i) = [size |-> 0, data |-> <<>>, event |-> "wait"]
<1> DEFINE char == Marks!Char(byte, bad)
<1>0. Len(bytes) \in Nat /\ i \in Nat /\ i <= Len(bytes)
  BY LenProperties
<1>1. CASE bad
  <2>1. Marks!Mark(char) = <<255, 0, byte>>
    BY <1>1 DEF Marks!Mark, Marks!Char
  <2>2. Len(Marks!Mark(char)) = 3
    BY <2>1
  <2>3. i + 2 > Len(bytes)
    BY <1>0, <2>2
  <2>4. bytes[i] = 255 /\ (i + 1 <= Len(bytes) => bytes[i + 1] = 0)
    <3>1. \A k \in 1..3 : i + k - 1 <= Len(bytes) => bytes[i + k - 1] = <<255, 0, byte>>[k]
      BY <2>1, <2>2 DEF MarkAt
    <3>2. i + 1 - 1 = i /\ i + 2 - 1 = i + 1
      BY <1>0
    <3> QED
      BY <1>0, <3>1, <3>2
  <2>5. i = Len(bytes) \/ i + 1 <= Len(bytes)
    BY <1>0
  <2> QED
    BY <2>3, <2>4, <2>5 DEF Marks!Take
<1>2. CASE ~bad /\ byte = 255
  <2>1. Marks!Mark(char) = <<255, 255>>
    BY <1>2 DEF Marks!Mark, Marks!Char
  <2>2. Len(Marks!Mark(char)) = 2
    BY <2>1
  <2>3. i = Len(bytes)
    BY <1>0, <2>2
  <2>4. bytes[i] = 255
    <3>1. \A k \in 1..2 : i + k - 1 <= Len(bytes) => bytes[i + k - 1] = <<255, 255>>[k]
      BY <2>1, <2>2 DEF MarkAt
    <3>2. i + 1 - 1 = i
      BY <1>0
    <3> QED
      BY <1>0, <3>1, <3>2
  <2> QED
    BY <2>3, <2>4 DEF Marks!Take
<1>3. CASE ~bad /\ byte # 255
  <2>1. Len(Marks!Mark(char)) = 1
    BY <1>3 DEF Marks!Mark, Marks!Char
  <2> QED
    BY <1>0, <2>1
<1> QED
  BY <1>1, <1>2, <1>3

(* A stretch of a sequence, from behind place a to place b. *)
LEMMA Part ==
  ASSUME NEW S, NEW seq \in Seq(S), NEW a \in 0..Len(seq), NEW b \in a..Len(seq)
  PROVE  /\ SubSeq(seq, a + 1, b) \in Seq(S) /\ Len(SubSeq(seq, a + 1, b)) = b - a
         /\ \A i \in 1..(b - a) : SubSeq(seq, a + 1, b)[i] = seq[a + i]
<1>1. Len(seq) \in Nat /\ a \in Int /\ b \in Int /\ a + 1 \in Int
  BY LenProperties
<1>2. \A i \in (a + 1)..b : seq[i] \in S
  <2>1. \A i \in (a + 1)..b : i \in 1..Len(seq)
    BY <1>1
  <2> QED
    BY <2>1, ElementOfSeq
<1>3. /\ SubSeq(seq, a + 1, b) \in Seq(S)
      /\ Len(SubSeq(seq, a + 1, b)) = IF a + 1 <= b THEN b - (a + 1) + 1 ELSE 0
      /\ \A i \in 1..(b - (a + 1) + 1) : SubSeq(seq, a + 1, b)[i] = seq[(a + 1) + i - 1]
  BY <1>1, <1>2, SubSeqProperties
<1>4. b - (a + 1) + 1 = b - a /\ (a + 1 <= b \/ b - a = 0)
  BY <1>1
<1>5. \A i \in 1..(b - a) : (a + 1) + i - 1 = a + i
  BY <1>1
<1> QED
  BY <1>3, <1>4, <1>5

LEMMA PartOfPart ==
  ASSUME NEW S, NEW seq \in Seq(S), NEW a \in 0..Len(seq), NEW b \in a..Len(seq),
         NEW c \in a..b
  PROVE  SubSeq(SubSeq(seq, a + 1, b), (c - a) + 1, b - a) = SubSeq(seq, c + 1, b)
<1> DEFINE part == SubSeq(seq, a + 1, b)
           d == c - a
<1>1. /\ part \in Seq(S) /\ Len(part) = b - a
      /\ \A i \in 1..(b - a) : part[i] = seq[a + i]
  BY Part
<1>2. Len(seq) \in Nat
  BY LenProperties
<1>3. c \in 0..Len(seq) /\ b \in c..Len(seq) /\ d \in 0..(b - a) /\ (b - a) \in d..(b - a)
      /\ (b - a) - d = b - c
  BY <1>2
<1>4. /\ SubSeq(seq, c + 1, b) \in Seq(S) /\ Len(SubSeq(seq, c + 1, b)) = b - c
      /\ \A i \in 1..(b - c) : SubSeq(seq, c + 1, b)[i] = seq[c + i]
  BY <1>3, Part
<1> HIDE DEF part, d
<1>5. /\ SubSeq(part, d + 1, b - a) \in Seq(S) /\ Len(SubSeq(part, d + 1, b - a)) = b - c
      /\ \A i \in 1..(b - c) : SubSeq(part, d + 1, b - a)[i] = part[d + i]
  <2>1. d \in 0..Len(part) /\ (b - a) \in d..Len(part)
    BY <1>1, <1>3
  <2>2. /\ SubSeq(part, d + 1, b - a) \in Seq(S) /\ Len(SubSeq(part, d + 1, b - a)) = (b - a) - d
        /\ \A i \in 1..((b - a) - d) : SubSeq(part, d + 1, b - a)[i] = part[d + i]
    BY <1>1, <2>1, Part
  <2> QED
    BY <1>3, <2>2
<1>6. ASSUME NEW i \in 1..(b - c)
      PROVE  SubSeq(part, d + 1, b - a)[i] = SubSeq(seq, c + 1, b)[i]
  <2>1. d + i \in 1..(b - a) /\ a + (d + i) = c + i
    BY <1>2 DEF d
  <2> QED
    BY <1>1, <1>4, <1>5, <2>1
<1>7. SubSeq(part, d + 1, b - a) = SubSeq(seq, c + 1, b)
  BY <1>4, <1>5, <1>6, SeqEqual
<1> QED
  BY <1>7 DEF part, d

(* Parts put together one by one. *)
Flattens(g, seqs, last) ==
  g = [i \in 1..last |-> IF i = 1 THEN seqs[i] ELSE g[i - 1] \o seqs[i]]

LEMMA FlattensExist ==
  ASSUME NEW seqs, NEW last \in Nat
  PROVE  \E g : Flattens(g, seqs, last)
<1> DEFINE S == {n \in Nat : \E g : Flattens(g, seqs, n)}
<1>1. 0 \in S
  <2> DEFINE g == [i \in 1..0 |-> {}]
  <2>1. Flattens(g, seqs, 0)
    BY DEF Flattens
  <2> QED
    BY <2>1
<1>2. ASSUME NEW m \in Nat, m \in S
      PROVE  m + 1 \in S
  <2>1. PICK g : Flattens(g, seqs, m)
    BY <1>2
  <2> DEFINE h == [i \in 1..(m + 1) |->
                     IF i <= m THEN g[i] ELSE IF i = 1 THEN seqs[i] ELSE g[m] \o seqs[i]]
  <2>2. ASSUME NEW i \in 1..(m + 1)
        PROVE  h[i] = IF i = 1 THEN seqs[i] ELSE h[i - 1] \o seqs[i]
    <3>1. CASE i <= m
      <4>1. i \in 1..m /\ (i # 1 => i - 1 \in 1..(m + 1) /\ i - 1 <= m)
        BY <3>1
      <4>2. h[i] = g[i] /\ (i # 1 => h[i - 1] = g[i - 1])
        BY <3>1, <4>1
      <4>3. g[i] = IF i = 1 THEN seqs[i] ELSE g[i - 1] \o seqs[i]
        BY <2>1, <4>1 DEF Flattens
      <4> QED
        BY <4>2, <4>3
    <3>2. CASE i = m + 1
      <4>1. ~(i <= m) /\ i - 1 = m /\ (i # 1 => i - 1 \in 1..(m + 1) /\ i - 1 <= m)
        BY <3>2
      <4>2. h[i] = IF i = 1 THEN seqs[i] ELSE g[m] \o seqs[i]
        BY <4>1
      <4>3. i # 1 => h[i - 1] = g[m]
        BY <4>1
      <4> QED
        BY <4>2, <4>3
    <3> QED
      BY <3>1, <3>2
  <2>3. DOMAIN h = 1..(m + 1) /\ h = [i \in DOMAIN h |-> h[i]]
    OBVIOUS
  <2> HIDE DEF h
  <2>4. Flattens(h, seqs, m + 1)
    BY <2>2, <2>3 DEF Flattens
  <2> QED
    BY <2>4
<1> HIDE DEF S
<1>3. Nat \subseteq S
  BY <1>1, <1>2, Induction
<1> QED
  BY <1>3 DEF S

LEMMA FlattensAgree ==
  ASSUME NEW seqs, NEW last \in Nat, NEW g, NEW longer, NEW more \in Nat, NEW h,
         Flattens(g, seqs, last), Flattens(h, longer, more), last <= more, last # 0,
         \A n \in 1..last : seqs[n] = longer[n]
  PROVE  g[last] = h[last]
<1> DEFINE S == {n \in Nat : n \in 1..last => g[n] = h[n]}
<1>1. 0 \in S
  OBVIOUS
<1>2. ASSUME NEW m \in Nat, m \in S
      PROVE  m + 1 \in S
  <2>1. SUFFICES ASSUME m + 1 \in 1..last PROVE g[m + 1] = h[m + 1]
    OBVIOUS
  <2>2. m + 1 \in 1..more /\ (m + 1) - 1 = m /\ (m + 1 # 1 => m \in 1..last)
    BY <2>1
  <2>3. m + 1 # 1 => g[m] = h[m]
    BY <1>2, <2>2
  <2>4. g[m + 1] = IF m + 1 = 1 THEN seqs[m + 1] ELSE g[(m + 1) - 1] \o seqs[m + 1]
    BY <2>1 DEF Flattens
  <2>5. h[m + 1] = IF m + 1 = 1 THEN longer[m + 1] ELSE h[(m + 1) - 1] \o longer[m + 1]
    BY <2>2 DEF Flattens
  <2> QED
    BY <2>1, <2>2, <2>3, <2>4, <2>5
<1> HIDE DEF S
<1>3. Nat \subseteq S
  BY <1>1, <1>2, Induction
<1>4. last \in S /\ last \in 1..last
  BY <1>3
<1> QED
  BY <1>4 DEF S

LEMMA JoinedIs ==
  ASSUME NEW seqs, NEW last \in Nat, Len(seqs) = last, last # 0, NEW g,
         Flattens(g, seqs, last)
  PROVE  Marks!Joined(seqs) = g[last]
<1> DEFINE h == CHOOSE k : Flattens(k, seqs, last)
<1>1. Marks!Joined(seqs) = h[last]
  BY DEF Marks!Joined, Marks!FlattenSeq, Flattens
<1>2. Flattens(h, seqs, last)
  OBVIOUS
<1> HIDE DEF h
<1>3. g[last] = h[last]
  BY <1>2, FlattensAgree
<1> QED
  BY <1>1, <1>3

LEMMA JoinedOneMore ==
  ASSUME NEW S, NEW chunks \in Seq(Seq(S)), NEW data \in Seq(S)
  PROVE  Marks!Joined(Append(chunks, data)) = Marks!Joined(chunks) \o data
<1> DEFINE last == Len(chunks)
           longer == Append(chunks, data)
<1>1. /\ last \in Nat /\ Len(longer) = last + 1 /\ longer[last + 1] = data
      /\ \A n \in 1..last : chunks[n] = longer[n]
  BY LenProperties, AppendProperties
<1>2. PICK h : Flattens(h, longer, last + 1)
  <2>1. last + 1 \in Nat
    BY <1>1
  <2> HIDE DEF last, longer
  <2> QED
    BY <2>1, FlattensExist
<1> HIDE DEF longer
<1>3. Marks!Joined(longer) = h[last + 1]
  <2>1. last + 1 \in Nat /\ last + 1 # 0
    BY <1>1
  <2> HIDE DEF last
  <2> QED
    BY <1>1, <1>2, <2>1, JoinedIs
<1>4. CASE last = 0
  <2>1. Marks!Joined(chunks) = chunks /\ chunks = <<>>
    BY <1>4, EmptySeq DEF Marks!Joined, Marks!FlattenSeq
  <2>2. h[1] = longer[1]
    <3>1. 1 \in 1..(last + 1)
      BY <1>4
    <3> QED
      BY <1>2, <3>1 DEF Flattens
  <2>3. <<>> \o data = data
    BY ConcatEmptySeq
  <2> QED
    BY <1>1, <1>3, <1>4, <2>1, <2>2, <2>3 DEF longer
<1>5. CASE last # 0
  <2>1. PICK g : Flattens(g, chunks, last)
    BY <1>1, FlattensExist
  <2>2. Marks!Joined(chunks) = g[last]
    BY <1>1, <1>5, <2>1, JoinedIs
  <2> HIDE DEF last
  <2>3. last + 1 \in Nat /\ last <= last + 1 /\ last + 1 \in 1..(last + 1) /\ last + 1 # 1
        /\ (last + 1) - 1 = last
    BY <1>1, <1>5
  <2>4. g[last] = h[last]
    BY <1>1, <1>2, <1>5, <2>1, <2>3, FlattensAgree
  <2>5. h[last + 1] = IF last + 1 = 1 THEN longer[last + 1]
                      ELSE h[(last + 1) - 1] \o longer[last + 1]
    BY <1>2, <2>3 DEF Flattens
  <2> QED
    BY <1>1, <1>3, <2>2, <2>3, <2>4, <2>5 DEF longer
<1> QED
  BY <1>4, <1>5

(* The states the loop over the pending bytes goes through. *)
Passes(g, bytes, last) ==
  g = [n \in 0..last |-> IF n = 0 THEN Marks!Begin ELSE Marks!Pass(bytes, g[n - 1])]

LEMMA PassesExist ==
  ASSUME NEW bytes, NEW last \in Nat
  PROVE  \E g : Passes(g, bytes, last)
<1> DEFINE S == {n \in Nat : \E g : Passes(g, bytes, n)}
<1>1. 0 \in S
  <2> DEFINE g == [n \in 0..0 |-> Marks!Begin]
  <2>1. Passes(g, bytes, 0)
    BY DEF Passes
  <2> QED
    BY <2>1
<1>2. ASSUME NEW m \in Nat, m \in S
      PROVE  m + 1 \in S
  <2>1. PICK g : Passes(g, bytes, m)
    BY <1>2
  <2> DEFINE h == [n \in 0..(m + 1) |-> IF n <= m THEN g[n] ELSE Marks!Pass(bytes, g[m])]
  <2>2. ASSUME NEW n \in 0..(m + 1)
        PROVE  h[n] = IF n = 0 THEN Marks!Begin ELSE Marks!Pass(bytes, h[n - 1])
    <3>1. CASE n = 0
      BY <2>1, <3>1 DEF Passes
    <3>2. CASE n \in 1..m
      <4>1. n \in 0..m /\ n - 1 \in 0..(m + 1) /\ n - 1 <= m /\ n <= m /\ n # 0
        BY <3>2
      <4>2. h[n] = g[n] /\ h[n - 1] = g[n - 1]
        BY <4>1
      <4>3. g[n] = Marks!Pass(bytes, g[n - 1])
        BY <2>1, <4>1 DEF Passes
      <4> QED
        BY <4>1, <4>2, <4>3
    <3>3. CASE n = m + 1
      <4>1. n - 1 = m /\ n - 1 \in 0..(m + 1) /\ ~(n <= m) /\ n # 0
        BY <3>3
      <4>2. h[n] = Marks!Pass(bytes, g[m]) /\ h[n - 1] = g[m]
        BY <4>1
      <4> QED
        BY <3>3, <4>1, <4>2
    <3> QED
      BY <3>1, <3>2, <3>3
  <2>3. DOMAIN h = 0..(m + 1) /\ h = [n \in DOMAIN h |-> h[n]]
    OBVIOUS
  <2> HIDE DEF h
  <2>4. Passes(h, bytes, m + 1)
    BY <2>2, <2>3 DEF Passes
  <2> QED
    BY <2>4
<1> HIDE DEF S
<1>3. Nat \subseteq S
  BY <1>1, <1>2, Induction
<1> QED
  BY <1>3 DEF S

LEMMA DecodedIs ==
  ASSUME NEW bytes, NEW last \in Nat, Len(bytes) = last
  PROVE  \E g : Passes(g, bytes, last) /\ Marks!Decoded(bytes) = g[last]
<1> DEFINE h == CHOOSE k : Passes(k, bytes, last)
<1>1. Marks!Decoded(bytes) = h[last]
  BY DEF Marks!Decoded, Passes
<1>2. Passes(h, bytes, last)
  BY PassesExist
<1> QED
  BY <1>1, <1>2

(* Between two accounts, the loop has decoded what the later one has more. *)
Between(loop, from, to) ==
  /\ loop = [at |-> to.bytes - from.bytes + 1, data |-> loop.data,
             marked |-> to.marked - from.marked, breaks |-> to.breaks - from.breaks]
  /\ loop.data \in Seq(0..255) /\ from.data \o loop.data = to.data

LEMMA MarkIs ==
  ASSUME NEW char \in Characters
  PROVE  /\ Marks!Mark(char) \in Seq(0..255) /\ Len(Marks!Mark(char)) \in 1..3
         /\ char.byte \in 0..255 /\ char.bad \in BOOLEAN
         /\ char = Marks!Char(char.byte, char.bad)
<1>1. PICK byte \in MarkedBytes, bad \in BOOLEAN : char = Marks!Char(byte, bad)
  BY DEF Characters
<1>2. /\ byte \in 0..255 /\ char.byte = byte /\ char.bad = bad
      /\ char = Marks!Char(char.byte, char.bad)
  BY <1>1, MarksAssumption DEF Marks!Char
<1>3. CASE bad
  <2>1. Marks!Mark(char) = <<255, 0, byte>>
    BY <1>2, <1>3 DEF Marks!Mark
  <2> QED
    BY <1>2, <2>1
<1>4. CASE ~bad /\ byte = 255
  <2>1. Marks!Mark(char) = <<255, 255>>
    BY <1>2, <1>4 DEF Marks!Mark
  <2> QED
    BY <1>2, <2>1
<1>5. CASE ~bad /\ byte # 255
  <2>1. Marks!Mark(char) = <<byte>>
    BY <1>2, <1>5 DEF Marks!Mark
  <2> QED
    BY <1>2, <2>1
<1> QED
  BY <1>3, <1>4, <1>5

LEMMA DueIs ==
  ASSUME NEW char \in Characters, NEW from \in Marks!Accounts
  PROVE  /\ Marks!Due(from, char) \in Marks!Accounts
         /\ Marks!Due(from, char).bytes = from.bytes + Len(Marks!Mark(char))
         /\ Marks!Due(from, char).data =
              IF char.bad /\ char.byte = 0 THEN from.data ELSE from.data \o <<char.byte>>
         /\ Marks!Due(from, char).marked =
              from.marked + IF char.bad /\ char.byte # 0 THEN 1 ELSE 0
         /\ Marks!Due(from, char).breaks =
              from.breaks + IF char.bad /\ char.byte = 0 THEN 1 ELSE 0
<1>1. /\ Len(Marks!Mark(char)) \in Nat /\ char.byte \in 0..255
      /\ from.bytes \in Nat /\ from.data \in Seq(0..255) /\ from.marked \in Nat
      /\ from.breaks \in Nat
  BY MarkIs DEF Marks!Accounts
<1>2. /\ Append(from.data, char.byte) \in Seq(0..255)
      /\ Append(from.data, char.byte) = from.data \o <<char.byte>>
  BY SMTT(30), <1>1, AppendProperties, AppendIsConcat
<1> DEFINE to == Marks!Due(from, char)
<1>3. to = [bytes |-> from.bytes + Len(Marks!Mark(char)),
            data |-> IF char.bad /\ char.byte = 0 THEN from.data ELSE Append(from.data, char.byte),
            marked |-> from.marked + IF char.bad /\ char.byte # 0 THEN 1 ELSE 0,
            breaks |-> from.breaks + IF char.bad /\ char.byte = 0 THEN 1 ELSE 0]
  BY DEF Marks!Due
<1> HIDE DEF to
<1>4. /\ to.bytes \in Nat /\ to.data \in Seq(0..255) /\ to.marked \in Nat /\ to.breaks \in Nat
  <2>1. \A n \in Nat, c \in BOOLEAN : n + (IF c THEN 1 ELSE 0) \in Nat
    OBVIOUS
  <2>2. (char.bad /\ char.byte # 0) \in BOOLEAN /\ (char.bad /\ char.byte = 0) \in BOOLEAN
    OBVIOUS
  <2>3. to.bytes \in Nat
    BY <1>1, <1>3
  <2>4. to.data \in Seq(0..255)
    BY <1>1, <1>2, <1>3
  <2>5. to.marked \in Nat
    BY <1>1, <1>3, <2>1, <2>2
  <2>6. to.breaks \in Nat
    BY <1>1, <1>3, <2>1, <2>2
  <2> QED
    BY <2>3, <2>4, <2>5, <2>6
<1>5. to \in Marks!Accounts
  BY <1>3, <1>4 DEF Marks!Accounts
<1> QED
  BY <1>2, <1>3, <1>5 DEF to

LEMMA DataGrows ==
  ASSUME NEW a \in Seq(0..255), NEW b \in Seq(0..255), NEW c \in Seq(0..255)
  PROVE  (a \o b) \o c = a \o (b \o c)
BY ConcatAssociative

(* The loop takes one more mark that is there complete. *)
LEMMA PassTakes ==
  ASSUME NEW bytes \in Seq(0..255), NEW loop, NEW char \in Characters,
         NEW first \in Marks!Accounts, NEW from \in Marks!Accounts,
         Between(loop, first, from), loop.at \in 1..Len(bytes),
         MarkAt(bytes, loop.at, char), loop.at + Len(Marks!Mark(char)) - 1 <= Len(bytes)
  PROVE  Between(Marks!Pass(bytes, loop), first, Marks!Due(from, char))
<1> DEFINE at == loop.at
           byte == char.byte
           bad == char.bad
           size == Len(Marks!Mark(char))
           taken == IF bad /\ byte = 0 THEN <<>> ELSE <<byte>>
           event == IF ~bad THEN "data" ELSE IF byte = 0 THEN "break" ELSE "marked"
           to == Marks!Due(from, char)
           next == Marks!Pass(bytes, loop)
<1>1. /\ byte \in 0..255 /\ bad \in BOOLEAN /\ char = Marks!Char(byte, bad) /\ size \in Nat
      /\ at \in 1..Len(bytes)
  BY MarkIs
<1>2. Marks!Take(bytes, at) = [size |-> size, data |-> taken, event |-> event]
  <2>1. /\ MarkAt(bytes, at, Marks!Char(byte, bad))
        /\ at + Len(Marks!Mark(Marks!Char(byte, bad))) - 1 <= Len(bytes)
        /\ size = Len(Marks!Mark(Marks!Char(byte, bad)))
    BY <1>1
  <2> HIDE DEF at, byte, bad, size
  <2> QED
    BY <1>1, <2>1, MarksAreTakenWhole
<1>3. ~(at > Len(bytes))
  BY <1>1, LenProperties
<1>4. next = [at |-> at + size, data |-> loop.data \o taken,
              marked |-> loop.marked + IF event = "marked" THEN 1 ELSE 0,
              breaks |-> loop.breaks + IF event = "break" THEN 1 ELSE 0]
  BY <1>2, <1>3 DEF Marks!Pass, Marks!Tally
<1>5. /\ loop.at = from.bytes - first.bytes + 1 /\ loop.marked = from.marked - first.marked
      /\ loop.breaks = from.breaks - first.breaks
      /\ loop.data \in Seq(0..255) /\ first.data \o loop.data = from.data
  BY DEF Between
<1>6. /\ to.bytes = from.bytes + size
      /\ to.data = IF bad /\ byte = 0 THEN from.data ELSE from.data \o <<byte>>
      /\ to.marked = from.marked + IF bad /\ byte # 0 THEN 1 ELSE 0
      /\ to.breaks = from.breaks + IF bad /\ byte = 0 THEN 1 ELSE 0
  BY DueIs
<1>7. taken \in Seq(0..255) /\ to.data = from.data \o taken
  <2>1. from.data \o <<>> = from.data
    BY ConcatEmptySeq DEF Marks!Accounts
  <2> HIDE DEF byte, bad, to
  <2>2. CASE bad /\ byte = 0
    <3>1. taken = <<>> /\ to.data = from.data
      BY <1>6, <2>2
    <3> HIDE DEF taken
    <3> QED
      BY <2>1, <3>1, EmptySeq
  <2>3. CASE ~(bad /\ byte = 0)
    <3>1. taken = <<byte>> /\ to.data = from.data \o <<byte>>
      BY <1>6, <2>3
    <3>2. <<byte>> \in Seq(0..255)
      BY <1>1
    <3> HIDE DEF taken
    <3> QED
      BY <3>1, <3>2
  <2> QED
    BY <2>2, <2>3
<1>8. /\ (event = "marked") <=> (bad /\ byte # 0)
      /\ (event = "break") <=> (bad /\ byte = 0)
  BY <1>1
<1>9. /\ first.data \in Seq(0..255) /\ first.bytes \in Nat /\ first.marked \in Nat
      /\ first.breaks \in Nat /\ from.bytes \in Nat /\ from.marked \in Nat /\ from.breaks \in Nat
  BY DEF Marks!Accounts
<1> HIDE DEF next, to, taken, event, size, byte, bad, at
<1>10. /\ loop.data \o taken \in Seq(0..255)
       /\ first.data \o (loop.data \o taken) = to.data
  <2>1. loop.data \in Seq(0..255) /\ taken \in Seq(0..255) /\ first.data \in Seq(0..255)
    BY <1>5, <1>7, <1>9
  <2>2. loop.data \o taken \in Seq(0..255)
    BY <2>1, ConcatProperties
  <2>3. (first.data \o loop.data) \o taken = first.data \o (loop.data \o taken)
    BY ZenonT(30), <2>1, DataGrows
  <2> QED
    BY <1>5, <1>7, <2>2, <2>3
<1>11. /\ at + size = to.bytes - first.bytes + 1
       /\ next.marked = to.marked - first.marked
       /\ next.breaks = to.breaks - first.breaks
  <2>1. at + size = to.bytes - first.bytes + 1
    <3>1. at = from.bytes - first.bytes + 1
      BY <1>5 DEF at
    <3>2. from.bytes \in Nat /\ first.bytes \in Nat /\ size \in Nat /\ to.bytes = from.bytes + size
      BY <1>1, <1>6, <1>9
    <3> QED
      BY <3>1, <3>2
  <2>2. next.marked = to.marked - first.marked
    BY SMTT(30), <1>4, <1>5, <1>6, <1>8, <1>9
  <2>3. next.breaks = to.breaks - first.breaks
    BY SMTT(30), <1>4, <1>5, <1>6, <1>8, <1>9
  <2> QED
    BY <2>1, <2>2, <2>3
<1>12. next = [at |-> to.bytes - first.bytes + 1, data |-> next.data,
               marked |-> to.marked - first.marked, breaks |-> to.breaks - first.breaks]
       /\ next.data = loop.data \o taken
  BY <1>4, <1>11
<1> QED
  BY <1>10, <1>12 DEF Between, next, to

(* It stays before one that is cut off. *)
LEMMA PassWaits ==
  ASSUME NEW bytes \in Seq(0..255), NEW loop, NEW char \in Characters,
         NEW first \in Marks!Accounts, NEW from \in Marks!Accounts,
         Between(loop, first, from), loop.at \in 1..Len(bytes),
         MarkAt(bytes, loop.at, char), Len(bytes) < loop.at + Len(Marks!Mark(char)) - 1
  PROVE  Marks!Pass(bytes, loop) = loop
<1> DEFINE byte == char.byte
           bad == char.bad
<1>1. Marks!Take(bytes, loop.at) = [size |-> 0, data |-> <<>>, event |-> "wait"]
  <2>1. /\ byte \in 0..255 /\ bad \in BOOLEAN /\ MarkAt(bytes, loop.at, Marks!Char(byte, bad))
        /\ Len(bytes) < loop.at + Len(Marks!Mark(Marks!Char(byte, bad))) - 1
    BY MarkIs
  <2> HIDE DEF byte, bad
  <2> QED
    BY <2>1, CutMarksWait
<1>2. ~(loop.at > Len(bytes))
  BY LenProperties
<1>3. Marks!Pass(bytes, loop) = [at |-> loop.at + 0, data |-> loop.data \o <<>>,
                                 marked |-> loop.marked + 0, breaks |-> loop.breaks + 0]
  BY <1>1, <1>2 DEF Marks!Pass, Marks!Tally
<1>4. loop.data \o <<>> = loop.data
  BY ConcatEmptySeq DEF Between
<1>5. /\ loop = [at |-> loop.at, data |-> loop.data, marked |-> loop.marked,
                 breaks |-> loop.breaks]
      /\ loop.at \in Int /\ loop.marked \in Int /\ loop.breaks \in Int
  BY SMTT(30) DEF Between, Marks!Accounts
<1> QED
  BY <1>3, <1>4, <1>5

LEMMA WiredTypes ==
  ASSUME NEW chars, NEW wire, NEW due, Wired(chars, wire, due), NEW t \in 1..Len(due)
  PROVE  /\ due[t] \in Marks!Accounts /\ due[t].bytes \in Nat
         /\ Len(due) \in Nat /\ Len(wire) \in Nat /\ Len(chars) \in Nat
         /\ wire \in Seq(0..255)
<1>1. /\ due \in Seq(Marks!Accounts) /\ wire \in Seq(0..255) /\ chars \in Seq(Characters)
  BY DEF Wired
<1>2. due[t] \in Marks!Accounts
  BY <1>1, ElementOfSeq
<1>3. due[t].bytes \in Nat
  BY <1>2 DEF Marks!Accounts
<1> QED
  BY <1>1, <1>2, <1>3, LenProperties

(* What is on the wire, mark by mark. *)
LEMMA WiredIs ==
  ASSUME NEW chars, NEW wire, NEW due, Wired(chars, wire, due), NEW t \in 1..Len(due)
  PROVE  /\ due[t] \in Marks!Accounts
         /\ t = Len(due) => due[t].bytes = Len(wire)
         /\ t # Len(due) =>
              /\ t + 1 \in 1..Len(due) /\ chars[t] \in Characters
              /\ due[t + 1] = Marks!Due(due[t], chars[t])
              /\ due[t + 1].bytes = due[t].bytes + Len(Marks!Mark(chars[t]))
              /\ \A i \in 1..Len(Marks!Mark(chars[t])) :
                   wire[due[t].bytes + i] = Marks!Mark(chars[t])[i]
<1>1. due[t] \in Marks!Accounts /\ Len(due) \in Nat /\ Len(chars) \in Nat
  BY WiredTypes
<1>2. t = Len(due) => due[t].bytes = Len(wire)
  BY DEF Wired
<1>3. ASSUME t # Len(due)
      PROVE  /\ t + 1 \in 1..Len(due) /\ chars[t] \in Characters
             /\ due[t + 1] = Marks!Due(due[t], chars[t])
             /\ due[t + 1].bytes = due[t].bytes + Len(Marks!Mark(chars[t]))
             /\ \A i \in 1..Len(Marks!Mark(chars[t])) :
                  wire[due[t].bytes + i] = Marks!Mark(chars[t])[i]
  <2>1. Len(due) = Len(chars) + 1
    BY DEF Wired
  <2>2. t + 1 \in 1..Len(due) /\ t \in 1..Len(chars)
    BY <1>1, <1>3, <2>1
  <2>3. chars[t] \in Characters
    BY <2>2, ElementOfSeq DEF Wired
  <2>4. /\ due[t + 1] = Marks!Due(due[t], chars[t])
        /\ \A i \in 1..Len(Marks!Mark(chars[t])) :
             wire[due[t].bytes + i] = Marks!Mark(chars[t])[i]
    BY <2>2 DEF Wired
  <2>5. due[t + 1].bytes = due[t].bytes + Len(Marks!Mark(chars[t]))
    <3> DEFINE char == chars[t]
               from == due[t]
    <3>1. char \in Characters /\ from \in Marks!Accounts /\ due[t + 1] = Marks!Due(from, char)
      BY <1>1, <2>3, <2>4
    <3> HIDE DEF char, from
    <3>2. Marks!Due(from, char).bytes = from.bytes + Len(Marks!Mark(char))
      BY <3>1, DueIs
    <3> QED
      BY <3>1, <3>2 DEF char, from
  <2> QED
    BY <2>2, <2>3, <2>4, <2>5
<1> QED
  BY <1>1, <1>2, <1>3

(* One pass of the loop over what is pending: it stays where the read ends *)
(* within a mark, or takes the next mark.                                  *)
LEMMA PassStep ==
  ASSUME NEW chars, NEW wire, NEW due, Wired(chars, wire, due), NEW k \in 1..Len(due),
         NEW m \in 0..Len(wire), due[k].bytes <= m, NEW t \in 1..Len(due),
         due[k].bytes <= due[t].bytes, due[t].bytes <= m, NEW bytes, bytes = SubSeq(wire, due[k].bytes + 1, m),
         NEW loop, Between(loop, due[k], due[t])
  PROVE  \/ ReadWhole(t, due, m) /\ Marks!Pass(bytes, loop) = loop
         \/ /\ t + 1 \in 1..Len(due)
            /\ due[t + 1].bytes <= m /\ due[t + 1].bytes >= due[t].bytes + 1
            /\ Between(Marks!Pass(bytes, loop), due[k], due[t + 1])
<1> DEFINE a == due[k].bytes
           b == due[t].bytes
           char == chars[t]
           size == Len(Marks!Mark(char))
<1>1. /\ due[k] \in Marks!Accounts /\ due[t] \in Marks!Accounts
      /\ a \in Nat /\ b \in Nat /\ Len(wire) \in Nat /\ Len(due) \in Nat /\ a <= b /\ b <= m
  BY WiredTypes
<1>2. /\ bytes \in Seq(0..255) /\ Len(bytes) = m - a
      /\ \A i \in 1..(m - a) : bytes[i] = wire[a + i]
  <2> DEFINE stretch == SubSeq(wire, a + 1, m)
  <2>1. wire \in Seq(0..255) /\ a \in 0..Len(wire) /\ m \in a..Len(wire)
    BY <1>1, WiredTypes
  <2>2. bytes = stretch
    OBVIOUS
  <2> HIDE DEF a
  <2>3. /\ stretch \in Seq(0..255) /\ Len(stretch) = m - a
        /\ \A i \in 1..(m - a) : stretch[i] = wire[a + i]
    BY <2>1, Part
  <2> HIDE DEF stretch
  <2> QED
    BY <2>2, <2>3
<1>3. loop.at = b - a + 1
  BY DEF Between
<1>4. t # Len(due) =>
        /\ t + 1 \in 1..Len(due) /\ char \in Characters /\ size \in 1..3
        /\ due[t + 1] = Marks!Due(due[t], char) /\ due[t + 1].bytes = b + size
        /\ \A i \in 1..size : wire[b + i] = Marks!Mark(char)[i]
  <2>1. SUFFICES ASSUME t # Len(due)
                 PROVE  /\ t + 1 \in 1..Len(due) /\ char \in Characters /\ size \in 1..3
                        /\ due[t + 1] = Marks!Due(due[t], char) /\ due[t + 1].bytes = b + size
                        /\ \A i \in 1..size : wire[b + i] = Marks!Mark(char)[i]
    OBVIOUS
  <2>2. /\ t + 1 \in 1..Len(due) /\ char \in Characters
        /\ due[t + 1] = Marks!Due(due[t], char) /\ due[t + 1].bytes = b + size
    BY <2>1, WiredIs
  <2>4. \A i \in 1..size : wire[b + i] = Marks!Mark(char)[i]
    BY <2>1, WiredIs
  <2>3. size \in 1..3
    <3> HIDE DEF char
    <3> QED
      BY <2>2, MarkIs
  <2> QED
    BY <2>2, <2>3, <2>4
<1> DEFINE at == loop.at
           len == Len(bytes)
<1>5. a \in Nat /\ b \in Nat /\ m \in Nat /\ a <= b /\ b <= m /\ at = b - a + 1
      /\ len = m - a /\ Len(due) \in Nat
  BY <1>1, <1>2, <1>3
<1>6. t = Len(due) => b = Len(wire)
  BY WiredIs
<1> HIDE DEF a, b, char, size, at, len
<1>7. at <= len => at \in 1..len
  BY <1>5
<1>8. CASE b = m
  <2>1. at > len
    BY <1>8, <1>5
  <2>2. Marks!Pass(bytes, loop) = loop
    BY <2>1 DEF Marks!Pass, at, len
  <2>3. t < Len(due) => m < due[t + 1].bytes
    <3>1. SUFFICES ASSUME t < Len(due) PROVE m < due[t + 1].bytes
      OBVIOUS
    <3>2. due[t + 1].bytes = b + size /\ size \in 1..3
      BY <1>4, <1>5, <3>1
    <3> QED
      BY SMTT(30), <1>8, <1>5, <3>2
  <2> QED
    BY <1>8, <1>5, <2>2, <2>3 DEF ReadWhole, b
<1>9. CASE b # m
  <2>1. t # Len(due)
    BY <1>1, <1>9, <1>5, <1>6
  <2>2. at \in 1..len
    BY <1>9, <1>5
  <2>3. size \in 1..3 /\ due[t + 1].bytes = b + size
    BY <1>4, <2>1
  <2>4. MarkAt(bytes, at, char)
    <3>1. ASSUME NEW i \in 1..size, at + i - 1 <= len
          PROVE  bytes[at + i - 1] = Marks!Mark(char)[i]
      <4>1. at + i - 1 \in 1..(m - a) /\ a + (at + i - 1) = b + i
        <5>1. i \in Nat /\ i >= 1 /\ at + i - 1 = (b + i) - a
          BY <1>5, <2>3
        <5>2. (b + i) - a <= m - a
          BY <1>5, <3>1, <5>1
        <5> QED
          BY SMTT(30), <1>5, <5>1, <5>2
      <4> QED
        BY <1>2, <1>4, <2>1, <4>1
    <3> QED
      BY <3>1 DEF MarkAt, size, len
  <2>5. CASE b + size <= m
    <3>1. at + size - 1 <= len
      <4>1. at + size - 1 = (b + size) - a
        BY <1>5, <2>3
      <4>2. (b + size) - a <= m - a
        BY <1>5, <2>5, <2>3
      <4> QED
        BY <1>5, <4>1, <4>2
    <3>2. Between(Marks!Pass(bytes, loop), due[k], Marks!Due(due[t], char))
      <4>1. char \in Characters /\ bytes \in Seq(0..255)
        BY <1>2, <1>4, <2>1
      <4>2. at + Len(Marks!Mark(char)) - 1 <= len
        BY <3>1 DEF size
      <4> QED
        BY <1>1, <2>2, <2>4, <4>1, <4>2, PassTakes DEF at, len
    <3>3. due[t + 1].bytes <= m /\ due[t + 1].bytes >= b + 1
      <4>1. b + size <= m /\ b + size >= b + 1
        BY <1>5, <2>5, <2>3
      <4> QED
        BY <4>1, <2>3
    <3> QED
      BY <1>4, <2>1, <3>2, <3>3 DEF b
  <2>6. CASE ~(b + size <= m)
    <3>1. len < at + size - 1
      <4>1. at + size - 1 = (b + size) - a
        BY <1>5, <2>3
      <4>2. m - a < (b + size) - a
        BY <1>5, <2>6, <2>3
      <4> QED
        BY <1>5, <4>1, <4>2
    <3>2. Marks!Pass(bytes, loop) = loop
      <4>1. char \in Characters /\ bytes \in Seq(0..255)
        BY <1>2, <1>4, <2>1
      <4>2. len < at + Len(Marks!Mark(char)) - 1
        BY <3>1 DEF size
      <4> QED
        BY <1>1, <2>2, <2>4, <4>1, <4>2, PassWaits DEF at, len
    <3>3. m < due[t + 1].bytes
      <4>1. m < b + size
        BY <1>5, <2>6, <2>3
      <4> QED
        BY <4>1, <2>3
    <3> QED
      BY <1>5, <3>2, <3>3 DEF ReadWhole, b
  <2> QED
    BY <2>5, <2>6
<1> QED
  BY <1>8, <1>9

(* The loop takes every mark that was read complete, and no part of one.   *)
LEMMA DecodesWhole ==
  ASSUME NEW chars, NEW wire, NEW due, Wired(chars, wire, due), NEW k \in 1..Len(due),
         NEW m \in 0..Len(wire), due[k].bytes <= m
  PROVE  \E t \in 1..Len(due) :
           /\ ReadWhole(t, due, m) /\ due[k].bytes <= due[t].bytes
           /\ Between(Marks!Decoded(SubSeq(wire, due[k].bytes + 1, m)), due[k], due[t])
<1> DEFINE a == due[k].bytes
           bytes == SubSeq(wire, a + 1, m)
           size == m - a
<1>1. due[k] \in Marks!Accounts /\ a \in Nat /\ Len(wire) \in Nat /\ Len(due) \in Nat
  BY WiredTypes
<1>2. size \in Nat /\ Len(bytes) = size
  <2>1. wire \in Seq(0..255) /\ a \in 0..Len(wire) /\ m \in a..Len(wire)
    BY <1>1, WiredTypes
  <2>2. Len(SubSeq(wire, a + 1, m)) = m - a
    <3> HIDE DEF a
    <3> QED
      BY <2>1, Part
  <2> QED
    BY <1>1, <2>2
<1>3. PICK g : Passes(g, bytes, size) /\ Marks!Decoded(bytes) = g[size]
  <2> HIDE DEF bytes, size
  <2> QED
    BY <1>2, DecodedIs
<1> DEFINE Taken(n, t) == /\ a <= due[t].bytes /\ due[t].bytes <= m
                          /\ Between(g[n], due[k], due[t])
                          /\ due[t].bytes - a >= n \/ ReadWhole(t, due, m)
           S == {n \in Nat : n <= size => \E t \in 1..Len(due) : Taken(n, t)}
<1> HIDE DEF bytes
<1>4. 0 \in S
  <2>1. g[0] = Marks!Begin
    BY <1>2, <1>3 DEF Passes
  <2>2. Between(Marks!Begin, due[k], due[k])
    <3>1. due[k].data \in Seq(0..255) /\ due[k].data \o <<>> = due[k].data /\ <<>> \in Seq(0..255)
      BY <1>1, ConcatEmptySeq, EmptySeq DEF Marks!Accounts
    <3> QED
      BY <1>1, <3>1 DEF Between, Marks!Begin, Marks!Accounts
  <2>3. Taken(0, k)
    BY <1>1, <2>1, <2>2
  <2> QED
    BY <2>3
<1>5. ASSUME NEW n \in Nat, n \in S
      PROVE  n + 1 \in S
  <2>1. SUFFICES ASSUME n + 1 <= size PROVE \E t \in 1..Len(due) : Taken(n + 1, t)
    OBVIOUS
  <2>2. PICK t \in 1..Len(due) : Taken(n, t)
    BY <1>2, <1>5, <2>1
  <2>3. g[n + 1] = Marks!Pass(bytes, g[n])
    <3>1. n + 1 \in 0..size /\ n + 1 # 0 /\ (n + 1) - 1 = n
      BY <1>2, <2>1
    <3> QED
      BY <1>3, <3>1 DEF Passes
  <2>4. \/ ReadWhole(t, due, m) /\ Marks!Pass(bytes, g[n]) = g[n]
        \/ /\ t + 1 \in 1..Len(due)
           /\ due[t + 1].bytes <= m /\ due[t + 1].bytes >= due[t].bytes + 1
           /\ Between(Marks!Pass(bytes, g[n]), due[k], due[t + 1])
    BY <2>2, PassStep DEF bytes
  <2>5. CASE ReadWhole(t, due, m) /\ Marks!Pass(bytes, g[n]) = g[n]
    <3>1. Taken(n + 1, t)
      BY <2>2, <2>3, <2>5
    <3> QED
      BY <3>1
  <2>6. CASE ReadWhole(t, due, m) /\ t + 1 \in 1..Len(due) /\ due[t + 1].bytes <= m
    <3>1. t < Len(due)
      BY <1>1, <2>6
    <3>2. m < due[t + 1].bytes
      BY <2>6, <3>1 DEF ReadWhole
    <3>3. due[t + 1].bytes \in Nat /\ m \in Nat
      BY <1>1, <2>6, WiredIs DEF Marks!Accounts
    <3> QED
      BY <2>6, <3>2, <3>3
  <2>7. CASE /\ ~ReadWhole(t, due, m) /\ t + 1 \in 1..Len(due)
             /\ due[t + 1].bytes <= m /\ due[t + 1].bytes >= due[t].bytes + 1
             /\ Between(Marks!Pass(bytes, g[n]), due[k], due[t + 1])
    <3>1. due[t].bytes \in Nat /\ due[t + 1].bytes \in Nat
      BY SMTT(30), <2>7, WiredIs DEF Marks!Accounts
    <3>2. a <= due[t].bytes /\ due[t].bytes - a >= n
      BY <2>2, <2>7
    <3>3. a <= due[t + 1].bytes /\ due[t + 1].bytes - a >= n + 1
      <4> DEFINE b == due[t].bytes
                 c == due[t + 1].bytes
      <4>1. a \in Nat /\ b \in Nat /\ c \in Nat /\ c >= b + 1 /\ a <= b /\ b - a >= n
        BY <1>1, <2>7, <3>1, <3>2
      <4> HIDE DEF a, b, c
      <4>2. a <= c /\ c - a >= n + 1
        BY <4>1
      <4> QED
        BY <4>2 DEF c
    <3>4. Taken(n + 1, t + 1)
      BY <2>3, <2>7, <3>3
    <3> QED
      BY <2>7, <3>4
  <2> HIDE DEF Whole
  <2> QED
    BY <2>4, <2>5, <2>6, <2>7
<1> HIDE DEF S
<1>6. Nat \subseteq S
  BY <1>4, <1>5, Induction
<1>7. PICK t \in 1..Len(due) : Taken(size, t)
  BY <1>2, <1>6 DEF S
<1>8. ReadWhole(t, due, m)
  <2>1. SUFFICES ASSUME due[t].bytes - a >= size, due[t].bytes <= m
                 PROVE  ReadWhole(t, due, m)
    BY <1>7
  <2>2. due[t].bytes \in Nat
    BY WiredIs DEF Marks!Accounts
  <2>3. due[t].bytes = m
    BY <1>1, <2>1, <2>2
  <2>4. t < Len(due) => m < due[t + 1].bytes
    <3>1. SUFFICES ASSUME t # Len(due) PROVE m < due[t + 1].bytes
      BY <1>1
    <3> DEFINE char == chars[t]
               more == Len(Marks!Mark(char))
    <3>2. due[t + 1].bytes = due[t].bytes + more /\ char \in Characters
      BY <3>1, WiredIs
    <3> HIDE DEF char
    <3>3. more \in 1..3
      BY <3>2, MarkIs
    <3> HIDE DEF more
    <3> QED
      BY <2>3, <3>2, <3>3
  <2> QED
    BY <2>1, <2>4 DEF ReadWhole
<1> QED
  BY <1>3, <1>7, <1>8 DEF bytes

(* One more read: what waited is put before it, and what is complete is    *)
(* added to what was recorded.                                             *)
LEMMA ReadStep ==
  ASSUME NEW chars, NEW wire, NEW due, Wired(chars, wire, due),
         NEW read \in 0..Len(wire), NEW n \in 1..(Len(wire) - read),
         NEW k \in 1..Len(due), ReadWhole(k, due, read),
         NEW capture, Captured(capture, k, due, wire, read)
  PROVE  LET next == Marks!ReadBlock(capture, SubSeq(wire, read + 1, read + n))
         IN  \E t \in 1..Len(due) :
               /\ ReadWhole(t, due, read + n) /\ Captured(next, t, due, wire, read + n)
               /\ Len(next.chunks) = Len(capture.chunks) + 1
<1> DEFINE m == read + n
           a == due[k].bytes
           block == SubSeq(wire, read + 1, m)
           bytes == capture.pending \o block
           decoded == Marks!Decoded(bytes)
           next == Marks!ReadBlock(capture, block)
<1>1. /\ due[k] \in Marks!Accounts /\ a \in Nat /\ Len(wire) \in Nat /\ wire \in Seq(0..255)
  BY WiredTypes
<1>2. /\ a <= read /\ read \in Nat /\ m \in 0..Len(wire) /\ a <= m
      /\ a \in 0..Len(wire) /\ m \in read..Len(wire) /\ m \in a..Len(wire)
      /\ read \in a..Len(wire) /\ read \in 0..Len(wire) /\ m - read = n
  <2>1. a <= read
    BY DEF ReadWhole
  <2> HIDE DEF a
  <2> QED
    BY <1>1, <2>1
<1>3. /\ capture.pending = SubSeq(wire, a + 1, read)
      /\ capture.marked = due[k].marked /\ capture.breaks = due[k].breaks
      /\ capture.chunks \in Seq(Seq(0..255)) /\ Marks!Joined(capture.chunks) = due[k].data
  <2> HIDE DEF a
  <2> QED
    BY DEF Captured, a
<1> HIDE DEF m, a
<1>4. block # <<>>
  <2>1. Len(block) = n
    BY <1>1, <1>2, Part
  <2> HIDE DEF block
  <2>2. Len(<<>>) = 0
    BY EmptySeq
  <2> QED
    BY <2>1, <2>2
<1>5. bytes = SubSeq(wire, a + 1, m) /\ bytes \in Seq(0..255) /\ Len(bytes) = m - a
  <2>1. a + 1 \in 1..(Len(wire) + 1) /\ read \in ((a + 1) - 1)..Len(wire)
    BY <1>1, <1>2
  <2>2. SubSeq(wire, a + 1, read) \o SubSeq(wire, read + 1, m) = SubSeq(wire, a + 1, m)
    BY <1>1, <1>2, <2>1, ConcatAdjacentSubSeq
  <2>3. bytes = SubSeq(wire, a + 1, m)
    BY <1>3, <2>2
  <2>4. SubSeq(wire, a + 1, m) \in Seq(0..255) /\ Len(SubSeq(wire, a + 1, m)) = m - a
    BY SMTT(30), <1>1, <1>2, Part
  <2> HIDE DEF bytes
  <2> QED
    BY <2>3, <2>4
<1>6. next = [pending |-> SubSeq(bytes, decoded.at, Len(bytes)),
              chunks |-> Append(capture.chunks, decoded.data),
              marked |-> capture.marked + decoded.marked,
              breaks |-> capture.breaks + decoded.breaks]
  <2> HIDE DEF block
  <2> QED
    BY <1>4 DEF Marks!ReadBlock
<1> HIDE DEF block, bytes, next
<1>7. PICK t \in 1..Len(due) : ReadWhole(t, due, m) /\ a <= due[t].bytes
                               /\ Between(decoded, due[k], due[t])
  <2>1. due[k].bytes <= m
    BY <1>2 DEF a
  <2> QED
    BY <1>2, <1>5, <2>1, DecodesWhole DEF a
<1> HIDE DEF decoded
<1> DEFINE c == due[t].bytes
<1>8. due[t] \in Marks!Accounts /\ c \in Nat /\ c <= m /\ c \in a..m
  <2>1. due[t] \in Marks!Accounts /\ c \in Nat
    BY WiredTypes
  <2>2. c <= m /\ a <= c
    BY <1>7 DEF ReadWhole
  <2> HIDE DEF c
  <2> QED
    BY <1>1, <1>2, <2>1, <2>2
<1>9. /\ decoded.at = (c - a) + 1 /\ decoded.marked = due[t].marked - due[k].marked
      /\ decoded.breaks = due[t].breaks - due[k].breaks
      /\ decoded.data \in Seq(0..255) /\ due[k].data \o decoded.data = due[t].data
  BY <1>7 DEF Between, a
<1> HIDE DEF c
<1>10. SubSeq(bytes, decoded.at, Len(bytes)) = SubSeq(wire, c + 1, m)
  BY <1>1, <1>2, <1>5, <1>8, <1>9, PartOfPart
<1>11. /\ capture.marked + decoded.marked = due[t].marked
       /\ capture.breaks + decoded.breaks = due[t].breaks
  <2>1. /\ due[k].marked \in Nat /\ due[k].breaks \in Nat /\ due[t].marked \in Nat
        /\ due[t].breaks \in Nat
    BY <1>1, <1>8 DEF Marks!Accounts
  <2>2. \A x, y \in Nat : x + (y - x) = y
    OBVIOUS
  <2>3. due[k].marked + (due[t].marked - due[k].marked) = due[t].marked
    BY <2>1, <2>2
  <2>4. due[k].breaks + (due[t].breaks - due[k].breaks) = due[t].breaks
    BY <2>1, <2>2
  <2> QED
    BY <1>3, <1>9, <2>3, <2>4
<1>12. /\ Append(capture.chunks, decoded.data) \in Seq(Seq(0..255))
       /\ Len(Append(capture.chunks, decoded.data)) = Len(capture.chunks) + 1
       /\ Marks!Joined(Append(capture.chunks, decoded.data)) = due[t].data
  <2>1. Marks!Joined(Append(capture.chunks, decoded.data))
          = Marks!Joined(capture.chunks) \o decoded.data
    BY <1>3, <1>9, JoinedOneMore
  <2>2. /\ Append(capture.chunks, decoded.data) \in Seq(Seq(0..255))
        /\ Len(Append(capture.chunks, decoded.data)) = Len(capture.chunks) + 1
    BY <1>3, <1>9, AppendProperties
  <2> QED
    BY <1>3, <1>9, <2>1, <2>2
<1>13. Captured(next, t, due, wire, m) /\ Len(next.chunks) = Len(capture.chunks) + 1
  BY <1>6, <1>10, <1>11, <1>12 DEF Captured, c
<1> QED
  BY <1>7, <1>13 DEF m, next, block

(* What is due never becomes less. *)
LEMMA DueGrows ==
  ASSUME NEW chars, NEW wire, NEW due, Wired(chars, wire, due),
         NEW t \in 1..Len(due), NEW u \in t..Len(due)
  PROVE  due[t].bytes <= due[u].bytes
<1> DEFINE S == {n \in Nat : t + n <= Len(due) => due[t].bytes <= due[t + n].bytes}
<1>1. due[t].bytes \in Nat /\ Len(due) \in Nat
  BY WiredTypes
<1>2. 0 \in S
  BY <1>1
<1>3. ASSUME NEW n \in Nat, n \in S
      PROVE  n + 1 \in S
  <2>1. SUFFICES ASSUME t + (n + 1) <= Len(due) PROVE due[t].bytes <= due[t + (n + 1)].bytes
    OBVIOUS
  <2> DEFINE k == t + n
  <2>2. k \in 1..Len(due) /\ k # Len(due) /\ t + (n + 1) = k + 1 /\ k <= Len(due)
    BY <1>1, <2>1
  <2>3. due[t].bytes <= due[k].bytes
    BY <1>3, <2>2
  <2> HIDE DEF k
  <2> DEFINE char == chars[k]
             more == Len(Marks!Mark(char))
  <2>4. due[k + 1].bytes = due[k].bytes + more /\ char \in Characters
    BY <2>2, WiredIs
  <2> HIDE DEF char
  <2>5. more \in 1..3
    BY <2>4, MarkIs
  <2> HIDE DEF more
  <2>6. due[k].bytes \in Nat
    BY <2>2, WiredTypes
  <2> DEFINE x == due[t].bytes
             y == due[k].bytes
  <2>7. x \in Nat /\ y \in Nat /\ x <= y /\ due[k + 1].bytes = y + more
    BY <1>1, <2>3, <2>4, <2>6
  <2> HIDE DEF x, y
  <2>8. x <= due[k + 1].bytes
    BY <2>5, <2>7
  <2> QED
    BY <2>2, <2>8 DEF x
<1> HIDE DEF S
<1>4. Nat \subseteq S
  BY <1>2, <1>3, Induction
<1>5. u - t \in Nat /\ t + (u - t) = u /\ u <= Len(due)
  BY <1>1
<1>6. u - t \in S
  BY <1>4, <1>5
<1> QED
  BY <1>5, <1>6 DEF S

(* One more character: its mark and what is due of it.                     *)
LEMMA WiredGrows ==
  ASSUME NEW chars, NEW wire, NEW due, Wired(chars, wire, due), NEW char \in Characters
  PROVE  Wired(Append(chars, char), wire \o Marks!Mark(char),
               Append(due, Marks!Due(due[Len(due)], char)))
<1> DEFINE mark == Marks!Mark(char)
           last == Len(due)
           to == Marks!Due(due[last], char)
           longer == Append(chars, char)
           wider == wire \o mark
           more == Append(due, to)
<1>1. /\ chars \in Seq(Characters) /\ wire \in Seq(0..255) /\ due \in Seq(Marks!Accounts)
      /\ last = Len(chars) + 1 /\ due[1] = Marks!Nothing /\ due[last].bytes = Len(wire)
      /\ Len(chars) \in Nat /\ Len(wire) \in Nat /\ last \in 1..Len(due)
  BY LenProperties DEF Wired
<1>2. mark \in Seq(0..255) /\ Len(mark) \in 1..3
  BY MarkIs
<1>3. due[last] \in Marks!Accounts
  BY <1>1, ElementOfSeq
<1>4. to \in Marks!Accounts /\ to.bytes = due[last].bytes + Len(mark)
  <2> DEFINE from == due[last]
  <2>1. from \in Marks!Accounts
    BY <1>3
  <2> HIDE DEF from
  <2>2. Marks!Due(from, char) \in Marks!Accounts
        /\ Marks!Due(from, char).bytes = from.bytes + Len(Marks!Mark(char))
    BY <2>1, DueIs
  <2> QED
    BY <2>2 DEF from
<1> HIDE DEF mark, to
<1>5. /\ longer \in Seq(Characters) /\ Len(longer) = Len(chars) + 1 /\ longer[Len(chars) + 1] = char
      /\ \A k \in 1..Len(chars) : longer[k] = chars[k]
  BY <1>1, AppendProperties
<1>6. /\ more \in Seq(Marks!Accounts) /\ Len(more) = last + 1 /\ more[last + 1] = to
      /\ \A k \in 1..last : more[k] = due[k]
  BY <1>1, <1>4, AppendProperties
<1>7. /\ wider \in Seq(0..255) /\ Len(wider) = Len(wire) + Len(mark)
      /\ \A i \in 1..Len(wire) : wider[i] = wire[i]
      /\ \A i \in 1..Len(mark) : wider[Len(wire) + i] = mark[i]
  <2>1. /\ wider \in Seq(0..255) /\ Len(wider) = Len(wire) + Len(mark)
        /\ \A i \in 1..(Len(wire) + Len(mark)) :
             wider[i] = IF i <= Len(wire) THEN wire[i] ELSE mark[i - Len(wire)]
    BY <1>1, <1>2, ConcatProperties
  <2> HIDE DEF wider
  <2>2. ASSUME NEW i \in 1..Len(wire) PROVE wider[i] = wire[i]
    BY <1>1, <1>2, <2>1
  <2>3. ASSUME NEW i \in 1..Len(mark) PROVE wider[Len(wire) + i] = mark[i]
    <3>1. /\ Len(wire) + i \in 1..(Len(wire) + Len(mark)) /\ ~(Len(wire) + i <= Len(wire))
          /\ (Len(wire) + i) - Len(wire) = i
      BY <1>1, <1>2
    <3> QED
      BY <2>1, <3>1
  <2> QED
    BY <2>1, <2>2, <2>3
<1>8. ASSUME NEW k \in 1..Len(longer)
      PROVE  /\ more[k + 1] = Marks!Due(more[k], longer[k])
             /\ \A i \in 1..Len(Marks!Mark(longer[k])) :
                  wider[more[k].bytes + i] = Marks!Mark(longer[k])[i]
  <2>1. CASE k \in 1..Len(chars)
    <3>1. k \in 1..last /\ k + 1 \in 1..last /\ k # last
      BY <1>1, <2>1
    <3>2. longer[k] = chars[k] /\ more[k] = due[k] /\ more[k + 1] = due[k + 1]
      BY <1>5, <1>6, <2>1, <3>1
    <3>3. /\ due[k + 1] = Marks!Due(due[k], chars[k]) /\ chars[k] \in Characters
          /\ due[k + 1].bytes = due[k].bytes + Len(Marks!Mark(chars[k]))
      BY <3>1, WiredIs
    <3>4. \A i \in 1..Len(Marks!Mark(chars[k])) :
            wire[due[k].bytes + i] = Marks!Mark(chars[k])[i]
      BY <3>1, WiredIs
    <3>5. ASSUME NEW i \in 1..Len(Marks!Mark(chars[k]))
          PROVE  due[k].bytes + i \in 1..Len(wire)
      <4>1. due[k].bytes \in Nat /\ due[k + 1].bytes \in Nat
        BY <3>1, WiredTypes
      <4>2. due[k + 1].bytes <= Len(wire)
        <5>1. due[k + 1].bytes <= due[last].bytes
          BY <3>1, DueGrows
        <5> QED
          BY <1>1, <5>1
      <4> DEFINE size == Len(Marks!Mark(chars[k]))
      <4>3. size \in 1..3
        <5> DEFINE this == chars[k]
        <5>1. this \in Characters
          BY <3>3
        <5> HIDE DEF this
        <5>2. Len(Marks!Mark(this)) \in 1..3
          BY <5>1, MarkIs
        <5> QED
          BY <5>2 DEF this
      <4>4. due[k + 1].bytes = due[k].bytes + size /\ i \in 1..size
        BY <3>3
      <4> DEFINE x == due[k].bytes
                 y == Len(wire)
      <4>5. x \in Nat /\ y \in Nat /\ x + size <= y
        BY <1>1, <4>1, <4>2, <4>4
      <4> HIDE DEF size, x, y
      <4>6. x + i \in 1..y
        BY <4>3, <4>4, <4>5
      <4> QED
        BY <4>6 DEF x, y
    <3> QED
      BY <1>7, <3>2, <3>3, <3>4, <3>5
  <2>2. CASE k = Len(chars) + 1
    <3>1. longer[k] = char /\ more[k] = due[last] /\ more[k + 1] = to /\ more[k].bytes = Len(wire)
      BY <1>1, <1>5, <1>6, <2>2
    <3> QED
      BY <1>7, <3>1 DEF to, mark
  <2>3. k \in 1..(Len(chars) + 1)
    BY <1>5
  <2>4. k \in 1..Len(chars) \/ k = Len(chars) + 1
    BY <1>1, <2>3
  <2> HIDE DEF longer, more, wider
  <2> QED
    BY <2>1, <2>2, <2>4
<1>9. Len(more) = Len(longer) + 1 /\ more[1] = Marks!Nothing
  BY <1>1, <1>5, <1>6
<1>10. more[Len(more)].bytes = Len(wider)
  BY <1>1, <1>4, <1>6, <1>7
<1> HIDE DEF longer, wider, more
<1>11. Wired(longer, wider, more)
  BY <1>5, <1>6, <1>7, <1>8, <1>9, <1>10 DEF Wired
<1> QED
  BY <1>11 DEF longer, wider, more, mark, to

(* At the beginning nothing is on the wire. *)
LEMMA MarksBegin == Init => MarksKnown
<1> SUFFICES ASSUME Init, subject = "marks"
             PROVE  MarksKnown
  BY DEF MarksKnown
<1>1. input = [chars |-> <<>>, wire |-> <<>>, due |-> <<Marks!Nothing>>, read |-> 0, reads |-> 0,
               capture |-> Marks!Start]
  BY DEF Init, CanInit, AnswerInit, PidsInit, MarksInit, StreamInit, TrafficInit, CompareInit,
         DeviceInit, ScopesInit
<1>2. /\ input.chars = <<>> /\ input.wire = <<>> /\ input.due = <<Marks!Nothing>>
      /\ input.read = 0 /\ input.reads = 0 /\ input.capture = Marks!Start
      /\ input = [chars |-> input.chars, wire |-> input.wire, due |-> input.due,
                  read |-> input.read, reads |-> input.reads, capture |-> input.capture]
  BY <1>1
<1>3. Len(<<>>) = 0
  OBVIOUS
<1>4. Wired(<<>>, <<>>, <<Marks!Nothing>>)
  <2>1. <<>> \in Seq(Characters) /\ <<>> \in Seq(0..255)
    BY EmptySeq
  <2>2. Marks!Nothing \in Marks!Accounts /\ Marks!Nothing.bytes = 0
    <3>1. <<>> \in Seq(0..255)
      BY EmptySeq
    <3> QED
      BY <3>1 DEF Marks!Nothing, Marks!Accounts
  <2> DEFINE zero == Marks!Nothing
  <2>3. zero \in Marks!Accounts /\ zero.bytes = 0
    BY <2>2
  <2> HIDE DEF zero
  <2>4. <<zero>> \in Seq(Marks!Accounts) /\ Len(<<zero>>) = 1 /\ <<zero>>[1] = zero
    BY <2>3
  <2>5. Wired(<<>>, <<>>, <<zero>>)
    <3>1. Len(<<zero>>) = Len(<<>>) + 1 /\ <<zero>>[Len(<<zero>>)].bytes = Len(<<>>)
      BY <1>3, <2>3, <2>4
    <3>2. \A k \in 1..Len(<<>>) : FALSE
      BY <1>3
    <3> QED
      BY <2>1, <2>4, <3>1, <3>2 DEF Wired, zero
  <2> QED
    BY <2>5 DEF zero
<1>5. ReadWhole(1, <<Marks!Nothing>>, 0)
  BY DEF ReadWhole, Marks!Nothing
<1>6. Captured(Marks!Start, 1, <<Marks!Nothing>>, <<>>, 0)
  <2>1. Marks!Start.chunks = <<>> /\ Marks!Nothing.data = <<>> /\ Marks!Nothing.bytes = 0
        /\ Marks!Nothing.marked = 0 /\ Marks!Nothing.breaks = 0
    BY DEF Marks!Start, Marks!Nothing
  <2>2. SubSeq(<<>>, 1, 0) = <<>>
    BY SubSeqEmpty
  <2>3. Marks!Joined(<<>>) = <<>>
    BY <1>3 DEF Marks!Joined, Marks!FlattenSeq
  <2>4. <<>> \in Seq(Seq(0..255))
    BY EmptySeq
  <2>5. <<Marks!Nothing>>[1] = Marks!Nothing
    OBVIOUS
  <2>6. Marks!Start = [pending |-> SubSeq(<<>>, 0 + 1, 0), chunks |-> Marks!Start.chunks,
                       marked |-> 0, breaks |-> 0]
    BY <2>2 DEF Marks!Start
  <2> QED
    BY <2>1, <2>3, <2>4, <2>5, <2>6 DEF Captured
<1>7. Len(Marks!Start.chunks) = 0 /\ 0 \in 0..Len(<<>>) /\ 1 \in 1..Len(<<Marks!Nothing>>)
  BY <1>3 DEF Marks!Start
<1> QED
  BY <1>2, <1>4, <1>5, <1>6, <1>7 DEF MarksKnown

(* The fields that change. *)
Shaped(in) ==
  in = [chars |-> in.chars, wire |-> in.wire, due |-> in.due, read |-> in.read,
        reads |-> in.reads, capture |-> in.capture]

(* A character is received. *)
LEMMA ReceiveCharStep ==
  ASSUME MarksKnown, NEW char \in Characters, ReceiveChar(char)
  PROVE  MarksKnown'
<1> DEFINE chars == input.chars
           wire == input.wire
           due == input.due
           read == input.read
           to == Marks!Due(due[Len(due)], char)
           mark == Marks!Mark(char)
<1>1. subject = "marks" /\ subject' = subject
  BY DEF ReceiveChar
<1>2. /\ input = [chars |-> chars, wire |-> wire, due |-> due, read |-> read,
                  reads |-> input.reads, capture |-> input.capture]
      /\ Wired(chars, wire, due) /\ read \in 0..Len(wire)
      /\ input.reads \in Nat /\ Len(input.capture.chunks) = input.reads
  BY <1>1 DEF MarksKnown
<1>3. PICK k \in 1..Len(due) : ReadWhole(k, due, read)
                               /\ Captured(input.capture, k, due, wire, read)
  BY <1>1 DEF MarksKnown
<1>4. input' = [input EXCEPT !.chars = Append(chars, char), !.wire = wire \o mark,
                             !.due = Append(due, to)]
  BY DEF ReceiveChar, Last
<1>5. /\ input'.chars = Append(chars, char) /\ input'.wire = wire \o mark
      /\ input'.due = Append(due, to) /\ input'.read = read
      /\ input'.reads = input.reads /\ input'.capture = input.capture
      /\ Shaped(input')
  <2> DEFINE longer == Append(chars, char)
             wider == wire \o mark
             more == Append(due, to)
             next == input'
  <2>1. Shaped(input)
    BY <1>2 DEF Shaped
  <2>2. next = [input EXCEPT !.chars = longer, !.wire = wider, !.due = more]
    BY <1>4
  <2> HIDE DEF longer, wider, more, next
  <2>3. /\ next.chars = longer /\ next.wire = wider /\ next.due = more
        /\ next.read = input.read /\ next.reads = input.reads /\ next.capture = input.capture
        /\ Shaped(next)
    <3>1. /\ next.chars = longer /\ next.wire = wider /\ next.due = more
          /\ next.read = input.read /\ next.reads = input.reads
          /\ next.capture = input.capture
      BY <2>1, <2>2 DEF Shaped
    <3>2. Shaped(next)
      BY <2>1, <2>2 DEF Shaped
    <3> QED
      BY <3>1, <3>2
  <2> QED
    BY <2>3 DEF longer, wider, more, next
<1> HIDE DEF chars, wire, due, read
<1>6. Wired(Append(chars, char), wire \o mark, Append(due, to))
  BY <1>2, WiredGrows
<1>7. /\ wire \in Seq(0..255) /\ mark \in Seq(0..255) /\ Len(mark) \in 1..3
      /\ due \in Seq(Marks!Accounts) /\ Len(due) \in Nat /\ Len(wire) \in Nat
      /\ due[Len(due)].bytes = Len(wire) /\ due[Len(due)] \in Marks!Accounts
      /\ due[k].bytes \in Nat /\ due[k] \in Marks!Accounts
  <2>1. Len(due) \in Nat /\ Len(wire) \in Nat /\ wire \in Seq(0..255)
        /\ due[k].bytes \in Nat /\ due[k] \in Marks!Accounts
    BY <1>2, WiredTypes
  <2>2. Len(due) \in 1..Len(due)
    BY <2>1
  <2>3. due[Len(due)].bytes = Len(wire) /\ due[Len(due)] \in Marks!Accounts
    BY <1>2, <2>2, WiredIs
  <2>4. mark \in Seq(0..255) /\ Len(mark) \in 1..3
    BY MarkIs
  <2>5. due \in Seq(Marks!Accounts)
    BY <1>2 DEF Wired
  <2> QED
    BY <2>1, <2>3, <2>4, <2>5
<1>8. to \in Marks!Accounts /\ to.bytes = Len(wire) + Len(mark)
  <2> DEFINE from == due[Len(due)]
  <2>1. from \in Marks!Accounts /\ from.bytes = Len(wire)
    BY <1>7
  <2> HIDE DEF from
  <2>2. Marks!Due(from, char) \in Marks!Accounts
        /\ Marks!Due(from, char).bytes = from.bytes + Len(Marks!Mark(char))
    BY <2>1, DueIs
  <2> QED
    BY <2>1, <2>2 DEF from
<1> HIDE DEF to, mark
<1>9. /\ Len(Append(due, to)) = Len(due) + 1 /\ Append(due, to)[Len(due) + 1] = to
      /\ \A t \in 1..Len(due) : Append(due, to)[t] = due[t]
  BY <1>7, <1>8, AppendProperties
<1>10. /\ Len(wire \o mark) = Len(wire) + Len(mark) /\ wire \o mark \in Seq(0..255)
       /\ \A i \in 1..Len(wire) : (wire \o mark)[i] = wire[i]
  <2>1. /\ Len(wire \o mark) = Len(wire) + Len(mark) /\ wire \o mark \in Seq(0..255)
        /\ \A i \in 1..(Len(wire) + Len(mark)) :
             (wire \o mark)[i] = IF i <= Len(wire) THEN wire[i] ELSE mark[i - Len(wire)]
    BY <1>7, ConcatProperties
  <2>2. ASSUME NEW i \in 1..Len(wire) PROVE (wire \o mark)[i] = wire[i]
    <3>1. i \in 1..(Len(wire) + Len(mark)) /\ i <= Len(wire)
      BY <1>7
    <3> QED
      BY <2>1, <3>1
  <2> QED
    BY <2>1, <2>2
<1> DEFINE more == Append(due, to)
           wider == wire \o mark
<1> HIDE DEF more, wider
<1>11. k \in 1..Len(more) /\ more[k] = due[k] /\ read \in 0..Len(wider)
  BY <1>2, <1>7, <1>9, <1>10 DEF more, wider
<1>12. ReadWhole(k, more, read)
  <2>1. due[k].bytes <= read /\ (k < Len(due) => read < due[k + 1].bytes)
    BY <1>3 DEF ReadWhole
  <2>2. CASE k < Len(due)
    <3>1. k + 1 \in 1..Len(due)
      BY <1>7, <2>2
    <3> QED
      BY <1>9, <1>11, <2>1, <2>2, <3>1 DEF ReadWhole, more
  <2>3. CASE k = Len(due)
    <3>1. more[k + 1].bytes = Len(wire) + Len(mark)
      BY <1>8, <1>9, <2>3 DEF more
    <3>2. read < Len(wire) + Len(mark)
      <4> DEFINE x == Len(wire)
                 y == Len(mark)
      <4>1. x \in Nat /\ y \in 1..3 /\ read \in 0..x
        BY <1>2, <1>7
      <4> HIDE DEF x, y
      <4>2. read < x + y
        BY <4>1
      <4> QED
        BY <4>2 DEF x, y
    <3> QED
      BY <1>11, <2>1, <3>1, <3>2 DEF ReadWhole
  <2> QED
    BY <1>7, <2>2, <2>3
<1>13. SubSeq(wider, due[k].bytes + 1, read) = SubSeq(wire, due[k].bytes + 1, read)
  <2> DEFINE a == due[k].bytes
  <2>1. a \in Nat /\ a <= read
    BY <1>3, <1>7 DEF ReadWhole
  <2> HIDE DEF a
  <2>2. a \in 0..Len(wire) /\ read \in a..Len(wire) /\ a \in 0..Len(wider)
        /\ read \in a..Len(wider)
    BY <1>2, <1>7, <1>10, <2>1 DEF wider
  <2>3. /\ SubSeq(wire, a + 1, read) \in Seq(0..255) /\ Len(SubSeq(wire, a + 1, read)) = read - a
        /\ \A i \in 1..(read - a) : SubSeq(wire, a + 1, read)[i] = wire[a + i]
    BY SMTT(30), <1>7, <2>2, Part
  <2>4. wider \in Seq(0..255)
    BY <1>10 DEF wider
  <2>5. /\ SubSeq(wider, a + 1, read) \in Seq(0..255) /\ Len(SubSeq(wider, a + 1, read)) = read - a
        /\ \A i \in 1..(read - a) : SubSeq(wider, a + 1, read)[i] = wider[a + i]
    BY <2>2, <2>4, Part
  <2>6. ASSUME NEW i \in 1..(read - a) PROVE wider[a + i] = wire[a + i]
    <3>1. a + i \in 1..Len(wire)
      BY <2>1, <2>2, <1>7
    <3> QED
      BY <1>10, <3>1 DEF wider
  <2> DEFINE p == SubSeq(wire, a + 1, read)
             q == SubSeq(wider, a + 1, read)
  <2>7. /\ p \in Seq(0..255) /\ q \in Seq(0..255) /\ Len(q) = Len(p)
        /\ \A i \in 1..Len(q) : q[i] = p[i]
    BY <2>3, <2>5, <2>6
  <2> HIDE DEF p, q
  <2>8. q = p
    BY <2>7, SeqEqual
  <2> QED
    BY <2>8 DEF p, q, a
<1>14. Captured(input.capture, k, more, wider, read)
  BY <1>3, <1>11, <1>13 DEF Captured
<1>15. /\ Wired(input'.chars, input'.wire, input'.due) /\ input'.read \in 0..Len(input'.wire)
       /\ ReadWhole(k, input'.due, input'.read) /\ k \in 1..Len(input'.due)
       /\ Captured(input'.capture, k, input'.due, input'.wire, input'.read)
       /\ input'.reads \in Nat /\ Len(input'.capture.chunks) = input'.reads
  BY <1>2, <1>5, <1>6, <1>11, <1>12, <1>14 DEF more, wider
<1> QED
  BY <1>5, <1>15 DEF MarksKnown, Shaped

(* A read takes the next bytes of the wire. *)
LEMMA ReadMarksStep ==
  ASSUME MarksKnown, subject = "marks", NEW n \in 0..(Len(input.wire) - input.read), ReadMarks(n)
  PROVE  MarksKnown'
<1> DEFINE chars == input.chars
           wire == input.wire
           due == input.due
           read == input.read
           block == SubSeq(wire, read + 1, read + n)
           next == Marks!ReadBlock(input.capture, block)
<1>1. subject' = subject
  BY DEF ReadMarks
<1>2. /\ input = [chars |-> chars, wire |-> wire, due |-> due, read |-> read,
                  reads |-> input.reads, capture |-> input.capture]
      /\ Wired(chars, wire, due) /\ read \in 0..Len(wire)
      /\ input.reads \in Nat /\ Len(input.capture.chunks) = input.reads
  BY DEF MarksKnown
<1>3. PICK k \in 1..Len(due) : ReadWhole(k, due, read)
                               /\ Captured(input.capture, k, due, wire, read)
  BY DEF MarksKnown
<1>4. input' = [input EXCEPT !.read = read + n,
                             !.reads = IF n = 0 THEN input.reads ELSE input.reads + 1,
                             !.capture = next]
  BY DEF ReadMarks
<1> HIDE DEF next
<1>5. /\ input'.chars = chars /\ input'.wire = wire /\ input'.due = due
      /\ input'.read = read + n /\ input'.capture = next
      /\ input'.reads = IF n = 0 THEN input.reads ELSE input.reads + 1
      /\ Shaped(input')
  <2> DEFINE last == read + n
             count == IF n = 0 THEN input.reads ELSE input.reads + 1
             now == input'
  <2>1. Shaped(input)
    BY <1>2 DEF Shaped
  <2>2. now = [input EXCEPT !.read = last, !.reads = count, !.capture = next]
    BY <1>4
  <2> HIDE DEF last, count, now
  <2>3. /\ now.chars = input.chars /\ now.wire = input.wire /\ now.due = input.due
        /\ now.read = last /\ now.reads = count /\ now.capture = next
        /\ Shaped(now)
    <3>1. /\ now.chars = input.chars /\ now.wire = input.wire /\ now.due = input.due
          /\ now.read = last /\ now.reads = count /\ now.capture = next
      BY <2>1, <2>2 DEF Shaped
    <3>2. Shaped(now)
      BY <2>1, <2>2 DEF Shaped
    <3> QED
      BY <3>1, <3>2
  <2> QED
    BY <2>3 DEF last, count, now
<1>6. n \in 0..(Len(wire) - read)
  OBVIOUS
<1> HIDE DEF chars, wire, due, read
<1>7. Len(wire) \in Nat /\ read + n \in 0..Len(wire)
  BY <1>2, <1>3, <1>6, WiredTypes
<1>8. \E t \in 1..Len(due) :
        /\ ReadWhole(t, due, read + n) /\ Captured(next, t, due, wire, read + n)
        /\ Len(next.chunks) = IF n = 0 THEN input.reads ELSE input.reads + 1
  <2>1. CASE n = 0
    <3>1. read + n = read /\ block = <<>>
      BY <1>2, <1>7, <2>1, SubSeqEmpty
    <3>2. next = input.capture
      BY <3>1 DEF next, Marks!ReadBlock
    <3> QED
      BY <1>2, <1>3, <2>1, <3>1, <3>2
  <2>2. CASE n # 0
    <3>1. n \in 1..(Len(wire) - read)
      BY <1>6, <1>7, <2>2
    <3>2. PICK t \in 1..Len(due) :
            /\ ReadWhole(t, due, read + n) /\ Captured(next, t, due, wire, read + n)
            /\ Len(next.chunks) = Len(input.capture.chunks) + 1
      BY <1>2, <1>3, <3>1, ReadStep DEF next
    <3> QED
      BY <1>2, <2>2, <3>2
  <2> QED
    BY <2>1, <2>2
<1>9. PICK t \in 1..Len(due) :
        /\ ReadWhole(t, due, read + n) /\ Captured(next, t, due, wire, read + n)
        /\ Len(next.chunks) = IF n = 0 THEN input.reads ELSE input.reads + 1
  BY <1>8
<1>10. /\ Wired(input'.chars, input'.wire, input'.due) /\ input'.read \in 0..Len(input'.wire)
       /\ ReadWhole(t, input'.due, input'.read) /\ t \in 1..Len(input'.due)
       /\ Captured(input'.capture, t, input'.due, input'.wire, input'.read)
       /\ input'.reads \in Nat /\ Len(input'.capture.chunks) = input'.reads
  <2>1. (IF n = 0 THEN input.reads ELSE input.reads + 1) \in Nat
    BY <1>2
  <2> QED
    BY <1>2, <1>5, <1>7, <1>9, <2>1
<1> QED
  BY <1>5, <1>10 DEF MarksKnown, Shaped

(* The other subjects' actions are not the tty's. *)
LEMMA MarksNext ==
  ASSUME MarksKnown, [Next]_vars
  PROVE  MarksKnown'
<1>1. CASE Next /\ subject = "marks"
  <2>1. ~AnswerNext
    BY <1>1 DEF AnswerNext
  <2>2. /\ \A pid : ~Support(pid)
        /\ \A f, pause : ~See(f, pause)
        /\ \A which, key : ~SeeIn(which, key)
        /\ ~Renumber
    BY <1>1 DEF Support, See, SeeIn, Renumber
  <2>3. /\ \A text : ~Describe(text)
        /\ \A more : ~Reply(more)
        /\ \A code : ~ReplyException(code)
    BY <1>1 DEF Describe, Reply, ReplyException
  <2>4. /\ \A n, overflow, stop : ~Deliver(n, overflow, stop)
        /\ \A ended : ~DeliverNothing(ended)
    BY <1>1 DEF Deliver, DeliverNothing, Streaming
  <2>5. (\E char \in Characters : ReceiveChar(char)) \/ ReadNext
    BY <1>1, <2>1, <2>2, <2>3, <2>4 DEF Next
  <2> QED
    BY <1>1, <2>5, ReceiveCharStep, ReadMarksStep DEF ReadNext
<1>2. CASE Next /\ subject # "marks"
  <2>1. subject' = subject
    BY <1>2, SubjectStays
  <2> QED
    BY <1>2, <2>1 DEF MarksKnown
<1>3. CASE UNCHANGED vars
  BY <1>3 DEF vars, MarksKnown
<1> QED
  BY <1>1, <1>2, <1>3

(* What is known of a capture is what is recorded. *)
LEMMA KnownIsRecorded == MarksKnown => MarksSurviveSplits
<1> SUFFICES ASSUME MarksKnown, subject = "marks"
             PROVE  MarksSurviveSplits
  BY DEF MarksSurviveSplits
<1> DEFINE wire == input.wire
           due == input.due
           read == input.read
           capture == input.capture
<1>1. /\ Wired(input.chars, wire, due) /\ read \in 0..Len(wire)
      /\ Len(capture.chunks) = input.reads
  BY DEF MarksKnown
<1>2. PICK k \in 1..Len(due) : ReadWhole(k, due, read) /\ Captured(capture, k, due, wire, read)
  BY DEF MarksKnown
<1> DEFINE a == due[k].bytes
<1>3. a \in Nat /\ wire \in Seq(0..255) /\ Len(wire) \in Nat
  BY <1>1, WiredTypes
<1>4. a <= read
  BY <1>2 DEF ReadWhole
<1>5. /\ capture.pending = SubSeq(wire, a + 1, read)
      /\ capture.marked = due[k].marked /\ capture.breaks = due[k].breaks
      /\ Marks!Joined(capture.chunks) = due[k].data
  <2> HIDE DEF capture, wire, due, read
  <2> QED
    BY <1>2 DEF Captured
<1> HIDE DEF wire, due, read, capture, a
<1>6. capture.pending = <<>> <=> a = read
  <2>1. a \in 0..Len(wire) /\ read \in a..Len(wire)
    BY <1>1, <1>3, <1>4
  <2>2. Len(SubSeq(wire, a + 1, read)) = read - a /\ SubSeq(wire, a + 1, read) \in Seq(0..255)
    BY <1>3, <2>1, Part
  <2> DEFINE pending == SubSeq(wire, a + 1, read)
  <2>3. pending \in Seq(0..255) /\ Len(pending) = read - a
    BY <2>2
  <2> HIDE DEF pending
  <2>4. pending = <<>> <=> Len(pending) = 0
    BY <2>3, EmptySeq
  <2>5. read - a = 0 <=> a = read
    BY <1>1, <1>3
  <2> QED
    BY <1>5, <2>3, <2>4, <2>5 DEF pending
<1>7. Marks!Recorded(capture) =
        [data |-> due[k].data, chunks |-> input.reads,
         marked |-> due[k].marked, breaks |-> due[k].breaks,
         truncated |-> IF a = read THEN 0 ELSE 1]
  BY <1>1, <1>5, <1>6 DEF Marks!Recorded
<1> QED
  BY <1>2, <1>7 DEF MarksSurviveSplits, due, read, capture, a

(* However the reads of the tty fall, and whatever characters and errors   *)
(* it marks, the data and the counts recorded are those of the marks read  *)
(* complete, each read makes one chunk, and a mark is said to be cut off   *)
(* exactly when the capture ends within one (serial_capture.py:250).       *)
THEOREM MarksSurvive == Spec => []MarksSurviveSplits
<1>1. MarksKnown /\ [Next]_vars => MarksKnown'
  BY MarksNext
<1> QED
  BY <1>1, MarksBegin, KnownIsRecorded, PTL DEF Spec

(* Acquisition loses and doubles nothing at the edges between reads and    *)
(* polls, whatever they bring (serial_capture.py:250, pico.py:152).        *)
THEOREM AcquisitionLosesNothing == Spec => []AcquisitionIsWhole
<1>1. MarksSurviveSplits /\ CaptureIsWhole => AcquisitionIsWhole
  BY DEF AcquisitionIsWhole
<1> QED
  BY <1>1, MarksSurvive, CapturesAreWhole, PTL

--------------------------------------------------------------------------------
(* What a Modbus device answers.                                           *)

Byte == 0..255

LEMMA TwiceHeaded ==
  ASSUME NEW a \in Byte, NEW b \in Byte, NEW bytes \in Seq(Byte)
  PROVE  /\ <<a, b>> \o bytes \in Seq(Byte) /\ Len(<<a, b>> \o bytes) = Len(bytes) + 2
         /\ (<<a, b>> \o bytes)[1] = a /\ (<<a, b>> \o bytes)[2] = b
         /\ \A k \in 3..(Len(bytes) + 2) : (<<a, b>> \o bytes)[k] = bytes[k - 2]
<1>1. Len(bytes) \in Nat
  BY LenProperties
<1>2. <<a, b>> \in Seq(Byte) /\ Len(<<a, b>>) = 2 /\ <<a, b>>[1] = a /\ <<a, b>>[2] = b
  OBVIOUS
<1> DEFINE head == <<a, b>>
<1> HIDE DEF head
<1>3. /\ head \o bytes \in Seq(Byte) /\ Len(head \o bytes) = Len(head) + Len(bytes)
      /\ \A k \in 1..(Len(head) + Len(bytes)) :
           (head \o bytes)[k] = IF k <= Len(head) THEN head[k] ELSE bytes[k - Len(head)]
  BY <1>2, ConcatProperties DEF head
<1>4. Len(head) = 2 /\ head[1] = a /\ head[2] = b
  BY <1>2 DEF head
<1> QED
  BY <1>1, <1>3, <1>4 DEF head

LEMMA PrefixOfBytes ==
  ASSUME NEW bytes \in Seq(Byte), NEW n \in Nat, n <= Len(bytes)
  PROVE  /\ SubSeq(bytes, 1, n) \in Seq(Byte) /\ Len(SubSeq(bytes, 1, n)) = n
         /\ \A i \in 1..n : SubSeq(bytes, 1, n)[i] = bytes[i]
<1>1. \A i \in 1..n : bytes[i] \in Byte
  BY LenProperties, ElementOfSeq
<1>2. /\ SubSeq(bytes, 1, n) \in Seq(Byte)
      /\ Len(SubSeq(bytes, 1, n)) = IF 1 <= n THEN n - 1 + 1 ELSE 0
      /\ \A i \in 1..(n - 1 + 1) : SubSeq(bytes, 1, n)[i] = bytes[1 + i - 1]
  BY <1>1, SubSeqProperties
<1> QED
  BY <1>2

LEMMA WiderSeq ==
  ASSUME NEW S, NEW T, S \subseteq T, NEW s \in Seq(S)
  PROVE  s \in Seq(T)
OBVIOUS

(* The end of a sequence from a place on. *)
LEMMA EndOf ==
  ASSUME NEW S, NEW s \in Seq(S), NEW i \in 1..(Len(s) + 1)
  PROVE  /\ SubSeq(s, i, Len(s)) \in Seq(S) /\ Len(SubSeq(s, i, Len(s))) = Len(s) - i + 1
         /\ \A k \in 1..(Len(s) - i + 1) : SubSeq(s, i, Len(s))[k] = s[i - 1 + k]
<1> DEFINE n == Len(s)
           c == i - 1
<1>1. n \in Nat /\ i \in 1..(n + 1)
  BY LenProperties
<1>2. c \in 0..n /\ n \in c..n /\ c + 1 = i /\ n - c = n - i + 1
  <2> HIDE DEF n
  <2> QED
    BY <1>1
<1>3. c \in 0..Len(s) /\ n \in c..Len(s)
  BY <1>2
<1> HIDE DEF n, c
<1>4. /\ SubSeq(s, c + 1, n) \in Seq(S) /\ Len(SubSeq(s, c + 1, n)) = n - c
      /\ \A k \in 1..(n - c) : SubSeq(s, c + 1, n)[k] = s[c + k]
  BY <1>3, Part
<1> QED
  BY <1>2, <1>4 DEF n, c

LEMMA StartOf ==
  ASSUME NEW S, NEW s \in Seq(S), NEW i \in 1..(Len(s) + 1)
  PROVE  /\ SubSeq(s, 1, i - 1) \in Seq(S) /\ Len(SubSeq(s, 1, i - 1)) = i - 1
         /\ \A k \in 1..(i - 1) : SubSeq(s, 1, i - 1)[k] = s[k]
<1> DEFINE n == Len(s)
           c == i - 1
<1>1. n \in Nat /\ i \in 1..(n + 1)
  BY LenProperties
<1>2. 0 \in 0..n /\ c \in 0..n /\ c - 0 = c /\ 0 + 1 = 1
  <2> HIDE DEF n
  <2> QED
    BY <1>1
<1>3. 0 \in 0..Len(s) /\ c \in 0..Len(s)
  BY <1>2
<1> HIDE DEF n, c
<1>4. /\ SubSeq(s, 0 + 1, c) \in Seq(S) /\ Len(SubSeq(s, 0 + 1, c)) = c - 0
      /\ \A k \in 1..(c - 0) : SubSeq(s, 0 + 1, c)[k] = s[0 + k]
  BY <1>3, Part
<1>5. c - 0 = c /\ 0 + 1 = 1
  BY <1>2
<1>6. /\ SubSeq(s, 1, c) \in Seq(S) /\ Len(SubSeq(s, 1, c)) = c
      /\ \A k \in 1..c : SubSeq(s, 1, c)[k] = s[k]
  BY <1>4, <1>5
<1> QED
  BY <1>6 DEF c

(* An object of an identity: its number and a text whose length is a byte. *)
IdentityObjects == {o \in Byte \X Seq(Byte) : Len(o[2]) \in Byte}

Bytes(objects) == [i \in DOMAIN objects |-> Modbus!ObjectBytes(objects[i])]
Flat(objects) == Modbus!FlattenSeq(Bytes(objects))

LEMMA ObjectIs ==
  ASSUME NEW o \in IdentityObjects
  PROVE  /\ Modbus!ObjectBytes(o) \in Seq(Byte)
         /\ Len(Modbus!ObjectBytes(o)) = Len(o[2]) + 2
         /\ Modbus!ObjectBytes(o)[1] = o[1] /\ Modbus!ObjectBytes(o)[2] = Len(o[2])
         /\ \A k \in 3..(Len(o[2]) + 2) : Modbus!ObjectBytes(o)[k] = o[2][k - 2]
<1> DEFINE number == o[1]
           text == o[2]
           size == Len(text)
<1>1. number \in Byte /\ text \in Seq(Byte) /\ size \in Byte
  BY DEF IdentityObjects
<1>2. Modbus!ObjectBytes(o) = <<number, size>> \o text
  BY DEF Modbus!ObjectBytes
<1> HIDE DEF number, text
<1> QED
  BY <1>1, <1>2, TwiceHeaded DEF number, text

LEMMA FlatNone == Flat(<<>>) = <<>>
<1>1. DOMAIN <<>> = {} /\ Bytes(<<>>) = <<>>
  BY DEF Bytes
<1> QED
  BY <1>1 DEF Flat, Modbus!FlattenSeq

LEMMA FlatIsJoined == \A objects : Flat(objects) = Marks!Joined(Bytes(objects))
BY DEF Flat, Modbus!FlattenSeq, Marks!Joined, Marks!FlattenSeq

LEMMA BytesAre ==
  ASSUME NEW objects \in Seq(IdentityObjects)
  PROVE  Bytes(objects) \in Seq(Seq(Byte)) /\ Len(Bytes(objects)) = Len(objects)
<1> DEFINE last == Len(objects)
<1>1. last \in Nat /\ DOMAIN objects = 1..last
  BY LenProperties
<1>2. \A i \in 1..last : Modbus!ObjectBytes(objects[i]) \in Seq(Byte)
  BY ElementOfSeq, ObjectIs
<1>3. Bytes(objects) = [i \in 1..last |-> Modbus!ObjectBytes(objects[i])]
  BY <1>1 DEF Bytes
<1> HIDE DEF last
<1>4. Bytes(objects) \in [1..last -> Seq(Byte)]
  BY <1>2, <1>3
<1>5. Bytes(objects) \in Seq(Seq(Byte)) /\ Len(Bytes(objects)) = last
  BY <1>1, <1>4
<1> QED
  BY <1>5 DEF last

LEMMA FlatOneMore ==
  ASSUME NEW objects \in Seq(IdentityObjects), NEW o \in IdentityObjects
  PROVE  /\ Append(objects, o) \in Seq(IdentityObjects)
         /\ Flat(Append(objects, o)) = Flat(objects) \o Modbus!ObjectBytes(o)
<1> DEFINE more == Append(objects, o)
           last == Len(objects)
           added == Append(Bytes(objects), Modbus!ObjectBytes(o))
<1>1. /\ more \in Seq(IdentityObjects) /\ last \in Nat /\ Len(more) = last + 1
      /\ more[last + 1] = o /\ \A i \in 1..last : more[i] = objects[i]
  BY LenProperties, AppendProperties
<1>2. Bytes(objects) \in Seq(Seq(Byte)) /\ Len(Bytes(objects)) = last
  BY BytesAre
<1>3. Modbus!ObjectBytes(o) \in Seq(Byte)
  BY ObjectIs
<1>4. /\ added \in Seq(Seq(Byte)) /\ Len(added) = last + 1
      /\ added[last + 1] = Modbus!ObjectBytes(o)
      /\ \A i \in 1..last : added[i] = Bytes(objects)[i]
  BY <1>2, <1>3, AppendProperties
<1>5. Bytes(more) \in Seq(Seq(Byte)) /\ Len(Bytes(more)) = last + 1
  BY <1>1, BytesAre
<1>6. DOMAIN more = 1..(last + 1) /\ DOMAIN objects = 1..last
  BY <1>1, LenProperties
<1> HIDE DEF more, last, added
<1>7. ASSUME NEW i \in 1..(last + 1)
      PROVE  Bytes(more)[i] = added[i]
  <2>1. Bytes(more)[i] = Modbus!ObjectBytes(more[i])
    BY <1>6 DEF Bytes
  <2>2. CASE i = last + 1
    BY <2>1, <2>2, <1>1, <1>4
  <2>3. CASE i \in 1..last
    <3>1. Bytes(objects)[i] = Modbus!ObjectBytes(objects[i])
      BY <1>6, <2>3 DEF Bytes
    <3> QED
      BY <2>1, <2>3, <3>1, <1>1, <1>4
  <2> QED
    BY <1>1, <2>2, <2>3
<1>8. Bytes(more) = added
  BY <1>4, <1>5, <1>7, SeqEqual
<1>9. Marks!Joined(added) = Marks!Joined(Bytes(objects)) \o Modbus!ObjectBytes(o)
  BY <1>2, <1>3, JoinedOneMore DEF added
<1> QED
  BY <1>1, <1>8, <1>9, FlatIsJoined DEF more

(* The loop over the objects, at most three.                               *)
ReadNone == [ok |-> TRUE, index |-> 8, objects |-> <<>>]
ReadOne(pdu) == Modbus!Object(ReadNone, pdu)
ReadTwo(pdu) == Modbus!Object(ReadOne(pdu), pdu)
ReadThree(pdu) == Modbus!Object(ReadTwo(pdu), pdu)

LEMMA ObjectsAre ==
  ASSUME NEW pdu
  PROVE  /\ pdu[7] = 1 => Modbus!Objects(pdu) = ReadOne(pdu)
         /\ pdu[7] = 2 => Modbus!Objects(pdu) = ReadTwo(pdu)
         /\ pdu[7] = 3 => Modbus!Objects(pdu) = ReadThree(pdu)
<1>1. SUFFICES ASSUME NEW last \in 1..3, pdu[7] = last
               PROVE  Modbus!Objects(pdu) = IF last = 1 THEN ReadOne(pdu)
                                            ELSE IF last = 2 THEN ReadTwo(pdu)
                                            ELSE ReadThree(pdu)
  OBVIOUS
<1> DEFINE Loop(g) == g = [n \in 0..last |-> IF n = 0 THEN ReadNone
                                             ELSE Modbus!Object(g[n - 1], pdu)]
           f == [n \in 0..last |-> IF n = 0 THEN ReadNone ELSE IF n = 1 THEN ReadOne(pdu)
                                   ELSE IF n = 2 THEN ReadTwo(pdu) ELSE ReadThree(pdu)]
           h == CHOOSE g : Loop(g)
<1>2. Modbus!Objects(pdu) = h[last]
  BY <1>1 DEF Modbus!Objects, ReadNone
<1>3. Loop(f)
  <2>1. ASSUME NEW n \in 0..last
        PROVE  f[n] = IF n = 0 THEN ReadNone ELSE Modbus!Object(f[n - 1], pdu)
    <3>1. n = 0 \/ n = 1 \/ n = 2 \/ n = 3
      OBVIOUS
    <3>2. n # 0 => f[n - 1] = IF n = 1 THEN ReadNone ELSE IF n = 2 THEN ReadOne(pdu)
                              ELSE ReadTwo(pdu)
      <4>1. n # 0 => n - 1 \in 0..last
        OBVIOUS
      <4> QED
        BY <3>1, <4>1
    <3>3. f[n] = IF n = 0 THEN ReadNone ELSE IF n = 1 THEN ReadOne(pdu)
                 ELSE IF n = 2 THEN ReadTwo(pdu) ELSE ReadThree(pdu)
      OBVIOUS
    <3> HIDE DEF f
    <3> QED
      BY <3>1, <3>2, <3>3 DEF ReadOne, ReadTwo, ReadThree
  <2>2. f = [n \in 0..last |-> f[n]]
    OBVIOUS
  <2> HIDE DEF f
  <2> QED
    BY <2>1, <2>2
<1>4. Loop(h)
  BY <1>3
<1> HIDE DEF f, h
<1>5. \A n \in 0..last : h[n] = IF n = 0 THEN ReadNone ELSE Modbus!Object(h[n - 1], pdu)
  BY <1>4
<1>6. h[0] = ReadNone
  BY <1>5
<1>7. h[1] = ReadOne(pdu)
  BY <1>5, <1>6 DEF ReadOne
<1>8. last >= 2 => h[2] = ReadTwo(pdu)
  BY <1>5, <1>7 DEF ReadTwo
<1>9. last = 3 => h[3] = ReadThree(pdu)
  BY <1>5, <1>8 DEF ReadThree
<1> QED
  BY <1>2, <1>7, <1>8, <1>9

(* What was read so far: the bytes behind the head, up to the next object. *)
ReadTo(s, pdu, n) ==
  /\ s = [ok |-> s.ok, index |-> s.index, objects |-> s.objects] /\ s.ok \in BOOLEAN
  /\ s.ok => /\ s.index \in Nat /\ s.index >= 8 /\ s.index <= Len(pdu) + 1
             /\ s.objects \in Seq(IdentityObjects) /\ Len(s.objects) = n
             /\ Flat(s.objects) = SubSeq(pdu, 8, s.index - 1)

LEMMA ObjectBytesAre ==
  ASSUME NEW pdu \in Seq(Byte), NEW at \in Nat, at >= 1, at + 1 <= Len(pdu),
         NEW size \in Byte, pdu[at + 1] = size, at + 1 + size <= Len(pdu),
         NEW o, o = <<pdu[at], SubSeq(pdu, at + 2, at + 1 + size)>>
  PROVE  o \in IdentityObjects /\ Modbus!ObjectBytes(o) = SubSeq(pdu, at, at + 1 + size)
<1> DEFINE text == SubSeq(pdu, at + 2, at + 1 + size)
           part == SubSeq(pdu, at, at + 1 + size)
           len == Len(pdu)
<1>1. len \in Nat /\ at \in 1..len /\ at + 1 \in 1..len /\ size \in Nat
  BY LenProperties DEF Byte
<1>2. pdu[at] \in Byte
  BY <1>1, ElementOfSeq
<1>3. /\ text \in Seq(Byte) /\ Len(text) = size
      /\ \A i \in 1..size : text[i] = pdu[(at + 1) + i]
  <2> DEFINE a == at + 1
             b == at + 1 + size
  <2>1. a \in 0..Len(pdu) /\ b \in a..Len(pdu) /\ b - a = size /\ a + 1 = at + 2
    BY <1>1
  <2>2. /\ SubSeq(pdu, a + 1, b) \in Seq(Byte) /\ Len(SubSeq(pdu, a + 1, b)) = b - a
        /\ \A i \in 1..(b - a) : SubSeq(pdu, a + 1, b)[i] = pdu[a + i]
    <3> HIDE DEF a, b
    <3> QED
      BY <2>1, Part
  <2> QED
    BY <2>1, <2>2
<1>4. /\ part \in Seq(Byte) /\ Len(part) = size + 2
      /\ \A i \in 1..(size + 2) : part[i] = pdu[(at - 1) + i]
  <2> DEFINE a == at - 1
             b == at + 1 + size
  <2>1. a \in 0..Len(pdu) /\ b \in a..Len(pdu) /\ b - a = size + 2 /\ a + 1 = at
    BY <1>1
  <2>2. /\ SubSeq(pdu, a + 1, b) \in Seq(Byte) /\ Len(SubSeq(pdu, a + 1, b)) = b - a
        /\ \A i \in 1..(b - a) : SubSeq(pdu, a + 1, b)[i] = pdu[a + i]
    <3> HIDE DEF a, b
    <3> QED
      BY <2>1, Part
  <2> QED
    BY <2>1, <2>2
<1> HIDE DEF text, part, len
<1>5. o[1] = pdu[at] /\ o[2] = text
  BY DEF text
<1>6. o \in IdentityObjects
  <2>1. o = <<pdu[at], text>>
    BY DEF text
  <2> QED
    BY <1>2, <1>3, <1>5, <2>1 DEF IdentityObjects
<1> DEFINE bytes == Modbus!ObjectBytes(o)
<1>7. /\ bytes \in Seq(Byte) /\ Len(bytes) = size + 2
      /\ bytes[1] = pdu[at] /\ bytes[2] = size
      /\ \A k \in 3..(size + 2) : bytes[k] = text[k - 2]
  BY <1>3, <1>5, <1>6, ObjectIs
<1> HIDE DEF bytes
<1>8. ASSUME NEW i \in 1..(size + 2)
      PROVE  bytes[i] = part[i]
  <2>1. part[i] = pdu[(at - 1) + i]
    BY <1>4
  <2>2. CASE i = 1
    <3>1. (at - 1) + 1 = at
      BY <1>1
    <3> QED
      BY <1>7, <2>1, <2>2, <3>1
  <2>3. CASE i = 2
    <3>1. (at - 1) + 2 = at + 1
      BY <1>1
    <3> QED
      BY <1>7, <2>1, <2>3, <3>1
  <2>4. CASE i >= 3
    <3>1. i - 2 \in 1..size /\ (at + 1) + (i - 2) = (at - 1) + i /\ i \in 3..(size + 2)
      BY <1>1, <2>4
    <3> QED
      BY <1>3, <1>7, <2>1, <3>1
  <2> QED
    BY <1>1, <2>2, <2>3, <2>4
<1>9. bytes = part
  BY <1>4, <1>7, <1>8, SeqEqual
<1> QED
  BY <1>6, <1>9 DEF bytes, part

LEMMA ReadsOn ==
  ASSUME NEW pdu \in Seq(Byte), NEW n \in Nat, NEW s, ReadTo(s, pdu, n)
  PROVE  ReadTo(Modbus!Object(s, pdu), pdu, n + 1)
<1> DEFINE t == Modbus!Object(s, pdu)
           at == s.index
           size == pdu[at + 1]
           o == <<pdu[at], SubSeq(pdu, at + 2, at + 1 + size)>>
           len == Len(pdu)
<1>1. \/ t = [s EXCEPT !.ok = FALSE]
      \/ /\ s.ok /\ ~(at + 1 > len) /\ ~(at + 1 + size > len)
         /\ t = [s EXCEPT !.index = at + 2 + size, !.objects = Append(s.objects, o)]
  BY DEF Modbus!Object
<1>2. s = [ok |-> s.ok, index |-> s.index, objects |-> s.objects] /\ s.ok \in BOOLEAN
  BY DEF ReadTo
<1>3. CASE t = [s EXCEPT !.ok = FALSE]
  <2> HIDE DEF t
  <2>1. t = [ok |-> FALSE, index |-> s.index, objects |-> s.objects]
    BY <1>2, <1>3
  <2>2. ReadTo(t, pdu, n + 1)
    BY <2>1 DEF ReadTo
  <2> QED
    BY <2>2 DEF t
<1>4. CASE /\ s.ok /\ ~(at + 1 > len) /\ ~(at + 1 + size > len)
           /\ t = [s EXCEPT !.index = at + 2 + size, !.objects = Append(s.objects, o)]
  <2>1. /\ at \in Nat /\ at >= 8 /\ len \in Nat /\ s.objects \in Seq(IdentityObjects)
        /\ Len(s.objects) = n /\ Flat(s.objects) = SubSeq(pdu, 8, at - 1)
    BY <1>4, LenProperties DEF ReadTo
  <2> HIDE DEF t, at, len
  <2>2. at \in Nat /\ at >= 1 /\ at + 1 <= len /\ at + 1 \in 1..len
    BY <1>4, <2>1
  <2>3. size \in Byte
    BY <2>2, ElementOfSeq DEF len
  <2>4. size \in Nat /\ at + 1 + size <= len
    <3> HIDE DEF size
    <3>1. size \in Nat
      BY <2>3 DEF Byte
    <3> QED
      BY <1>4, <2>1, <3>1
  <2> HIDE DEF size, o
  <2>5. o \in IdentityObjects /\ Modbus!ObjectBytes(o) = SubSeq(pdu, at, at + 1 + size)
    <3>1. o = <<pdu[at], SubSeq(pdu, at + 2, at + 1 + size)>> /\ pdu[at + 1] = size
      BY DEF o, size
    <3>2. at + 1 <= Len(pdu) /\ at + 1 + size <= Len(pdu)
      BY <2>2, <2>4 DEF len
    <3> QED
      BY <2>2, <2>3, <3>1, <3>2, ObjectBytesAre
  <2> DEFINE more == Append(s.objects, o)
             next == at + 2 + size
  <2>6. more \in Seq(IdentityObjects) /\ Flat(more) = Flat(s.objects) \o Modbus!ObjectBytes(o)
    BY <2>1, <2>5, FlatOneMore
  <2>7. Len(more) = n + 1
    BY <2>1, <2>5, AppendProperties
  <2>8. SubSeq(pdu, 8, at - 1) \o SubSeq(pdu, at, next - 1) = SubSeq(pdu, 8, next - 1)
    <3> DEFINE k == at - 1
               m == next - 1
    <3>1. 8 \in 1..(Len(pdu) + 1) /\ k \in (8 - 1)..Len(pdu) /\ m \in k..Len(pdu) /\ k + 1 = at
      BY <2>1, <2>2, <2>4 DEF len
    <3> HIDE DEF k, m
    <3>2. SubSeq(pdu, 8, k) \o SubSeq(pdu, k + 1, m) = SubSeq(pdu, 8, m)
      BY <3>1, ConcatAdjacentSubSeq
    <3> QED
      BY <3>1, <3>2 DEF k, m
  <2>9. next \in Nat /\ next >= 8 /\ next <= len + 1 /\ next - 1 = at + 1 + size
    BY <2>1, <2>2, <2>4
  <2>10. Flat(more) = SubSeq(pdu, 8, next - 1)
    BY <2>1, <2>5, <2>6, <2>8, <2>9
  <2>11. t = [ok |-> TRUE, index |-> next, objects |-> more]
    BY <1>2, <1>4
  <2> HIDE DEF next, more
  <2>12. ReadTo(t, pdu, n + 1)
    BY <2>6, <2>7, <2>9, <2>10, <2>11 DEF ReadTo, len
  <2> QED
    BY <2>12 DEF t
<1> QED
  BY <1>1, <1>3, <1>4

LEMMA ObjectsRead ==
  ASSUME NEW pdu \in Seq(Byte), Len(pdu) >= 7, NEW last \in 1..3, pdu[7] = last
  PROVE  ReadTo(Modbus!Objects(pdu), pdu, last)
<1>0. Len(pdu) \in Nat
  BY LenProperties
<1>1. ReadTo(ReadNone, pdu, 0)
  <2>1. <<>> \in Seq(IdentityObjects) /\ Len(<<>>) = 0
    BY EmptySeq
  <2>2. Flat(<<>>) = SubSeq(pdu, 8, 8 - 1)
    <3>1. SubSeq(pdu, 8, 7) = <<>> /\ 8 - 1 = 7
      BY SubSeqEmpty
    <3> QED
      BY <3>1, FlatNone
  <2> QED
    BY <1>0, <2>1, <2>2 DEF ReadTo, ReadNone
<1>2. ReadTo(ReadOne(pdu), pdu, 0 + 1)
  BY <1>1, ReadsOn DEF ReadOne
<1>3. ReadTo(ReadTwo(pdu), pdu, 1 + 1)
  BY <1>2, ReadsOn DEF ReadTwo
<1>4. ReadTo(ReadThree(pdu), pdu, 2 + 1)
  BY <1>3, ReadsOn DEF ReadThree
<1> QED
  BY <1>2, <1>3, <1>4, ObjectsAre

(* An identity that says what a device sent, byte for byte. *)
Says(read, pdu) ==
  /\ read = [level |-> read.level, more |-> read.more, next |-> read.next,
             objects |-> read.objects]
  /\ Len(read.objects) \in 1..3 /\ DOMAIN read.objects = 1..Len(read.objects)
  /\ <<43, 14, 1, read.level, IF read.more THEN 255 ELSE 0, read.next, Len(read.objects)>>
       \o Flat(read.objects) = pdu

LEMMA HeadAndRest ==
  ASSUME NEW bytes \in Seq(Byte), Len(bytes) >= 7, NEW head \in Seq(Byte), Len(head) = 7,
         \A i \in 1..7 : head[i] = bytes[i]
  PROVE  head \o SubSeq(bytes, 8, Len(bytes)) = bytes
<1> DEFINE len == Len(bytes)
<1>1. len \in Nat /\ len >= 7
  BY LenProperties
<1>2. 1 \in 1..(len + 1) /\ 7 \in (1 - 1)..len /\ len \in 7..len /\ 7 \in Nat /\ 7 <= len
  BY <1>1
<1>3. SubSeq(bytes, 1, 7) \o SubSeq(bytes, 7 + 1, Len(bytes)) = SubSeq(bytes, 1, Len(bytes))
  BY <1>2, ConcatAdjacentSubSeq DEF len
<1>4. SubSeq(bytes, 1, Len(bytes)) = bytes
  BY SubSeqFull
<1>5. /\ SubSeq(bytes, 1, 7) \in Seq(Byte) /\ Len(SubSeq(bytes, 1, 7)) = 7
      /\ \A i \in 1..7 : SubSeq(bytes, 1, 7)[i] = bytes[i]
  BY <1>2, PrefixOfBytes DEF len
<1>6. head = SubSeq(bytes, 1, 7)
  <2> DEFINE part == SubSeq(bytes, 1, 7)
  <2>1. part \in Seq(Byte) /\ Len(part) = 7 /\ \A i \in 1..7 : part[i] = bytes[i]
    BY <1>5
  <2> HIDE DEF part
  <2>2. \A i \in 1..Len(head) : head[i] = part[i]
    BY <2>1
  <2>3. head = part
    BY <2>1, <2>2, SeqEqual
  <2> QED
    BY <2>3 DEF part
<1>7. 7 + 1 = 8
  OBVIOUS
<1> QED
  BY <1>3, <1>4, <1>6, <1>7

LEMMA SevenBytes ==
  ASSUME NEW a \in Byte, NEW b \in Byte, NEW c \in Byte, NEW d \in Byte, NEW e \in Byte,
         NEW f \in Byte, NEW g \in Byte
  PROVE  /\ <<a, b, c, d, e, f, g>> \in Seq(Byte) /\ Len(<<a, b, c, d, e, f, g>>) = 7
         /\ <<a, b, c, d, e, f, g>>[1] = a /\ <<a, b, c, d, e, f, g>>[2] = b
         /\ <<a, b, c, d, e, f, g>>[3] = c /\ <<a, b, c, d, e, f, g>>[4] = d
         /\ <<a, b, c, d, e, f, g>>[5] = e /\ <<a, b, c, d, e, f, g>>[6] = f
         /\ <<a, b, c, d, e, f, g>>[7] = g
OBVIOUS

LEMMA SevenOf ==
  ASSUME NEW bytes \in Seq(Byte), Len(bytes) >= 7
  PROVE  bytes[1] \in Byte /\ bytes[2] \in Byte /\ bytes[3] \in Byte /\ bytes[4] \in Byte
         /\ bytes[5] \in Byte /\ bytes[6] \in Byte /\ bytes[7] \in Byte
<1> DEFINE len == Len(bytes)
<1>1. len \in Nat /\ len >= 7
  BY LenProperties
<1>2. \A i \in 1..7 : i \in 1..len
  BY <1>1
<1>3. \A i \in 1..7 : bytes[i] \in Byte
  BY <1>2, ElementOfSeq DEF len
<1> QED
  BY <1>3

LEMMA IdentityIsSaid ==
  ASSUME NEW pdu \in Seq(Byte), Modbus!Identity(pdu) # Failed
  PROVE  Says(Modbus!Identity(pdu), pdu)
<1> DEFINE read == Modbus!Objects(pdu)
           said == [level |-> pdu[4], more |-> pdu[5] = 255, next |-> pdu[6],
                    objects |-> read.objects]
           len == Len(pdu)
<1>1. /\ len >= 7 /\ pdu[1] = 43 /\ pdu[2] = 14 /\ pdu[3] = 1
      /\ pdu[5] \in {0, 255} /\ pdu[7] \in 1..3
      /\ read.ok /\ read.index = len + 1
      /\ Modbus!Identity(pdu) = said
  BY DEF Modbus!Identity
<1>2. len \in Nat
  BY LenProperties
<1>3. PICK last \in 1..3 : pdu[7] = last
  BY <1>1
<1>4. ReadTo(read, pdu, last)
  BY <1>1, <1>3, ObjectsRead
<1> HIDE DEF read, len
<1>5. Len(read.objects) = last /\ read.objects \in Seq(IdentityObjects) /\ Flat(read.objects) = SubSeq(pdu, 8, (len + 1) - 1)
  BY <1>1, <1>4 DEF ReadTo
<1>6. (len + 1) - 1 = len
  BY <1>2
<1>7. Flat(read.objects) = SubSeq(pdu, 8, Len(pdu))
  BY <1>5, <1>6 DEF len
<1> DEFINE more == IF pdu[5] = 255 THEN 255 ELSE 0
           head == <<43, 14, 1, pdu[4], more, pdu[6], last>>
<1>8. more = pdu[5]
  BY <1>1
<1>9. /\ head \in Seq(Byte) /\ Len(head) = 7 /\ \A i \in 1..7 : head[i] = pdu[i]
  <2>1. Len(pdu) >= 7
    BY <1>1 DEF len
  <2>2. /\ pdu[1] \in Byte /\ pdu[2] \in Byte /\ pdu[3] \in Byte /\ pdu[4] \in Byte
        /\ pdu[5] \in Byte /\ pdu[6] \in Byte /\ pdu[7] \in Byte
    BY <2>1, SevenOf
  <2>3. head = <<pdu[1], pdu[2], pdu[3], pdu[4], pdu[5], pdu[6], pdu[7]>>
    BY <1>1, <1>3, <1>8
  <2> HIDE DEF head
  <2>4. \A i \in 1..7 : i = 1 \/ i = 2 \/ i = 3 \/ i = 4 \/ i = 5 \/ i = 6 \/ i = 7
    OBVIOUS
  <2>5. /\ head \in Seq(Byte) /\ Len(head) = 7
        /\ head[1] = pdu[1] /\ head[2] = pdu[2] /\ head[3] = pdu[3] /\ head[4] = pdu[4]
        /\ head[5] = pdu[5] /\ head[6] = pdu[6] /\ head[7] = pdu[7]
    BY <2>2, <2>3, SevenBytes
  <2> QED
    BY <2>4, <2>5
<1> HIDE DEF head
<1>10. head \o SubSeq(pdu, 8, Len(pdu)) = pdu
  BY <1>1, <1>9, HeadAndRest DEF len
<1>11. /\ said = [level |-> said.level, more |-> said.more, next |-> said.next,
                 objects |-> said.objects]
       /\ said.level = pdu[4] /\ said.more = (pdu[5] = 255) /\ said.next = pdu[6]
       /\ said.objects = read.objects
  OBVIOUS
<1> HIDE DEF said
<1>12. <<43, 14, 1, said.level, IF said.more THEN 255 ELSE 0, said.next, Len(said.objects)>> = head
  BY <1>5, <1>11 DEF head
<1>13. Says(said, pdu)
  <2> DEFINE front == <<43, 14, 1, said.level, IF said.more THEN 255 ELSE 0, said.next,
                        Len(said.objects)>>
  <2>1. Len(said.objects) = last /\ DOMAIN said.objects = 1..last
    BY <1>5, <1>11, LenProperties
  <2>2. front = head
    BY <1>12
  <2>3. Flat(said.objects) = SubSeq(pdu, 8, Len(pdu))
    BY <1>7, <1>11
  <2> HIDE DEF front
  <2>4. front \o Flat(said.objects) = pdu
    BY <2>2, <2>3, <1>10
  <2> QED
    BY <2>1, <2>4, <1>11 DEF Says, front
<1> QED
  BY <1>1, <1>13

LEMMA WordIs ==
  ASSUME NEW high \in Byte, NEW low \in Byte, NEW word, word = 256 * high + low
  PROVE  word \div 256 = high /\ word % 256 = low /\ (word = 0 => high = 0 /\ low = 0)
BY DEF Byte

(* A response that parses is a header and an identity or an exception.     *)
Responds(response, id, unit, pdu) ==
  /\ pdu \in Seq(Byte)
  /\ response = Modbus!Header(id, Len(pdu) + 1, unit) \o pdu
  /\ \/ /\ Modbus!DeviceId(response, id, unit) = Modbus!Identity(pdu)
     \/ /\ pdu = <<171, pdu[2]>>
        /\ Modbus!DeviceId(response, id, unit) = [exception |-> pdu[2]]

Payload(response) == SubSeq(response, 8, Len(response))

LEMMA ResponseIs ==
  ASSUME NEW response \in Seq(Byte), NEW id, NEW unit,
         Modbus!DeviceId(response, id, unit) # Failed,
         NEW pdu, pdu = Payload(response)
  PROVE  Responds(response, id, unit, pdu)
<1> DEFINE len == Len(response)
           length == Modbus!Word(response, 5)
<1>1. /\ ~(len < 9) /\ Modbus!Word(response, 1) = id /\ Modbus!Word(response, 3) = 0
      /\ response[7] = unit /\ length \in 3..254 /\ len = 6 + length
      /\ \/ /\ Modbus!DeviceId(response, id, unit) = Modbus!Identity(pdu)
         \/ /\ pdu[1] = 171 /\ Len(pdu) = 2
            /\ Modbus!DeviceId(response, id, unit) = [exception |-> pdu[2]]
  BY DEF Modbus!DeviceId, Payload
<1>2. len \in Nat
  BY LenProperties
<1>3. len >= 7
  BY <1>1, <1>2
<1>4. pdu \in Seq(Byte) /\ Len(pdu) = len - 7
  <2>1. 7 \in 0..Len(response) /\ Len(response) \in 7..Len(response) /\ 7 + 1 = 8
    BY <1>2, <1>3
  <2>2. /\ SubSeq(response, 7 + 1, Len(response)) \in Seq(Byte)
        /\ Len(SubSeq(response, 7 + 1, Len(response))) = Len(response) - 7
    BY <2>1, Part
  <2> QED
    BY <2>1, <2>2 DEF Payload
<1>5. Len(pdu) + 1 = length
  <2> HIDE DEF len, length
  <2> QED
    BY <1>1, <1>2, <1>4
<1>6. /\ response[1] \in Byte /\ response[2] \in Byte /\ response[3] \in Byte
      /\ response[4] \in Byte /\ response[5] \in Byte /\ response[6] \in Byte
      /\ response[7] \in Byte
  BY <1>3, SevenOf
<1>7. /\ id = 256 * response[1] + response[2] /\ 0 = 256 * response[3] + response[4]
      /\ length = 256 * response[5] + response[6]
  <2>1. 1 + 1 = 2 /\ 3 + 1 = 4 /\ 5 + 1 = 6
    OBVIOUS
  <2> QED
    BY <1>1, <2>1 DEF Modbus!Word
<1>8. id \div 256 = response[1] /\ id % 256 = response[2]
  BY <1>6, <1>7, WordIs
<1>9. length \div 256 = response[5] /\ length % 256 = response[6]
  <2>1. length = 256 * response[5] + response[6]
    BY <1>7
  <2>2. response[5] \in Byte /\ response[6] \in Byte
    BY <1>6
  <2> HIDE DEF length
  <2> QED
    BY <2>1, <2>2, WordIs
<1>10. response[3] = 0 /\ response[4] = 0
  BY <1>6, <1>7, WordIs
<1> DEFINE head == Modbus!Header(id, length, unit)
<1>11. head = <<response[1], response[2], response[3], response[4], response[5], response[6],
                response[7]>>
  BY <1>1, <1>8, <1>9, <1>10 DEF Modbus!Header
<1> HIDE DEF head, len, length
<1>12. head \in Seq(Byte) /\ Len(head) = 7 /\ \A i \in 1..7 : head[i] = response[i]
  <2>1. \A i \in 1..7 : i = 1 \/ i = 2 \/ i = 3 \/ i = 4 \/ i = 5 \/ i = 6 \/ i = 7
    OBVIOUS
  <2>2. /\ head \in Seq(Byte) /\ Len(head) = 7
        /\ head[1] = response[1] /\ head[2] = response[2] /\ head[3] = response[3]
        /\ head[4] = response[4] /\ head[5] = response[5] /\ head[6] = response[6]
        /\ head[7] = response[7]
    BY <1>6, <1>11, SevenBytes
  <2> QED
    BY <2>1, <2>2
<1>13. head \o SubSeq(response, 8, Len(response)) = response
  <2>1. Len(response) >= 7
    BY <1>3 DEF len
  <2> QED
    BY <1>12, <2>1, HeadAndRest
<1>14. pdu[1] = 171 /\ Len(pdu) = 2 => pdu = <<171, pdu[2]>>
  <2>2. pdu \in Seq(Byte)
    BY <1>4
  <2>3. Len(pdu) = 2 => pdu = <<pdu[1], pdu[2]>>
    BY <2>2
  <2> QED
    BY <2>3
<1> QED
  BY <1>1, <1>4, <1>5, <1>13, <1>14 DEF head, length, Responds, Payload

(* What a probe that confirms has read.                                    *)
LEMMA ProbeIs ==
  ASSUME NEW bytes, NEW ended \in {"eof", "reset", "response_timeout"}, NEW id, NEW unit,
         NEW probe, probe = Modbus!Probe(bytes, ended, id, unit),
         probe.outcome \in {"confirmed_identity", "confirmed_exception"}
  PROVE  LET length == Modbus!Word(bytes, 5)
             parsed == Modbus!DeviceId(SubSeq(bytes, 1, 6 + length), id, unit)
         IN  /\ ~(Len(bytes) < 7) /\ length \in 3..254 /\ ~(Len(bytes) < 6 + length)
             /\ probe.parsed = parsed /\ parsed # Failed
             /\ (probe.outcome = "confirmed_exception") <=> ("exception" \in DOMAIN parsed)
BY DEF Modbus!Probe

(* A confirmed answer says, byte for byte, what is reported, and a device  *)
(* whose identity is called complete has said three names                  *)
(* (modbus_discovery.py:217, 256, 328).                                    *)
ConfirmedIsSaid(bytes, probe, id, unit) ==
  /\ probe.outcome = "confirmed_identity" =>
       IsPrefix(Modbus!Answer(probe.parsed, id, unit), bytes)
  /\ probe.outcome = "confirmed_exception" =>
       IsPrefix(Modbus!Exception(probe.parsed.exception, id, unit), bytes)
  /\ Modbus!DeviceState(probe) = "identity_confirmed" => Len(probe.parsed.objects) = 3

LEMMA BeginningIs ==
  ASSUME NEW bytes \in Seq(Byte), NEW n \in Nat, n <= Len(bytes), NEW part,
         part = SubSeq(bytes, 1, n)
  PROVE  IsPrefix(part, bytes)
<1>1. part \in Seq(Byte) /\ Len(part) = n
  BY PrefixOfBytes
<1>2. SubSeq(part, 1, Len(part)) = part
  BY <1>1, SubSeqFull
<1> QED
  BY <1>1, <1>2 DEF IsPrefix

(* Whatever bytes a host answers, the identity or exception reported of it *)
(* is in them byte for byte (modbus_discovery.py:205, 315).                *)
THEOREM ConfirmedAnswersAreSaid ==
  ASSUME NEW bytes \in Seq(Byte), NEW ended \in {"eof", "reset", "response_timeout"},
         NEW id, NEW unit, NEW probe, probe = Modbus!Probe(bytes, ended, id, unit)
  PROVE  ConfirmedIsSaid(bytes, probe, id, unit)
<1>1. SUFFICES ASSUME probe.outcome \in {"confirmed_identity", "confirmed_exception"}
               PROVE  ConfirmedIsSaid(bytes, probe, id, unit)
  <2>1. CASE probe.outcome \notin {"confirmed_identity", "confirmed_exception"}
    <3>1. probe.outcome # "confirmed_identity" /\ probe.outcome # "confirmed_exception"
      BY <2>1
    <3>2. Modbus!DeviceState(probe) = "tcp_502_candidate"
      BY <3>1 DEF Modbus!DeviceState
    <3>3. Modbus!DeviceState(probe) # "identity_confirmed"
      BY <3>2
    <3> QED
      BY <3>1, <3>3 DEF ConfirmedIsSaid
  <2> QED
    BY <1>1, <2>1
<1> DEFINE length == Modbus!Word(bytes, 5)
           response == SubSeq(bytes, 1, 6 + length)
           parsed == Modbus!DeviceId(response, id, unit)
           pdu == Payload(response)
<1>2. /\ ~(Len(bytes) < 7) /\ length \in 3..254 /\ ~(Len(bytes) < 6 + length)
      /\ probe.parsed = parsed /\ parsed # Failed
      /\ (probe.outcome = "confirmed_exception") <=> ("exception" \in DOMAIN parsed)
  BY <1>1, ProbeIs
<1>3. 6 + length \in Nat /\ 6 + length <= Len(bytes)
  <2>1. Len(bytes) \in Nat /\ length \in Nat
    <3>1. length \in 3..254
      BY <1>2
    <3> HIDE DEF length
    <3> QED
      BY <3>1, LenProperties
  <2>2. ~(Len(bytes) < 6 + length)
    BY <1>2
  <2> HIDE DEF length
  <2> QED
    BY <2>1, <2>2
<1>4. response \in Seq(Byte) /\ IsPrefix(response, bytes)
  <2> DEFINE n == 6 + length
  <2>1. n \in Nat /\ n <= Len(bytes) /\ response = SubSeq(bytes, 1, n)
    BY <1>3
  <2> HIDE DEF n, response
  <2> QED
    BY <2>1, PrefixOfBytes, BeginningIs
<1> HIDE DEF response, length
<1>5. /\ pdu \in Seq(Byte)
      /\ response = Modbus!Header(id, Len(pdu) + 1, unit) \o pdu
      /\ parsed = Modbus!Identity(pdu) \/ (pdu = <<171, pdu[2]>> /\ parsed = [exception |-> pdu[2]])
  <2>1. parsed = Modbus!DeviceId(response, id, unit) /\ pdu = Payload(response)
    OBVIOUS
  <2>2. parsed # Failed
    BY <1>2
  <2> HIDE DEF parsed, pdu
  <2>3. Modbus!DeviceId(response, id, unit) # Failed
    BY <2>1, <2>2
  <2>4. /\ pdu \in Seq(Byte)
        /\ response = Modbus!Header(id, Len(pdu) + 1, unit) \o pdu
        /\ \/ Modbus!DeviceId(response, id, unit) = Modbus!Identity(pdu)
           \/ /\ pdu = <<171, pdu[2]>>
              /\ Modbus!DeviceId(response, id, unit) = [exception |-> pdu[2]]
    <3>1. pdu = Payload(response) /\ response \in Seq(Byte)
      BY <2>1, <1>4
    <3>2. Responds(response, id, unit, pdu)
      BY <2>3, <3>1, ResponseIs
    <3> QED
      BY <3>2 DEF Responds
  <2> QED
    BY <2>1, <2>4
<1> HIDE DEF parsed, pdu
<1>6. CASE parsed = Modbus!Identity(pdu)
  <2>1. Says(parsed, pdu)
    BY <1>2, <1>5, <1>6, IdentityIsSaid
  <2>2. "exception" \notin DOMAIN parsed
    <3>1. DOMAIN parsed = {"level", "more", "next", "objects"}
      BY <2>1 DEF Says
    <3> QED
      BY <3>1
  <2>3. Modbus!Answer(parsed, id, unit) = response
    <3> DEFINE said == <<43, 14, 1, parsed.level, IF parsed.more THEN 255 ELSE 0, parsed.next,
                         Len(parsed.objects)>> \o Flat(parsed.objects)
    <3>1. Modbus!Answer(parsed, id, unit) = Modbus!Header(id, Len(said) + 1, unit) \o said
      BY DEF Modbus!Answer, Flat, Bytes
    <3>2. said = pdu
      BY <2>1 DEF Says
    <3> HIDE DEF said
    <3> QED
      BY <1>5, <3>1, <3>2
  <2>4. Modbus!DeviceState(probe) = "identity_confirmed" => Len(parsed.objects) = 3
    <3> DEFINE objects == parsed.objects
    <3>1. SUFFICES ASSUME \A number \in 0..2 : Modbus!Named(objects, number)
                   PROVE  Len(objects) = 3
      <4>1. probe.outcome = "confirmed_identity" /\ probe.outcome # "confirmed_exception"
        BY <1>1, <1>2, <2>2
      <4>2. ~(\A number \in 0..2 : Modbus!Named(objects, number)) =>
              Modbus!DeviceState(probe) = "modbus_confirmed_identity_partial"
        BY <1>2, <4>1 DEF Modbus!DeviceState
      <4> QED
        BY <3>1, <4>2
    <3>2. \A number \in 0..2 : \E i \in DOMAIN objects : objects[i][1] = number
      BY <3>1 DEF Modbus!Named
    <3>3. Len(objects) \in 1..3
      BY <2>1 DEF Says
    <3>4. DOMAIN objects = 1..Len(objects)
      BY <2>1 DEF Says
    <3> HIDE DEF objects
    <3>5. PICK i \in 1..Len(objects), j \in 1..Len(objects), k \in 1..Len(objects) :
            objects[i][1] = 0 /\ objects[j][1] = 1 /\ objects[k][1] = 2
      BY <3>2, <3>4
    <3>6. i # j /\ i # k /\ j # k
      BY <3>5
    <3> QED
      BY <3>3, <3>5, <3>6
  <2> QED
    BY <1>2, <1>4, <2>2, <2>3, <2>4 DEF ConfirmedIsSaid
<1>7. CASE pdu = <<171, pdu[2]>> /\ parsed = [exception |-> pdu[2]]
  <2>1. "exception" \in DOMAIN parsed /\ parsed.exception = pdu[2]
    BY <1>7
  <2>2. probe.outcome = "confirmed_exception" /\ probe.outcome # "confirmed_identity"
    BY <1>2, <2>1
  <2>3. Modbus!Exception(parsed.exception, id, unit) = response
    <3>1. Len(pdu) = 2
      <4>1. Len(<<171, pdu[2]>>) = 2
        OBVIOUS
      <4> QED
        BY <1>7, <4>1
    <3>2. Len(pdu) + 1 = 3
      BY <3>1
    <3> QED
      BY <1>5, <1>7, <2>1, <3>2 DEF Modbus!Exception
  <2>4. Modbus!DeviceState(probe) # "identity_confirmed"
    BY <2>2 DEF Modbus!DeviceState
  <2> QED
    BY <1>2, <1>4, <2>2, <2>3, <2>4 DEF ConfirmedIsSaid
<1> QED
  BY <1>5, <1>6, <1>7

(* Bytes in three parts, read from the second. *)
LEMMA MiddleIs ==
  ASSUME NEW front \in Seq(Byte), NEW part \in Seq(Byte), NEW back \in Seq(Byte),
         NEW bytes, bytes = (front \o part) \o back
  PROVE  /\ bytes \in Seq(Byte) /\ Len(bytes) >= Len(front) + Len(part)
         /\ \A i \in 1..Len(part) : bytes[Len(front) + i] = part[i]
<1> DEFINE f == Len(front)
           p == Len(part)
           both == front \o part
<1>1. f \in Nat /\ p \in Nat /\ Len(back) \in Nat
  BY LenProperties
<1>2. /\ both \in Seq(Byte) /\ Len(both) = f + p
      /\ \A i \in 1..(f + p) : both[i] = IF i <= f THEN front[i] ELSE part[i - f]
  BY ConcatProperties
<1> HIDE DEF both
<1>3. /\ both \o back \in Seq(Byte) /\ Len(both \o back) = Len(both) + Len(back)
      /\ \A i \in 1..(Len(both) + Len(back)) :
           (both \o back)[i] = IF i <= Len(both) THEN both[i] ELSE back[i - Len(both)]
  <2>1. both \in Seq(Byte)
    BY <1>2
  <2> QED
    BY <2>1, ConcatProperties
<1>4. bytes = both \o back
  BY DEF both
<1> DEFINE b == Len(back)
<1>5. /\ bytes \in Seq(Byte) /\ Len(bytes) = (f + p) + b
      /\ \A i \in 1..((f + p) + b) : i <= f + p => bytes[i] = both[i]
  BY <1>2, <1>3, <1>4
<1> HIDE DEF f, p, b
<1>6. ASSUME NEW i \in 1..p
      PROVE  bytes[f + i] = part[i]
  <2>1. /\ f + i \in 1..(f + p) /\ f + i \in 1..((f + p) + b) /\ f + i <= f + p
        /\ ~(f + i <= f) /\ (f + i) - f = i
    BY <1>1 DEF b
  <2> QED
    BY <1>2, <1>5, <2>1
<1>7. Len(bytes) >= f + p
  BY <1>1, <1>5 DEF b
<1> QED
  BY <1>5, <1>6, <1>7 DEF f, p

(* An object that may come next.                                           *)
ComesNext(objects, o) ==
  \/ objects = <<>>
  \/ objects[Len(objects)][1] \in Byte /\ o[1] \in Byte /\ objects[Len(objects)][1] < o[1]

LEMMA Advanced ==
  ASSUME NEW c, NEW d, NEW s, s = [ok |-> s.ok, index |-> s.index, objects |-> s.objects],
         s.ok = TRUE, NEW t, t = [s EXCEPT !.index = c, !.objects = d]
  PROVE  t = [ok |-> TRUE, index |-> c, objects |-> d]
OBVIOUS

(* An object that stands in the answer at the place to be read.            *)
Stands(front, o, back, pdu, at, objects) ==
  /\ front \in Seq(Byte) /\ o \in IdentityObjects /\ back \in Seq(Byte)
  /\ pdu = (front \o Modbus!ObjectBytes(o)) \o back
  /\ at \in Nat /\ at = Len(front) + 1 /\ ComesNext(objects, o)

LEMMA Above ==
  ASSUME NEW x \in Byte, NEW y \in Byte, x < y
  PROVE  ~(y <= x)
BY DEF Byte

LEMMA ShiftedByTwo ==
  ASSUME NEW f \in Nat, NEW size \in Nat, NEW i \in 1..size
  PROVE  /\ (f + 2) + i = f + (i + 2) /\ i + 2 \in 1..(size + 2) /\ i + 2 \in 3..(size + 2)
         /\ (i + 2) - 2 = i
OBVIOUS

(* An object at its place is read as it is.                                *)
ReadsOneMore(o, pdu, at, objects) ==
  Modbus!Object([ok |-> TRUE, index |-> at, objects |-> objects], pdu) =
    [ok |-> TRUE, index |-> at + Len(Modbus!ObjectBytes(o)), objects |-> Append(objects, o)]

LEMMA ObjectReadBack ==
  ASSUME NEW front, NEW o, NEW back, NEW pdu, NEW at, NEW objects,
         Stands(front, o, back, pdu, at, objects)
  PROVE  ReadsOneMore(o, pdu, at, objects)
<1> DEFINE part == Modbus!ObjectBytes(o)
           text == o[2]
           size == Len(text)
           f == Len(front)
           len == Len(pdu)
           s == [ok |-> TRUE, index |-> at, objects |-> objects]
<1>0. /\ front \in Seq(Byte) /\ o \in IdentityObjects /\ back \in Seq(Byte)
      /\ pdu = (front \o Modbus!ObjectBytes(o)) \o back
      /\ at \in Nat /\ at = Len(front) + 1 /\ ComesNext(objects, o)
  BY DEF Stands
<1>1. /\ part \in Seq(Byte) /\ Len(part) = size + 2 /\ part[1] = o[1] /\ part[2] = size
      /\ \A k \in 3..(size + 2) : part[k] = text[k - 2]
  BY <1>0, ObjectIs
<1>2. o[1] \in Byte /\ text \in Seq(Byte) /\ size \in Byte /\ o = <<o[1], text>>
  BY <1>0 DEF IdentityObjects
<1>3. size \in Nat /\ f \in Nat
  BY <1>0, <1>2, LenProperties DEF Byte
<1> HIDE DEF part
<1>4. /\ pdu \in Seq(Byte) /\ len >= f + (size + 2)
      /\ \A i \in 1..(size + 2) : pdu[f + i] = part[i]
  <2>1. pdu = (front \o part) \o back
    BY <1>0 DEF part
  <2>2. /\ pdu \in Seq(Byte) /\ Len(pdu) >= Len(front) + Len(part)
        /\ \A i \in 1..Len(part) : pdu[Len(front) + i] = part[i]
    BY <1>0, <1>1, <2>1, MiddleIs
  <2> HIDE DEF size, text
  <2> QED
    BY <1>1, <2>2
<1>5. len \in Nat
  BY <1>4, LenProperties
<1> HIDE DEF text, size, f, len
<1>6. at = f + 1
  BY <1>0 DEF f
<1>7. pdu[at] = o[1] /\ pdu[at + 1] = size
  <2>1. 1 \in 1..(size + 2) /\ 2 \in 1..(size + 2) /\ at + 1 = f + 2
    BY <1>3, <1>6
  <2>2. pdu[f + 1] = part[1] /\ pdu[f + 2] = part[2]
    BY <1>4, <2>1
  <2> QED
    BY <1>1, <1>6, <2>1, <2>2
<1>8. SubSeq(pdu, at + 2, at + 1 + size) = text
  <2> DEFINE a == at + 1
             b == at + 1 + size
             piece == SubSeq(pdu, a + 1, b)
  <2>1. a \in 0..len /\ b \in a..len /\ b - a = size /\ a + 1 = at + 2
    BY <1>3, <1>4, <1>5, <1>6
  <2>2. a \in 0..Len(pdu) /\ b \in a..Len(pdu)
    BY <2>1 DEF len
  <2>0. a = f + 2
    BY <1>3, <1>6
  <2> HIDE DEF a, b
  <2>3. piece \in Seq(Byte) /\ Len(piece) = b - a /\ \A i \in 1..(b - a) : piece[i] = pdu[a + i]
    BY <1>4, <2>2, Part
  <2>4. ASSUME NEW i \in 1..size
        PROVE  piece[i] = text[i]
    <3>1. a + i = f + (i + 2) /\ i + 2 \in 1..(size + 2) /\ i + 2 \in 3..(size + 2)
          /\ (i + 2) - 2 = i
      BY <1>3, <2>0, ShiftedByTwo
    <3>2. piece[i] = pdu[a + i]
      BY <2>1, <2>3
    <3>3. pdu[f + (i + 2)] = part[i + 2] /\ part[i + 2] = text[i]
      BY <1>1, <1>4, <3>1
    <3> QED
      BY <3>1, <3>2, <3>3
  <2>5. Len(piece) = size /\ Len(text) = size /\ text \in Seq(Byte)
    BY <1>2, <2>1, <2>3 DEF size
  <2> HIDE DEF piece
  <2>6. piece = text
    BY <2>3, <2>4, <2>5, SeqEqual
  <2> QED
    BY <2>1, <2>6 DEF piece, b
<1>9. ~(at + 1 > len) /\ ~(at + 1 + size > len)
  BY <1>3, <1>4, <1>5, <1>6
<1>10. objects = <<>> \/ ~(pdu[at] <= objects[Len(objects)][1])
  <2> DEFINE x == objects[Len(objects)][1]
             y == o[1]
  <2>1. objects = <<>> \/ (x \in Byte /\ y \in Byte /\ x < y)
    BY <1>0 DEF ComesNext
  <2>2. pdu[at] = y
    BY <1>7
  <2> HIDE DEF x, y
  <2>3. objects = <<>> \/ ~(y <= x)
    BY <2>1, Above
  <2> QED
    BY <2>2, <2>3 DEF x
<1> HIDE DEF s
<1>11. s.ok = TRUE /\ s.index = at /\ s.objects = objects
  BY DEF s
<1>12. Modbus!Object(s, pdu) =
         [s EXCEPT !.index = at + 2 + size, !.objects = Append(objects, <<pdu[at], text>>)]
  <2> DEFINE length == pdu[at + 1]
             piece == SubSeq(pdu, at + 2, at + 1 + length)
  <2>1. length = size /\ piece = text
    BY <1>7, <1>8
  <2>2. /\ ~(~s.ok \/ at + 1 > Len(pdu))
        /\ ~(\/ s.objects # <<>> /\ pdu[at] <= s.objects[Len(s.objects)][1]
             \/ at + 1 + length > Len(pdu))
    BY <1>9, <1>10, <1>11, <2>1 DEF len
  <2>3. Modbus!Object(s, pdu) =
          [s EXCEPT !.index = at + 2 + length, !.objects = Append(objects, <<pdu[at], piece>>)]
    <3> HIDE DEF length
    <3> QED
      BY <1>11, <2>2 DEF Modbus!Object, Modbus!Last, length
  <2> QED
    BY <2>1, <2>3
<1>13. <<pdu[at], text>> = o
  <2> DEFINE number == o[1]
  <2>1. pdu[at] = number
    BY <1>7
  <2>2. o = <<number, text>>
    BY <1>2
  <2> HIDE DEF number
  <2> QED
    BY <2>1, <2>2
<1>14. at + 2 + size = at + Len(part)
  BY <1>0, <1>1, <1>3
<1>15. [s EXCEPT !.index = at + Len(part), !.objects = Append(objects, o)] =
         [ok |-> TRUE, index |-> at + Len(part), objects |-> Append(objects, o)]
  <2>1. s = [ok |-> s.ok, index |-> s.index, objects |-> s.objects]
    BY DEF s
  <2> DEFINE t == [s EXCEPT !.index = at + Len(part), !.objects = Append(objects, o)]
  <2>2. t = [s EXCEPT !.index = at + Len(part), !.objects = Append(objects, o)]
    OBVIOUS
  <2> HIDE DEF t
  <2>3. t = [ok |-> TRUE, index |-> at + Len(part), objects |-> Append(objects, o)]
    BY <1>11, <2>1, <2>2, Advanced
  <2> QED
    BY <2>3 DEF t
<1>16. Modbus!Object(s, pdu) = [ok |-> TRUE, index |-> at + Len(part), objects |-> Append(objects, o)]
  BY <1>12, <1>13, <1>14, <1>15
<1> QED
  BY <1>16 DEF s, part, ReadsOneMore

(* The first of the objects.                                               *)
First(objects, k) == SubSeq(objects, 1, k)

LEMMA FirstAre ==
  ASSUME NEW objects \in Seq(IdentityObjects), NEW k \in Nat, k < Len(objects)
  PROVE  /\ First(objects, k) \in Seq(IdentityObjects) /\ Len(First(objects, k)) = k
         /\ k >= 1 => First(objects, k)[k] = objects[k]
         /\ objects[k + 1] \in IdentityObjects
         /\ First(objects, k + 1) = Append(First(objects, k), objects[k + 1])
         /\ Flat(First(objects, k + 1)) =
              Flat(First(objects, k)) \o Modbus!ObjectBytes(objects[k + 1])
<1> DEFINE first == SubSeq(objects, 1, k)
           o == objects[k + 1]
           last == Len(objects)
<1>1. last \in Nat /\ k < last
  BY LenProperties
<1>2. k + 1 \in 1..last /\ 0 \in 0..last /\ k \in 0..last /\ k - 0 = k /\ 0 + 1 = 1
  BY <1>1
<1>3. o \in IdentityObjects
  BY <1>2, ElementOfSeq
<1>4. /\ first \in Seq(IdentityObjects) /\ Len(first) = k
      /\ \A i \in 1..k : first[i] = objects[i]
  <2>1. /\ SubSeq(objects, 0 + 1, k) \in Seq(IdentityObjects)
        /\ Len(SubSeq(objects, 0 + 1, k)) = k - 0
        /\ \A i \in 1..(k - 0) : SubSeq(objects, 0 + 1, k)[i] = objects[0 + i]
    BY <1>2, Part
  <2>2. \A i \in 1..k : 0 + i = i
    OBVIOUS
  <2> QED
    BY <1>2, <2>1, <2>2
<1>5. SubSeq(objects, 1, k + 1) = Append(first, o)
  <2> DEFINE n == k + 1
             more == SubSeq(objects, 1, n)
  <2>1. 0 \in 0..last /\ n \in 0..last /\ n - 0 = n /\ 0 + 1 = 1 /\ n \in Nat
    BY <1>1
  <2> HIDE DEF n
  <2>2. more \in Seq(IdentityObjects) /\ Len(more) = n /\ \A i \in 1..n : more[i] = objects[i]
    <3>1. /\ SubSeq(objects, 0 + 1, n) \in Seq(IdentityObjects)
          /\ Len(SubSeq(objects, 0 + 1, n)) = n - 0
          /\ \A i \in 1..(n - 0) : SubSeq(objects, 0 + 1, n)[i] = objects[0 + i]
      BY <2>1, Part
    <3>2. \A i \in 1..n : 0 + i = i
      BY <2>1
    <3> QED
      BY <2>1, <3>1, <3>2
  <2>3. /\ Append(first, o) \in Seq(IdentityObjects) /\ Len(Append(first, o)) = k + 1
        /\ Append(first, o)[k + 1] = o /\ \A i \in 1..k : Append(first, o)[i] = first[i]
    BY <1>3, <1>4, AppendProperties
  <2> HIDE DEF more, first
  <2>4. ASSUME NEW i \in 1..n
        PROVE  more[i] = Append(first, o)[i]
    <3>1. i = k + 1 \/ i \in 1..k
      BY DEF n
    <3> QED
      BY <1>4, <2>2, <2>3, <3>1
  <2>5. more = Append(first, o)
    BY <2>2, <2>3, <2>4, SeqEqual DEF n
  <2> QED
    BY <2>5 DEF more, n
<1>6. Flat(Append(first, o)) = Flat(first) \o Modbus!ObjectBytes(o)
  BY <1>3, <1>4, FlatOneMore
<1>7. k >= 1 => first[k] = objects[k]
  BY <1>4
<1> HIDE DEF first, o
<1>8. Flat(SubSeq(objects, 1, k + 1)) = Flat(first) \o Modbus!ObjectBytes(o)
  BY <1>5, <1>6
<1> QED
  BY <1>3, <1>4, <1>5, <1>7, <1>8 DEF First, first, o

LEMMA FlatIsBytes ==
  ASSUME NEW objects \in Seq(IdentityObjects), NEW k \in 0..Len(objects)
  PROVE  Flat(First(objects, k)) \in Seq(Byte)
<1>1. Len(objects) \in Nat
  BY LenProperties
<1> DEFINE S == {n \in Nat : n <= Len(objects) => Flat(First(objects, n)) \in Seq(Byte)}
<1>2. 0 \in S
  <2>1. First(objects, 0) = <<>>
    BY SubSeqEmpty DEF First
  <2>2. Flat(First(objects, 0)) = <<>>
    BY <2>1, FlatNone
  <2>3. <<>> \in Seq(Byte)
    BY EmptySeq
  <2> QED
    BY <2>2, <2>3
<1>3. ASSUME NEW n \in Nat, n \in S
      PROVE  n + 1 \in S
  <2>1. SUFFICES ASSUME n + 1 <= Len(objects)
                 PROVE  Flat(First(objects, n + 1)) \in Seq(Byte)
    OBVIOUS
  <2>2. n < Len(objects) /\ n <= Len(objects)
    BY <1>1, <2>1
  <2>3. Flat(First(objects, n)) \in Seq(Byte)
    BY <1>3, <2>2
  <2>4. /\ objects[n + 1] \in IdentityObjects
        /\ Flat(First(objects, n + 1)) =
             Flat(First(objects, n)) \o Modbus!ObjectBytes(objects[n + 1])
    BY <2>2, FirstAre
  <2>5. Modbus!ObjectBytes(objects[n + 1]) \in Seq(Byte)
    BY <2>4, ObjectIs
  <2> QED
    BY <2>3, <2>4, <2>5, ConcatProperties
<1> HIDE DEF S
<1>4. Nat \subseteq S
  BY <1>2, <1>3, Induction
<1>5. k \in Nat /\ k <= Len(objects)
  BY <1>1
<1> QED
  BY <1>4, <1>5 DEF S

(* What is left behind the first objects.                                  *)
Leaves(objects, k, back) ==
  back \in Seq(Byte) /\ Flat(First(objects, Len(objects))) = Flat(First(objects, k)) \o back

LEMMA OneObjectLess ==
  ASSUME NEW objects \in Seq(IdentityObjects), NEW k \in Nat, k < Len(objects), NEW back,
         Leaves(objects, k + 1, back)
  PROVE  /\ Flat(First(objects, Len(objects))) =
              (Flat(First(objects, k)) \o Modbus!ObjectBytes(objects[k + 1])) \o back
         /\ Leaves(objects, k, Modbus!ObjectBytes(objects[k + 1]) \o back)
<1> DEFINE front == Flat(First(objects, k))
           part == Modbus!ObjectBytes(objects[k + 1])
<1>1. Len(objects) \in Nat
  BY LenProperties
<1>2. k \in 0..Len(objects)
  BY <1>1
<1>3. front \in Seq(Byte)
  BY <1>2, FlatIsBytes
<1>4. objects[k + 1] \in IdentityObjects /\ Flat(First(objects, k + 1)) = front \o part
  BY FirstAre
<1>5. part \in Seq(Byte)
  BY <1>4, ObjectIs
<1>6. back \in Seq(Byte)
  BY DEF Leaves
<1>7. Flat(First(objects, Len(objects))) = (front \o part) \o back
  BY <1>4 DEF Leaves
<1> HIDE DEF front, part
<1>8. (front \o part) \o back = front \o (part \o back) /\ part \o back \in Seq(Byte)
  <2>1. part \o back \in Seq(Byte)
    BY <1>5, <1>6, ConcatProperties
  <2>2. (front \o part) \o back = front \o (part \o back)
    BY <1>3, <1>5, <1>6, ConcatAssociative
  <2> QED
    BY <2>1, <2>2
<1> QED
  BY <1>7, <1>8 DEF Leaves, front, part

Ascend(objects) == \A i \in 2..Len(objects) : objects[i - 1][1] < objects[i][1]

ReadFirst(objects, k) ==
  [ok |-> TRUE, index |-> 8 + Len(Flat(First(objects, k))), objects |-> First(objects, k)]

Regroups(a, b, c, d) == a \o ((b \o c) \o d) = ((a \o b) \o c) \o d

Regroups3(a, b, c) == (a \o b) \o c = a \o (b \o c)

LEMMA ThreeParts ==
  ASSUME NEW a \in Seq(Byte), NEW b \in Seq(Byte), NEW c \in Seq(Byte)
  PROVE  Regroups3(a, b, c)
<1>1. (a \o b) \o c = a \o (b \o c)
  BY ConcatAssociative
<1> QED
  BY <1>1 DEF Regroups3

LEMMA FourParts ==
  ASSUME NEW a \in Seq(Byte), NEW b \in Seq(Byte), NEW c \in Seq(Byte), NEW d \in Seq(Byte)
  PROVE  Regroups(a, b, c, d)
<1> DEFINE x == b \o c
<1>1. x \in Seq(Byte)
  BY ConcatProperties
<1>2. Regroups3(a, b, c)
  BY ThreeParts
<1>3. Regroups3(a, x, d)
  <2> HIDE DEF x
  <2> QED
    BY <1>1, ThreeParts
<1>4. (a \o b) \o c = a \o x
  BY <1>2, Zenon DEF Regroups3
<1> HIDE DEF x
<1>5. (a \o x) \o d = a \o (x \o d)
  BY <1>3, Zenon DEF Regroups3
<1>6. a \o (x \o d) = ((a \o b) \o c) \o d
  BY <1>4, <1>5, Zenon
<1> QED
  BY <1>6, Zenon DEF x, Regroups

Joins(head, flat, both) == both = head \o flat

Behind(head, flat, both) ==
  /\ both \in Seq(Byte) /\ Len(flat) \in Nat /\ Len(both) = 7 + Len(flat)
  /\ \A i \in 1..7 : both[i] = head[i]
  /\ \A i \in 1..Len(flat) : both[7 + i] = flat[i]

LEMMA BehindHead ==
  ASSUME NEW head \in Seq(Byte), Len(head) = 7, NEW flat \in Seq(Byte), NEW both,
         Joins(head, flat, both)
  PROVE  Behind(head, flat, both)
<1> DEFINE f == Len(flat)
           h == Len(head)
           joined == head \o flat
<1>1. f \in Nat /\ h = 7
  BY LenProperties
<1>2. /\ joined \in Seq(Byte) /\ Len(joined) = h + f
      /\ \A i \in 1..(h + f) : joined[i] = IF i <= h THEN head[i] ELSE flat[i - h]
  BY ConcatProperties
<1> HIDE DEF f, h, joined
<1>3. \A i \in 1..7 : i \in 1..(h + f) /\ i <= h
  BY <1>1
<1>4. \A i \in 1..7 : joined[i] = head[i]
  BY <1>2, <1>3
<1>5. \A i \in 1..f : 7 + i \in 1..(h + f) /\ ~(7 + i <= h) /\ (7 + i) - h = i
  BY <1>1
<1>6. \A i \in 1..f : joined[7 + i] = flat[i]
  BY <1>2, <1>5
<1>7. both = joined /\ Len(joined) = 7 + f
  BY <1>1, <1>2 DEF joined, Joins
<1> QED
  BY <1>1, <1>2, <1>4, <1>6, <1>7 DEF f, Behind

LEMMA ReadsBackOneMore ==
  ASSUME NEW objects \in Seq(IdentityObjects), Ascend(objects), NEW head \in Seq(Byte),
         Len(head) = 7, NEW pdu, Joins(head, Flat(objects), pdu),
         NEW k \in Nat, k < Len(objects), NEW back, Leaves(objects, k + 1, back)
  PROVE  Modbus!Object(ReadFirst(objects, k), pdu) = ReadFirst(objects, k + 1)
<1> DEFINE flat == Flat(First(objects, k))
           o == objects[k + 1]
           part == Modbus!ObjectBytes(o)
           at == 8 + Len(flat)
           front == head \o flat
           before == First(objects, k)
<1>1. Len(objects) \in Nat /\ k \in 0..Len(objects)
  BY LenProperties
<1>2. flat \in Seq(Byte) /\ Len(flat) \in Nat
  <2>1. flat \in Seq(Byte)
    BY <1>1, FlatIsBytes
  <2> QED
    BY <2>1, LenProperties
<1>3. /\ before \in Seq(IdentityObjects) /\ Len(before) = k /\ (k >= 1 => before[k] = objects[k])
      /\ o \in IdentityObjects /\ First(objects, k + 1) = Append(before, o)
      /\ Flat(First(objects, k + 1)) = flat \o part
  BY FirstAre
<1>4. part \in Seq(Byte) /\ Len(part) \in Nat
  <2>1. part \in Seq(Byte)
    BY <1>3, ObjectIs
  <2> QED
    BY <2>1, LenProperties
<1>5. Flat(objects) = (flat \o part) \o back
  <2>1. First(objects, Len(objects)) = objects
    BY SubSeqFull DEF First
  <2>2. Flat(First(objects, Len(objects))) = (flat \o part) \o back
    BY OneObjectLess
  <2> QED
    BY <2>1, <2>2
<1>6. back \in Seq(Byte)
  BY DEF Leaves
<1> HIDE DEF flat, part, before, o
<1>7. front \in Seq(Byte) /\ Len(front) = 7 + Len(flat)
  <2>1. front = head \o flat /\ flat \in Seq(Byte)
    BY <1>2
  <2>2. Joins(head, flat, front)
    BY DEF Joins
  <2> HIDE DEF front
  <2>3. Behind(head, flat, front)
    BY <2>1, <2>2, BehindHead
  <2> QED
    BY <2>3 DEF Behind
<1>8. pdu = (front \o part) \o back
  <2>1. head \o ((flat \o part) \o back) = (front \o part) \o back
    <3>1. flat \in Seq(Byte) /\ part \in Seq(Byte) /\ back \in Seq(Byte)
      BY <1>2, <1>4, <1>6
    <3>2. Regroups(head, flat, part, back)
      BY <3>1, FourParts
    <3> QED
      BY <3>2 DEF Regroups
  <2> QED
    BY <1>5, <2>1 DEF Joins
<1>9. at \in Nat /\ at = Len(front) + 1
  BY <1>2, <1>7
<1>10. ComesNext(before, o)
  <2>1. CASE k = 0
    <3>1. before = <<>>
      BY <1>3, <2>1, EmptySeq
    <3> QED
      BY <3>1 DEF ComesNext
  <2>2. CASE k >= 1
    <3>1. k + 1 \in 2..Len(objects) /\ (k + 1) - 1 = k
      BY <1>1, <2>2
    <3>2. objects[k][1] < objects[k + 1][1]
      BY <3>1 DEF Ascend
    <3>3. before[Len(before)] = objects[k]
      BY <1>3, <2>2
    <3>4. objects[k] \in IdentityObjects /\ objects[k + 1] \in IdentityObjects
      <4>1. k \in 1..Len(objects) /\ k + 1 \in 1..Len(objects)
        BY <1>1, <2>2, <3>1
      <4> QED
        BY <4>1, ElementOfSeq
    <3>5. objects[k][1] \in Byte /\ objects[k + 1][1] \in Byte
      BY <3>4 DEF IdentityObjects
    <3> QED
      BY <3>2, <3>3, <3>5 DEF o, ComesNext
  <2> QED
    BY <2>1, <2>2
<1> HIDE DEF front, at
<1>11. Modbus!Object([ok |-> TRUE, index |-> at, objects |-> before], pdu) =
         [ok |-> TRUE, index |-> at + Len(part), objects |-> Append(before, o)]
  <2>1. pdu = (front \o Modbus!ObjectBytes(o)) \o back
    BY <1>8 DEF part
  <2>2. Modbus!Object([ok |-> TRUE, index |-> at, objects |-> before], pdu) =
          [ok |-> TRUE, index |-> at + Len(Modbus!ObjectBytes(o)), objects |-> Append(before, o)]
    <3>1. Stands(front, o, back, pdu, at, before)
      BY <1>3, <1>6, <1>7, <1>9, <1>10, <2>1 DEF Stands
    <3>2. ReadsOneMore(o, pdu, at, before)
      BY <3>1, ObjectReadBack
    <3> QED
      BY <3>2 DEF ReadsOneMore
  <2> QED
    BY <2>2 DEF part
<1>12. at + Len(part) = 8 + Len(flat \o part)
  <2>1. Len(flat \o part) = Len(flat) + Len(part)
    BY <1>2, <1>4, ConcatProperties
  <2> QED
    BY <1>2, <1>4, <2>1 DEF at
<1>13. ReadFirst(objects, k) = [ok |-> TRUE, index |-> at, objects |-> before]
  BY DEF ReadFirst, at, before, flat
<1>14. ReadFirst(objects, k + 1) =
         [ok |-> TRUE, index |-> at + Len(part), objects |-> Append(before, o)]
  BY <1>3, <1>12 DEF ReadFirst
<1> QED
  BY <1>11, <1>13, <1>14

ReadsBackWhole(objects, head, pdu) ==
  /\ pdu \in Seq(Byte) /\ Len(pdu) = 7 + Len(Flat(objects))
  /\ \A i \in 1..7 : pdu[i] = head[i]
  /\ Modbus!Objects(pdu) = [ok |-> TRUE, index |-> Len(pdu) + 1, objects |-> objects]

LEMMA ReadsBack ==
  ASSUME NEW objects \in Seq(IdentityObjects), Len(objects) \in 1..3, Ascend(objects),
         NEW head \in Seq(Byte), Len(head) = 7, head[7] = Len(objects),
         NEW pdu, Joins(head, Flat(objects), pdu)
  PROVE  ReadsBackWhole(objects, head, pdu)
<1> DEFINE last == Len(objects)
<1>1. last \in Nat /\ last \in 1..3 /\ last \in 0..last
  BY LenProperties
<1>2. First(objects, last) = objects
  BY SubSeqFull DEF First
<1>3. Flat(objects) \in Seq(Byte) /\ Len(Flat(objects)) \in Nat
  <2>1. Flat(objects) \in Seq(Byte)
    BY <1>1, <1>2, FlatIsBytes
  <2> QED
    BY <2>1, LenProperties
<1> DEFINE flat == Flat(objects)
<1>4. flat \in Seq(Byte) /\ Len(flat) \in Nat /\ Joins(head, flat, pdu)
  BY <1>3
<1> HIDE DEF flat
<1>5. pdu \in Seq(Byte) /\ Len(pdu) = 7 + Len(flat) /\ \A i \in 1..7 : pdu[i] = head[i]
  <2>1. Behind(head, flat, pdu)
    BY <1>4, BehindHead
  <2> QED
    BY <2>1 DEF Behind
<1> HIDE DEF last
<1>6. pdu[7] = last
  <2>1. 7 \in 1..7
    OBVIOUS
  <2> QED
    BY <1>5, <2>1 DEF last
<1>7. Leaves(objects, last, <<>>)
  <2>1. Flat(First(objects, last)) \o <<>> = Flat(First(objects, last)) /\ <<>> \in Seq(Byte)
    BY <1>2, <1>3, ConcatEmptySeq, EmptySeq
  <2> QED
    BY <2>1 DEF Leaves, last
<1>8. ASSUME NEW k \in Nat, k < last, NEW back, Leaves(objects, k + 1, back)
      PROVE  /\ \E more : Leaves(objects, k, more)
             /\ Modbus!Object(ReadFirst(objects, k), pdu) = ReadFirst(objects, k + 1)
  <2>1. k < Len(objects)
    BY <1>8 DEF last
  <2>2. Leaves(objects, k, Modbus!ObjectBytes(objects[k + 1]) \o back)
    BY <1>8, <2>1, OneObjectLess
  <2>3. Modbus!Object(ReadFirst(objects, k), pdu) = ReadFirst(objects, k + 1)
    BY <1>8, <2>1, ReadsBackOneMore
  <2> QED
    BY <2>2, <2>3
<1> DEFINE Left(k) == \E back : Leaves(objects, k, back)
<1>9. ASSUME NEW k \in Nat, k < last, Left(k + 1)
      PROVE  Left(k) /\ Modbus!Object(ReadFirst(objects, k), pdu) = ReadFirst(objects, k + 1)
  BY <1>8, <1>9
<1>10. Left(last)
  BY <1>7
<1> HIDE DEF Left
<1>11. last = 1 \/ last = 2 \/ last = 3
  BY <1>1
<1>12. last = 3 => Left(2) /\ Modbus!Object(ReadFirst(objects, 2), pdu) = ReadFirst(objects, 3)
  <2>1. 2 \in Nat /\ 2 + 1 = 3 /\ 2 < 3
    OBVIOUS
  <2>2. last = 3 => Left(2 + 1) /\ 2 < last
    BY <1>10
  <2> QED
    BY <1>9, <2>1, <2>2
<1>13. last >= 2 => Left(1) /\ Modbus!Object(ReadFirst(objects, 1), pdu) = ReadFirst(objects, 2)
  <2>1. 1 \in Nat /\ 1 + 1 = 2
    OBVIOUS
  <2>2. last >= 2 => Left(1 + 1) /\ 1 < last
    BY <1>10, <1>11, <1>12
  <2> QED
    BY <1>9, <2>1, <2>2
<1>14. Modbus!Object(ReadFirst(objects, 0), pdu) = ReadFirst(objects, 1)
  <2>1. 0 \in Nat /\ 0 + 1 = 1
    OBVIOUS
  <2>2. Left(0 + 1) /\ 0 < last
    BY <1>10, <1>11, <1>13
  <2> QED
    BY <1>9, <2>1, <2>2
<1>15. ReadFirst(objects, 0) = ReadNone
  <2>1. First(objects, 0) = <<>>
    BY SubSeqEmpty DEF First
  <2>2. Len(<<>>) = 0 /\ 8 + 0 = 8
    OBVIOUS
  <2> QED
    BY <2>1, <2>2, FlatNone DEF ReadFirst, ReadNone
<1>16. /\ ReadOne(pdu) = ReadFirst(objects, 1)
       /\ last >= 2 => ReadTwo(pdu) = ReadFirst(objects, 2)
       /\ last = 3 => ReadThree(pdu) = ReadFirst(objects, 3)
  BY <1>11, <1>12, <1>13, <1>14, <1>15 DEF ReadOne, ReadTwo, ReadThree
<1>17. Modbus!Objects(pdu) = ReadFirst(objects, last)
  <2>1. /\ last = 1 => Modbus!Objects(pdu) = ReadOne(pdu)
        /\ last = 2 => Modbus!Objects(pdu) = ReadTwo(pdu)
        /\ last = 3 => Modbus!Objects(pdu) = ReadThree(pdu)
    BY <1>6, ObjectsAre
  <2>2. CASE last = 1
    BY <1>16, <2>1, <2>2
  <2>3. CASE last = 2
    BY <1>16, <2>1, <2>3
  <2>4. CASE last = 3
    BY <1>16, <2>1, <2>4
  <2> QED
    BY <1>11, <2>2, <2>3, <2>4
<1>18. 8 + Len(flat) = Len(pdu) + 1
  BY <1>4, <1>5
<1>19. ReadFirst(objects, last) = [ok |-> TRUE, index |-> Len(pdu) + 1, objects |-> objects]
  BY <1>2, <1>18 DEF ReadFirst, flat
<1> QED
  BY <1>5, <1>17, <1>19 DEF flat, ReadsBackWhole

(* An identity a device may send: within the length of a Modbus message,   *)
(* the vendor first, and a continuation that makes sense.                  *)
Sendable(identity) ==
  /\ identity = [level |-> identity.level, more |-> identity.more, next |-> identity.next,
                 objects |-> identity.objects]
  /\ identity.level \in {1, 2, 3, 129, 130, 131}
  /\ identity.more \in BOOLEAN /\ identity.next \in Byte
  /\ identity.objects \in Seq(IdentityObjects) /\ Len(identity.objects) \in 1..3
  /\ Ascend(identity.objects) /\ identity.objects[1][1] = 0
  /\ ~identity.more => identity.next = 0
  /\ identity.more => identity.objects[Len(identity.objects)][1] < identity.next
  /\ Len(Flat(identity.objects)) <= 246

LEMMA FlatAreBytes ==
  ASSUME NEW objects \in Seq(IdentityObjects)
  PROVE  Flat(objects) \in Seq(Byte)
<1>1. Len(objects) \in 0..Len(objects)
  BY LenProperties
<1>2. First(objects, Len(objects)) = objects
  BY SubSeqFull DEF First
<1> QED
  BY <1>1, <1>2, FlatIsBytes

(* What the answer says behind its header.                                 *)
IdentityHead(identity) ==
  <<43, 14, 1, identity.level, IF identity.more THEN 255 ELSE 0, identity.next,
    Len(identity.objects)>>
IdentityPdu(identity) == IdentityHead(identity) \o Flat(identity.objects)
Message(id, size, unit, pdu) == Modbus!Header(id, size, unit) \o pdu

ReadBack(identity, pdu) ==
  /\ pdu \in Seq(Byte) /\ Len(pdu) = 7 + Len(Flat(identity.objects))
  /\ pdu[1] = 43 /\ Modbus!Identity(pdu) = identity

LEMMA IdentityReadBack ==
  ASSUME NEW identity, Sendable(identity), NEW pdu, pdu = IdentityPdu(identity)
  PROVE  ReadBack(identity, pdu)
<1> DEFINE head == IdentityHead(identity)
           objects == identity.objects
           last == Len(objects)
           level == identity.level
           more == IF identity.more THEN 255 ELSE 0
           next == identity.next
<1>1. /\ level \in Byte /\ more \in Byte /\ next \in Byte /\ last \in Byte
      /\ 43 \in Byte /\ 14 \in Byte /\ 1 \in Byte
  BY DEF Sendable, Byte
<1>2. head = <<43, 14, 1, level, more, next, last>>
  BY DEF IdentityHead
<1>3. objects \in Seq(IdentityObjects) /\ last \in 1..3 /\ Ascend(objects)
  BY DEF Sendable
<1> HIDE DEF head, level, more, next, last
<1>4. /\ head \in Seq(Byte) /\ Len(head) = 7 /\ head[1] = 43 /\ head[2] = 14 /\ head[3] = 1
      /\ head[4] = level /\ head[5] = more /\ head[6] = next /\ head[7] = last
  BY <1>1, <1>2, SevenBytes
<1>5. /\ pdu \in Seq(Byte) /\ Len(pdu) = 7 + Len(Flat(objects))
      /\ \A i \in 1..7 : pdu[i] = head[i]
      /\ Modbus!Objects(pdu) = [ok |-> TRUE, index |-> Len(pdu) + 1, objects |-> objects]
  <2>1. Joins(head, Flat(objects), pdu)
    BY DEF Joins, IdentityPdu, head
  <2>2. Len(objects) \in 1..3 /\ head[7] = Len(objects)
    BY <1>3, <1>4 DEF last
  <2>3. ReadsBackWhole(objects, head, pdu)
    <3>1. objects \in Seq(IdentityObjects) /\ Ascend(objects) /\ head \in Seq(Byte) /\ Len(head) = 7
      BY <1>3, <1>4
    <3> HIDE DEF objects
    <3> QED
      BY <2>1, <2>2, <3>1, ReadsBack
  <2> QED
    BY <2>3 DEF ReadsBackWhole
<1>6. /\ pdu[1] = 43 /\ pdu[2] = 14 /\ pdu[3] = 1 /\ pdu[4] = level /\ pdu[5] = more
      /\ pdu[6] = next /\ pdu[7] = last
  <2>1. 1 \in 1..7 /\ 2 \in 1..7 /\ 3 \in 1..7 /\ 4 \in 1..7 /\ 5 \in 1..7 /\ 6 \in 1..7
        /\ 7 \in 1..7
    OBVIOUS
  <2> QED
    BY <1>4, <1>5, <2>1
<1>7. Len(pdu) >= 7
  <2>1. Len(Flat(objects)) \in Nat
    <3>2. Flat(objects) \in Seq(Byte)
      BY <1>3, FlatAreBytes
    <3> QED
      BY <3>2, LenProperties
  <2> QED
    BY <1>5, <2>1
<1> DEFINE read == Modbus!Objects(pdu)
<1>8. read.ok /\ read.index = Len(pdu) + 1 /\ read.objects = objects
  BY <1>5
<1> HIDE DEF read
<1>9. level \in {1, 2, 3, 129, 130, 131}
  BY DEF Sendable, level
<1>10. more \in {0, 255} /\ (more = 255) = identity.more
  BY DEF Sendable, more
<1>11. objects[1][1] = 0 /\ (more = 0 => next = 0)
  <2>1. objects[1][1] = 0 /\ (~identity.more => next = 0)
    BY DEF Sendable, next
  <2>2. more = 0 => ~identity.more
    BY DEF more
  <2> QED
    BY <2>1, <2>2
<1>12. more = 255 => ~(next <= objects[last][1])
  <2>1. SUFFICES ASSUME identity.more PROVE ~(next <= objects[last][1])
    BY <1>10
  <2> DEFINE number == objects[last][1]
  <2>2. number < next
    BY <2>1 DEF Sendable, next, last
  <2>5. next \in Byte
    BY <1>1
  <2>3. number \in Byte
    <3>1. objects[last] \in IdentityObjects
      <4>1. last \in 1..Len(objects)
        <5>1. last \in Nat /\ last >= 1
          BY <1>3
        <5>2. last \in 1..last
          BY <5>1
        <5> QED
          BY <5>2 DEF last
      <4> HIDE DEF objects
      <4> QED
        BY <1>3, <4>1, ElementOfSeq
    <3> QED
      BY <3>1 DEF IdentityObjects
  <2> HIDE DEF number
  <2>4. ~(next <= number)
    BY <2>2, <2>3, <2>5, Above
  <2> QED
    BY <2>4 DEF number
<1>13. Modbus!Identity(pdu) = [level |-> level, more |-> more = 255, next |-> next,
                               objects |-> objects]
  BY <1>3, <1>6, <1>7, <1>8, <1>9, <1>10, <1>11, <1>12
  DEF Modbus!Identity, Modbus!Last, read, last
<1>14. identity = [level |-> level, more |-> identity.more, next |-> next, objects |-> objects]
  BY DEF Sendable, level, next
<1>15. Modbus!Identity(pdu) = identity
  BY <1>10, <1>13, <1>14
<1> QED
  BY <1>5, <1>6, <1>15 DEF ReadBack

(* A header for a length, and what is read of it.                          *)
Sizes == 3..254

Carries(id, size, unit, pdu, bytes) ==
  /\ bytes \in Seq(Byte) /\ Len(bytes) = 6 + size
  /\ Modbus!Word(bytes, 1) = id /\ Modbus!Word(bytes, 3) = 0
  /\ Modbus!Word(bytes, 5) = size /\ bytes[7] = unit
  /\ Payload(bytes) = pdu

LEMMA HeaderIs ==
  ASSUME NEW id \in Nat, id \div 256 \in Byte, NEW unit \in Byte, NEW size \in Sizes,
         NEW pdu \in Seq(Byte), Len(pdu) + 1 = size,
         NEW bytes, bytes = Message(id, size, unit, pdu)
  PROVE  Carries(id, size, unit, pdu, bytes)
<1> DEFINE head == Modbus!Header(id, size, unit)
           high == id \div 256
           low == id % 256
<1>1. /\ high \in Byte /\ low \in Byte /\ id = 256 * high + low /\ 0 \in Byte /\ unit \in Byte
      /\ size \div 256 = 0 /\ size % 256 = size /\ size \in Byte
  BY DEF Byte, Sizes
<1>2. head = <<high, low, 0, 0, 0, size, unit>>
  BY <1>1 DEF Modbus!Header
<1> HIDE DEF head, high, low
<1>3. /\ head \in Seq(Byte) /\ Len(head) = 7 /\ head[1] = high /\ head[2] = low /\ head[3] = 0
      /\ head[4] = 0 /\ head[5] = 0 /\ head[6] = size /\ head[7] = unit
  BY <1>1, <1>2, SevenBytes
<1> DEFINE len == Len(pdu)
<1>4. len \in Nat /\ len + 1 = size
  BY LenProperties
<1>5. Joins(head, pdu, bytes)
  BY DEF Joins, Message, head
<1>6. Behind(head, pdu, bytes)
  BY <1>3, <1>5, BehindHead
<1> HIDE DEF len
<1>7. /\ bytes \in Seq(Byte) /\ Len(bytes) = 7 + len /\ \A i \in 1..7 : bytes[i] = head[i]
      /\ \A i \in 1..len : bytes[7 + i] = pdu[i]
  BY <1>6 DEF Behind, len
<1>9. /\ bytes[1] = high /\ bytes[2] = low /\ bytes[3] = 0 /\ bytes[4] = 0 /\ bytes[5] = 0
      /\ bytes[6] = size /\ bytes[7] = unit
  <2>3. 1 \in 1..7 /\ 2 \in 1..7 /\ 3 \in 1..7 /\ 4 \in 1..7 /\ 5 \in 1..7 /\ 6 \in 1..7
        /\ 7 \in 1..7
    OBVIOUS
  <2> QED
    BY <1>3, <1>7, <2>3
<1>10. Payload(bytes) = pdu
  <2> DEFINE n == 7 + len
             part == SubSeq(bytes, 7 + 1, n)
  <2>1. 7 \in 0..n /\ n \in 7..n /\ n - 7 = len /\ 7 + 1 = 8 /\ n = Len(bytes)
    BY <1>4, <1>7
  <2>2. 7 \in 0..Len(bytes) /\ n \in 7..Len(bytes)
    BY <2>1
  <2> HIDE DEF n
  <2>3. part \in Seq(Byte) /\ Len(part) = n - 7 /\ \A i \in 1..(n - 7) : part[i] = bytes[7 + i]
    BY <1>7, <2>2, Part
  <2>4. ASSUME NEW i \in 1..len
        PROVE  part[i] = pdu[i]
    <3>1. part[i] = bytes[7 + i]
      BY <2>1, <2>3
    <3> QED
      BY <1>7, <3>1
  <2>5. Len(part) = len /\ Len(pdu) = len
    BY <2>1, <2>3 DEF len
  <2> HIDE DEF part
  <2>6. part = pdu
    BY <2>3, <2>4, <2>5, SeqEqual
  <2> QED
    BY <2>1, <2>6 DEF part, Payload
<1>11. /\ Modbus!Word(bytes, 1) = 256 * bytes[1] + bytes[2]
       /\ Modbus!Word(bytes, 3) = 256 * bytes[3] + bytes[4]
       /\ Modbus!Word(bytes, 5) = 256 * bytes[5] + bytes[6]
  <2>1. 1 + 1 = 2 /\ 3 + 1 = 4 /\ 5 + 1 = 6
    OBVIOUS
  <2> QED
    BY <2>1 DEF Modbus!Word
<1>12. Modbus!Word(bytes, 1) = id /\ Modbus!Word(bytes, 3) = 0 /\ Modbus!Word(bytes, 5) = size
  <2>1. Modbus!Word(bytes, 1) = 256 * high + low
    BY <1>9, <1>11
  <2>2. Modbus!Word(bytes, 3) = 256 * 0 + 0
    BY <1>9, <1>11
  <2>3. Modbus!Word(bytes, 5) = 256 * 0 + size
    BY <1>9, <1>11
  <2>4. size \in Nat
    BY DEF Sizes
  <2>5. 256 * 0 + 0 = 0 /\ 256 * 0 + size = size
    BY <2>4
  <2> QED
    BY <1>1, <2>1, <2>2, <2>3, <2>5
<1>13. Len(bytes) = 6 + size
  BY <1>4, <1>7
<1> QED
  BY <1>7, <1>9, <1>10, <1>12, <1>13 DEF Carries

(* A whole message is probed as it is parsed.                              *)
ParsedAs(pdu) ==
  IF pdu[1] # 171 THEN Modbus!Identity(pdu)
  ELSE IF Len(pdu) = 2 /\ pdu[2] \in Modbus!ValidExceptions THEN [exception |-> pdu[2]]
  ELSE Failed

Probes(bytes, ended, id, unit, result) == Modbus!Probe(bytes, ended, id, unit).parsed = result

LEMMA WholeProbe ==
  ASSUME NEW id \in Nat, id \div 256 \in Byte, NEW unit \in Byte, NEW size \in Sizes,
         NEW pdu \in Seq(Byte), Len(pdu) + 1 = size, NEW ended,
         NEW bytes, bytes = Message(id, size, unit, pdu)
  PROVE  Probes(bytes, ended, id, unit, ParsedAs(pdu))
<1>0. Carries(id, size, unit, pdu, bytes)
  BY HeaderIs
<1>1. /\ bytes \in Seq(Byte) /\ Len(bytes) = 6 + size
      /\ Modbus!Word(bytes, 1) = id /\ Modbus!Word(bytes, 3) = 0
      /\ Modbus!Word(bytes, 5) = size /\ bytes[7] = unit
      /\ Payload(bytes) = pdu
  BY <1>0 DEF Carries
<1>2. SubSeq(bytes, 1, Len(bytes)) = bytes
  BY <1>1, SubSeqFull
<1>3. ~(6 + size < 9) /\ ~(6 + size < 7) /\ ~(6 + size < 6 + size) /\ ~(size \notin 3..254)
  BY DEF Sizes
<1> DEFINE parsed == Modbus!DeviceId(bytes, id, unit)
<1>4. parsed = ParsedAs(pdu)
  <2>1. ~(\/ Len(bytes) < 9
          \/ Modbus!Word(bytes, 1) # id \/ Modbus!Word(bytes, 3) # 0 \/ bytes[7] # unit
          \/ Modbus!Word(bytes, 5) \notin 3..254
          \/ Len(bytes) # 6 + Modbus!Word(bytes, 5))
    BY <1>1, <1>3
  <2> QED
    BY <1>1, <2>1 DEF Modbus!DeviceId, ParsedAs, Payload
<1> HIDE DEF parsed
<1>5. Modbus!Probe(bytes, ended, id, unit).parsed = parsed
  <2>1. SubSeq(bytes, 1, 6 + Modbus!Word(bytes, 5)) = bytes
    BY <1>1, <1>2
  <2>2. /\ ~(Len(bytes) < 7) /\ ~(Modbus!Word(bytes, 5) \notin 3..254)
        /\ ~(Len(bytes) < 6 + Modbus!Word(bytes, 5))
    BY <1>1, <1>3
  <2> QED
    BY <2>1, <2>2 DEF Modbus!Probe, parsed
<1> QED
  BY <1>4, <1>5 DEF Probes

(* An answer in bytes: not empty, and short enough to be read.             *)
IdentityIsMessage(identity, id, unit) ==
  LET pdu == IdentityPdu(identity)
  IN  /\ pdu \in Seq(Byte) /\ pdu[1] = 43 /\ Modbus!Identity(pdu) = identity
      /\ Len(pdu) + 1 \in Sizes
      /\ Modbus!Answer(identity, id, unit) = Message(id, Len(pdu) + 1, unit, pdu)

LEMMA IdentitiesAreMessages ==
  ASSUME NEW identity, Sendable(identity), NEW id, NEW unit
  PROVE  IdentityIsMessage(identity, id, unit)
<1> DEFINE pdu == IdentityPdu(identity)
           flat == Flat(identity.objects)
<1>1. Modbus!Answer(identity, id, unit) = Message(id, Len(pdu) + 1, unit, pdu)
  BY DEF Modbus!Answer, Flat, Bytes, Message, IdentityPdu, IdentityHead
<1>2. flat \in Seq(Byte) /\ Len(flat) <= 246
  BY FlatAreBytes DEF Sendable
<1> HIDE DEF pdu
<1>3. ReadBack(identity, pdu)
  BY IdentityReadBack DEF pdu
<1>4. pdu \in Seq(Byte) /\ Len(pdu) = 7 + Len(flat) /\ pdu[1] = 43 /\ Modbus!Identity(pdu) = identity
  BY <1>3 DEF ReadBack
<1> HIDE DEF flat
<1>5. Len(pdu) + 1 \in Sizes
  <2> DEFINE f == Len(flat)
             p == Len(pdu)
  <2>1. f \in Nat /\ f <= 246 /\ p = 7 + f
    BY <1>2, <1>4, LenProperties
  <2> HIDE DEF f, p
  <2>2. p + 1 \in Sizes
    BY <2>1 DEF Sizes
  <2> QED
    BY <2>2 DEF p
<1> QED
  BY <1>1, <1>4, <1>5 DEF pdu, IdentityIsMessage

(* What a device sends whole is read as it was meant                       *)
(* (modbus_discovery.py:205).                                              *)
THEOREM IdentitiesAreRead ==
  ASSUME NEW identity, Sendable(identity), NEW id \in Nat, id \div 256 \in Byte,
         NEW unit \in Byte, NEW ended
  PROVE  Modbus!Probe(Modbus!Answer(identity, id, unit), ended, id, unit).parsed = identity
<1> DEFINE pdu == IdentityPdu(identity)
           size == Len(pdu) + 1
           bytes == Modbus!Answer(identity, id, unit)
<1>1. /\ pdu \in Seq(Byte) /\ pdu[1] = 43 /\ Modbus!Identity(pdu) = identity
      /\ size \in Sizes /\ bytes = Message(id, size, unit, pdu)
  BY IdentitiesAreMessages DEF IdentityIsMessage
<1>2. size = Len(pdu) + 1
  OBVIOUS
<1> HIDE DEF pdu, size, bytes
<1>3. Probes(bytes, ended, id, unit, ParsedAs(pdu))
  BY <1>1, <1>2, WholeProbe
<1>4. ParsedAs(pdu) = identity
  BY <1>1 DEF ParsedAs
<1> QED
  BY <1>3, <1>4 DEF Probes, bytes

(* And it is some bytes.                                                   *)
LEMMA MessagesAreBytes ==
  ASSUME NEW id \in Nat, id \div 256 \in Byte, NEW unit \in Byte, NEW size \in Sizes,
         NEW pdu \in Seq(Byte), Len(pdu) + 1 = size,
         NEW bytes, bytes = Message(id, size, unit, pdu)
  PROVE  bytes \in Seq(Byte) /\ bytes # <<>>
<1>1. Carries(id, size, unit, pdu, bytes)
  BY HeaderIs
<1>2. bytes \in Seq(Byte) /\ Len(bytes) = 6 + size
  BY <1>1 DEF Carries
<1>3. Len(<<>>) = 0 /\ 6 + size # 0
  BY DEF Sizes
<1> QED
  BY <1>2, <1>3

LEMMA AnswerIsBytes ==
  ASSUME NEW identity, Sendable(identity), NEW id \in Nat, id \div 256 \in Byte,
         NEW unit \in Byte
  PROVE  Modbus!Answer(identity, id, unit) \in Seq(Byte) /\ Modbus!Answer(identity, id, unit) # <<>>
<1> DEFINE pdu == IdentityPdu(identity)
           size == Len(pdu) + 1
           bytes == Modbus!Answer(identity, id, unit)
<1>1. pdu \in Seq(Byte) /\ size \in Sizes /\ bytes = Message(id, size, unit, pdu)
  BY IdentitiesAreMessages DEF IdentityIsMessage
<1>2. size = Len(pdu) + 1
  OBVIOUS
<1> HIDE DEF pdu, size, bytes
<1>3. bytes \in Seq(Byte) /\ bytes # <<>>
  BY <1>1, <1>2, MessagesAreBytes
<1> QED
  BY <1>3 DEF bytes

LEMMA ExceptionsAreRead ==
  ASSUME NEW code \in Modbus!ValidExceptions, NEW id \in Nat, id \div 256 \in Byte,
         NEW unit \in Byte, NEW ended
  PROVE  /\ Modbus!Exception(code, id, unit) \in Seq(Byte)
         /\ Modbus!Exception(code, id, unit) # <<>>
         /\ Modbus!Probe(Modbus!Exception(code, id, unit), ended, id, unit).parsed =
              [exception |-> code]
<1> DEFINE pdu == <<171, code>>
           bytes == Modbus!Exception(code, id, unit)
<1>1. code \in Byte /\ 171 \in Byte
  BY DEF Modbus!ValidExceptions, Byte
<1>2. pdu \in Seq(Byte) /\ Len(pdu) = 2 /\ pdu[1] = 171 /\ pdu[2] = code
  BY <1>1
<1>3. 3 \in Sizes /\ Len(pdu) + 1 = 3
  BY <1>2 DEF Sizes
<1>4. bytes = Message(id, 3, unit, pdu)
  BY DEF Modbus!Exception, Message
<1> DEFINE size == 3
<1>8. size \in Sizes /\ Len(pdu) + 1 = size /\ bytes = Message(id, size, unit, pdu)
  BY <1>3, <1>4
<1> HIDE DEF pdu, bytes, size
<1>5. Probes(bytes, ended, id, unit, ParsedAs(pdu))
  BY <1>2, <1>8, WholeProbe
<1>6. bytes \in Seq(Byte) /\ bytes # <<>>
  BY <1>2, <1>8, MessagesAreBytes
<1>7. ParsedAs(pdu) = [exception |-> code]
  BY <1>2 DEF ParsedAs
<1> QED
  BY <1>5, <1>6, <1>7 DEF bytes, Probes

(* The objects of MCDecoders: numbered from zero, with short texts.        *)
Described(objects) ==
  /\ objects \in Seq((0..2) \X Texts) /\ Len(objects) \in 1..3
  /\ \A i \in DOMAIN objects : objects[i][1] = i - 1

LEMMA TextsAre == \A text \in Texts : text \in Seq(Byte) /\ Len(text) \in Nat /\ Len(text) <= 2
<1>1. <<>> \in Seq(Byte) /\ Len(<<>>) = 0
  BY EmptySeq
<1>2. 65 \in Byte /\ 0 \in Byte /\ 32 \in Byte
  BY DEF Byte
<1>3. /\ <<65>> \in Seq(Byte) /\ Len(<<65>>) = 1 /\ <<32>> \in Seq(Byte) /\ Len(<<32>>) = 1
      /\ <<65, 0>> \in Seq(Byte) /\ Len(<<65, 0>>) = 2
  BY <1>2
<1>4. \A text \in Texts : text = <<>> \/ text = <<65>> \/ text = <<65, 0>> \/ text = <<32>>
  BY DEF Texts
<1> SUFFICES ASSUME NEW text \in Texts
             PROVE  text \in Seq(Byte) /\ Len(text) \in Nat /\ Len(text) <= 2
  OBVIOUS
<1>5. CASE text = <<>>
  BY <1>1, <1>5
<1>6. CASE text = <<65>>
  BY <1>3, <1>6
<1>7. CASE text = <<65, 0>>
  BY <1>3, <1>7
<1>8. CASE text = <<32>>
  BY <1>3, <1>8
<1> QED
  BY <1>4, <1>5, <1>6, <1>7, <1>8

LEMMA DescribedAre ==
  ASSUME NEW objects, Described(objects)
  PROVE  /\ objects \in Seq(IdentityObjects) /\ DOMAIN objects = 1..Len(objects)
         /\ \A i \in 1..Len(objects) : objects[i][1] = i - 1 /\ Len(objects[i][2]) <= 2
<1> DEFINE S == (0..2) \X Texts
<1>1. objects \in Seq(S)
  BY DEF Described
<1>2. ASSUME NEW o \in S
      PROVE  o \in IdentityObjects /\ Len(o[2]) <= 2
  <2>1. PICK number \in 0..2, text \in Texts : o = <<number, text>>
    OBVIOUS
  <2>2. text \in Seq(Byte) /\ Len(text) \in Nat /\ Len(text) <= 2
    BY TextsAre
  <2> DEFINE size == Len(text)
  <2>5. size \in Nat /\ size <= 2
    BY <2>2
  <2> HIDE DEF size
  <2>3. number \in Byte /\ size \in Byte
    BY <2>5 DEF Byte
  <2>4. o[2] = text
    BY <2>1
  <2> QED
    BY <2>1, <2>2, <2>3, <2>4 DEF IdentityObjects, size
<1>3. S \subseteq IdentityObjects
  BY <1>2
<1> HIDE DEF S
<1>4. objects \in Seq(IdentityObjects)
  BY <1>1, <1>3, WiderSeq
<1>5. DOMAIN objects = 1..Len(objects) /\ \A i \in 1..Len(objects) : objects[i] \in S
  BY <1>1, LenProperties, ElementOfSeq
<1> QED
  BY <1>2, <1>4, <1>5 DEF Described

LEMMA DescribedAreShort ==
  ASSUME NEW objects, Described(objects)
  PROVE  Len(Flat(objects)) <= 12
<1>1. objects \in Seq(IdentityObjects) /\ \A i \in 1..Len(objects) : Len(objects[i][2]) <= 2
  BY DescribedAre
<1>2. Len(objects) \in 1..3
  BY DEF Described
<1> DEFINE last == Len(objects)
           S == {n \in Nat : n <= last => /\ Flat(First(objects, n)) \in Seq(Byte)
                                          /\ Len(Flat(First(objects, n))) <= 4 * n}
<1>3. 0 \in S
  <2>1. First(objects, 0) = <<>>
    BY SubSeqEmpty DEF First
  <2>2. <<>> \in Seq(Byte) /\ Len(<<>>) = 0
    BY EmptySeq
  <2>3. Flat(First(objects, 0)) = <<>> /\ 0 <= 4 * 0
    BY <2>1, FlatNone
  <2> QED
    BY <2>2, <2>3
<1>4. ASSUME NEW n \in Nat, n \in S
      PROVE  n + 1 \in S
  <2> DEFINE flat == Flat(First(objects, n))
             part == Modbus!ObjectBytes(objects[n + 1])
             more == Flat(First(objects, n + 1))
             m == 4 * (n + 1)
  <2>1. SUFFICES ASSUME n + 1 <= last
                 PROVE  more \in Seq(Byte) /\ Len(more) <= m
    OBVIOUS
  <2>2. n < Len(objects) /\ n <= last /\ n + 1 \in 1..Len(objects)
    BY <1>2, <2>1
  <2>3. flat \in Seq(Byte) /\ Len(flat) <= 4 * n
    BY <1>4, <2>2
  <2>4. objects[n + 1] \in IdentityObjects /\ more = flat \o part
    BY <1>1, <2>2, FirstAre
  <2> DEFINE size == Len(objects[n + 1][2])
  <2>5. part \in Seq(Byte) /\ Len(part) = size + 2
    BY <2>4, ObjectIs
  <2>6. size <= 2 /\ size \in Nat
    <3>1. size \in Byte
      BY <2>4 DEF IdentityObjects
    <3> QED
      BY <1>1, <2>2, <3>1 DEF Byte
  <2> HIDE DEF flat, part, more, size
  <2>7. more \in Seq(Byte) /\ Len(more) = Len(flat) + Len(part) /\ Len(flat) \in Nat
    BY <2>3, <2>4, <2>5, ConcatProperties, LenProperties
  <2>8. Len(more) <= m
    BY <2>3, <2>5, <2>6, <2>7
  <2> QED
    BY <2>7, <2>8
<1> HIDE DEF S
<1>5. Nat \subseteq S
  BY <1>3, <1>4, Induction
<1>6. last \in Nat /\ last <= last /\ 4 * last <= 12
  <2>1. last \in 1..3
    BY <1>2
  <2> HIDE DEF last
  <2> QED
    BY <2>1
<1>7. Flat(First(objects, last)) \in Seq(Byte) /\ Len(Flat(First(objects, last))) <= 4 * last
  BY <1>5, <1>6 DEF S
<1>8. First(objects, last) = objects
  BY <1>1, SubSeqFull DEF First
<1> DEFINE k == Len(Flat(objects))
<1>9. k \in Nat /\ k <= 4 * last
  BY <1>7, <1>8, LenProperties
<1> HIDE DEF last, k
<1>10. k <= 12
  BY <1>6, <1>9
<1> QED
  BY <1>10 DEF k

LEMMA DescribedIsSendable ==
  ASSUME NEW objects, Described(objects), NEW more \in BOOLEAN
  PROVE  Sendable(IdentityOf(objects, more))
<1> DEFINE identity == IdentityOf(objects, more)
           last == Len(objects)
           next == IF more THEN last ELSE 0
<1>1. identity = [level |-> 1, more |-> more, next |-> next, objects |-> objects]
  BY DEF IdentityOf
<1> HIDE DEF identity
<1>2. /\ identity.level = 1 /\ identity.more = more /\ identity.next = next
      /\ identity.objects = objects
      /\ identity = [level |-> identity.level, more |-> identity.more, next |-> identity.next,
                     objects |-> identity.objects]
  BY <1>1
<1>3. /\ objects \in Seq(IdentityObjects) /\ \A i \in 1..last : objects[i][1] = i - 1
      /\ last \in 1..3
  BY DescribedAre DEF Described
<1> HIDE DEF last
<1>4. Ascend(objects)
  <2>1. ASSUME NEW i \in 2..last
        PROVE  objects[i - 1][1] < objects[i][1]
    <3>1. i \in 1..last /\ i - 1 \in 1..last /\ (i - 1) - 1 < i - 1
      BY <1>3
    <3> QED
      BY <1>3, <3>1
  <2> QED
    BY <2>1 DEF Ascend, last
<1>5. objects[1][1] = 0 /\ objects[last][1] = last - 1
  <2>1. 1 \in 1..last /\ last \in 1..last /\ 1 - 1 = 0
    BY <1>3
  <2> QED
    BY <1>3, <2>1
<1>6. next \in Byte /\ (~more => next = 0) /\ (more => last - 1 < next)
  BY <1>3 DEF Byte
<1>7. Len(Flat(objects)) <= 246
  <2> DEFINE k == Len(Flat(objects))
  <2>1. k <= 12 /\ k \in Nat
    BY <1>3, DescribedAreShort, FlatAreBytes, LenProperties
  <2> HIDE DEF k
  <2>2. k <= 246
    BY <2>1
  <2> QED
    BY <2>2 DEF k
<1> HIDE DEF next
<1>8. Sendable(identity)
  BY <1>2, <1>3, <1>4, <1>5, <1>6, <1>7 DEF Sendable, last
<1> QED
  BY <1>8 DEF identity

LEMMA ProbedAs ==
  /\ ProbeId \in Nat /\ ProbeId \div 256 \in Byte /\ ProbeUnit \in Byte
BY DEF ProbeId, ProbeUnit, Byte

(* What an undamaged answer is.                                            *)
Meant(objects, bytes, answer) ==
  \/ bytes = <<>> /\ answer = Failed
  \/ \E more \in BOOLEAN :
       /\ answer = IdentityOf(objects, more)
       /\ bytes = Modbus!Answer(answer, ProbeId, ProbeUnit)
  \/ \E code \in {1, 11} :
       /\ answer = [exception |-> code]
       /\ bytes = Modbus!Exception(code, ProbeId, ProbeUnit)

Device(state) ==
  /\ state = [objects |-> state.objects, bytes |-> state.bytes, damaged |-> state.damaged,
              answer |-> state.answer]
  /\ Described(state.objects) /\ state.bytes \in Seq(Byte) /\ state.damaged \in BOOLEAN
  /\ ~state.damaged => Meant(state.objects, state.bytes, state.answer)

LEMMA DevicesAre == DevicesKnown <=> (subject = "device" => Device(input))
BY DEF DevicesKnown, Device, Described, Meant, Byte

LEMMA DevicesBegin == Init => DevicesKnown
<1> SUFFICES ASSUME Init, subject = "device"
             PROVE  Device(input)
  BY DevicesAre
<1>1. PICK text \in Texts :
        input = [objects |-> <<<<0, text>>>>, bytes |-> <<>>, damaged |-> FALSE, answer |-> Failed]
  BY DEF Init, CanInit, AnswerInit, PidsInit, MarksInit, StreamInit, TrafficInit, CompareInit,
         DeviceInit, ScopesInit
<1> DEFINE o == <<0, text>>
           objects == <<o>>
<1>2. o \in (0..2) \X Texts /\ o[1] = 0
  OBVIOUS
<1> HIDE DEF o
<1>3. objects \in Seq((0..2) \X Texts) /\ Len(objects) = 1 /\ objects[1] = o /\ DOMAIN objects = 1..1
  BY <1>2
<1>4. input = [objects |-> objects, bytes |-> <<>>, damaged |-> FALSE, answer |-> Failed]
  BY <1>1 DEF o
<1> HIDE DEF objects
<1>5. Described(objects)
  <2>1. \A i \in 1..1 : i = 1 /\ i - 1 = 0
    OBVIOUS
  <2> QED
    BY <1>2, <1>3, <2>1 DEF Described
<1>6. <<>> \in Seq(Byte)
  BY EmptySeq
<1> QED
  BY <1>4, <1>5, <1>6 DEF Device, Meant

(* Before an answer there is none.                                         *)
LEMMA NothingIsMeant ==
  ASSUME NEW objects, Described(objects), NEW answer, Meant(objects, <<>>, answer)
  PROVE  answer = Failed
<1>1. ASSUME NEW more \in BOOLEAN
      PROVE  Modbus!Answer(IdentityOf(objects, more), ProbeId, ProbeUnit) # <<>>
  BY DescribedIsSendable, ProbedAs, AnswerIsBytes
<1>2. ASSUME NEW code \in {1, 11}
      PROVE  Modbus!Exception(code, ProbeId, ProbeUnit) # <<>>
  <2>1. code \in Modbus!ValidExceptions
    BY DEF Modbus!ValidExceptions
  <2> QED
    BY <2>1, ProbedAs, ExceptionsAreRead
<1> QED
  BY <1>1, <1>2 DEF Meant

LEMMA DescribeStep ==
  ASSUME Device(input), NEW text \in Texts, Describe(text)
  PROVE  Device(input')
<1> DEFINE objects == input.objects
           o == <<Len(objects), text>>
           more == Append(objects, o)
<1>1. /\ input = [objects |-> objects, bytes |-> input.bytes, damaged |-> input.damaged,
                  answer |-> input.answer]
      /\ Described(objects) /\ input.bytes \in Seq(Byte) /\ input.damaged \in BOOLEAN
      /\ ~input.damaged => Meant(objects, input.bytes, input.answer)
  BY DEF Device
<1>2. /\ input.bytes = <<>> /\ Len(objects) < 3
      /\ input' = [input EXCEPT !.objects = more]
  BY DEF Describe
<1> HIDE DEF objects
<1>3. Len(objects) \in 0..2 /\ objects \in Seq((0..2) \X Texts) /\ Len(objects) \in Nat
  <2>1. Len(objects) \in 1..3 /\ objects \in Seq((0..2) \X Texts)
    BY <1>1 DEF Described
  <2> QED
    BY <1>2, <2>1
<1>4. o \in (0..2) \X Texts /\ o[1] = Len(objects)
  BY <1>3
<1> DEFINE S == (0..2) \X Texts
           last == Len(objects)
<1>5. /\ objects \in Seq(S) /\ o \in S /\ last \in Nat /\ last <= 2 /\ o[1] = last
      /\ \A i \in 1..last : objects[i][1] = i - 1
  <2>1. DOMAIN objects = 1..last
    BY <1>3, LenProperties
  <2> QED
    BY <1>1, <1>3, <1>4, <2>1 DEF Described
<1> HIDE DEF o, S, last
<1>6. /\ more \in Seq(S) /\ Len(more) = last + 1 /\ more[last + 1] = o
      /\ \A i \in 1..last : more[i] = objects[i]
  BY <1>5, AppendProperties DEF last
<1> HIDE DEF more
<1>7. Described(more)
  <2>1. DOMAIN more = 1..(last + 1)
    BY <1>6, LenProperties
  <2>2. ASSUME NEW i \in 1..(last + 1)
        PROVE  more[i][1] = i - 1
    <3>1. CASE i = last + 1
      <4>1. (last + 1) - 1 = last
        BY <1>5
      <4> QED
        BY <1>5, <1>6, <3>1, <4>1
    <3>2. CASE i \in 1..last
      BY <1>5, <1>6, <3>2
    <3> QED
      BY <1>5, <3>1, <3>2
  <2>3. last + 1 \in 1..3
    BY <1>5
  <2> QED
    BY <1>6, <2>1, <2>2, <2>3 DEF Described, S
<1>8. input' = [objects |-> more, bytes |-> <<>>, damaged |-> input.damaged,
                answer |-> input.answer]
  BY <1>1, <1>2
<1>9. ~input.damaged => Meant(more, <<>>, input.answer)
  BY <1>1, <1>2, NothingIsMeant DEF Meant
<1> DEFINE next == [objects |-> more, bytes |-> <<>>, damaged |-> input.damaged,
                    answer |-> input.answer]
<1>10. Device(next)
  <2>1. <<>> \in Seq(Byte)
    BY EmptySeq
  <2> QED
    BY <1>1, <1>7, <1>9, <2>1 DEF Device
<1> QED
  BY <1>8, <1>10

LEMMA ReplyStep ==
  ASSUME Device(input), NEW more \in BOOLEAN, Reply(more)
  PROVE  Device(input')
<1> DEFINE objects == input.objects
           identity == IdentityOf(objects, more)
           bytes == Modbus!Answer(identity, ProbeId, ProbeUnit)
           next == [objects |-> objects, bytes |-> bytes, damaged |-> input.damaged,
                    answer |-> identity]
<1>1. /\ input = [objects |-> objects, bytes |-> input.bytes, damaged |-> input.damaged,
                  answer |-> input.answer]
      /\ Described(objects) /\ input.damaged \in BOOLEAN
  BY DEF Device
<1>2. input' = [input EXCEPT !.bytes = bytes, !.answer = identity] /\ objects = input.objects
  BY DEF Reply
<1>3. bytes \in Seq(Byte)
  BY <1>1, DescribedIsSendable, ProbedAs, AnswerIsBytes
<1>4. Meant(objects, bytes, identity)
  BY DEF Meant
<1> HIDE DEF objects, identity, bytes
<1>5. input' = next
  BY <1>1, <1>2
<1>6. Device(next)
  BY <1>1, <1>3, <1>4 DEF Device
<1> QED
  BY <1>5, <1>6

LEMMA ReplyExceptionStep ==
  ASSUME Device(input), NEW code \in {1, 11}, ReplyException(code)
  PROVE  Device(input')
<1> DEFINE objects == input.objects
           bytes == Modbus!Exception(code, ProbeId, ProbeUnit)
           answer == [exception |-> code]
           next == [objects |-> objects, bytes |-> bytes, damaged |-> input.damaged,
                    answer |-> answer]
<1>1. /\ input = [objects |-> objects, bytes |-> input.bytes, damaged |-> input.damaged,
                  answer |-> input.answer]
      /\ Described(objects) /\ input.damaged \in BOOLEAN
  BY DEF Device
<1>2. input' = [input EXCEPT !.bytes = bytes, !.answer = answer] /\ objects = input.objects
  BY DEF ReplyException
<1>3. bytes \in Seq(Byte)
  <2>1. code \in Modbus!ValidExceptions
    BY DEF Modbus!ValidExceptions
  <2> QED
    BY <2>1, ProbedAs, ExceptionsAreRead
<1>4. Meant(objects, bytes, answer)
  BY DEF Meant
<1> HIDE DEF objects, answer, bytes
<1>5. input' = next
  BY <1>1, <1>2
<1>6. Device(next)
  BY <1>1, <1>3, <1>4 DEF Device
<1> QED
  BY <1>5, <1>6

LEMMA DamagedAreBytes ==
  ASSUME NEW bytes \in Seq(Byte), NEW i \in 1..Len(bytes)
  PROVE  /\ \A b \in Byte : ReplaceAt(bytes, i, b) \in Seq(Byte)
         /\ RemoveAt(bytes, i) \in Seq(Byte)
         /\ SubSeq(bytes, 1, i - 1) \in Seq(Byte)
         /\ SubSeq(bytes, 1, i) \o SubSeq(bytes, i, Len(bytes)) \in Seq(Byte)
<1> DEFINE len == Len(bytes)
<1>1. len \in Nat
  BY LenProperties
<1>2. i \in 1..(Len(bytes) + 1) /\ i + 1 \in 1..(Len(bytes) + 1) /\ (i + 1) - 1 = i
  BY <1>1
<1>3. SubSeq(bytes, 1, i - 1) \in Seq(Byte)
  BY <1>2, StartOf
<1>4. SubSeq(bytes, i, Len(bytes)) \in Seq(Byte)
  BY <1>2, EndOf
<1>5. SubSeq(bytes, i + 1, Len(bytes)) \in Seq(Byte)
  BY <1>2, EndOf
<1>6. SubSeq(bytes, 1, i) \in Seq(Byte)
  <2>1. SubSeq(bytes, 1, (i + 1) - 1) \in Seq(Byte)
    BY <1>2, StartOf
  <2> QED
    BY <1>2, <2>1
<1>7. \A b \in Byte : ReplaceAt(bytes, i, b) \in Seq(Byte)
  BY ExceptSeq DEF ReplaceAt
<1> QED
  BY <1>3, <1>4, <1>5, <1>6, <1>7, ConcatProperties DEF RemoveAt

LEMMA GarbleStep ==
  ASSUME Device(input), NEW i \in DOMAIN input.bytes, Garble(i)
  PROVE  Device(input')
<1> DEFINE old == input.bytes
<1>1. /\ input = [objects |-> input.objects, bytes |-> old, damaged |-> input.damaged,
                  answer |-> input.answer]
      /\ Described(input.objects) /\ old \in Seq(Byte)
  BY DEF Device
<1>2. PICK bytes \in {ReplaceAt(old, i, b) : b \in {0, 1, 2, 4, 129, 255}}
                     \cup {RemoveAt(old, i), SubSeq(old, 1, i - 1),
                           SubSeq(old, 1, i) \o SubSeq(old, i, Len(old))} :
        input' = [input EXCEPT !.bytes = bytes, !.damaged = TRUE]
  BY DEF Garble
<1>3. i \in 1..Len(old)
  BY <1>1, LenProperties
<1> HIDE DEF old
<1>4. /\ \A b \in Byte : ReplaceAt(old, i, b) \in Seq(Byte)
      /\ RemoveAt(old, i) \in Seq(Byte) /\ SubSeq(old, 1, i - 1) \in Seq(Byte)
      /\ SubSeq(old, 1, i) \o SubSeq(old, i, Len(old)) \in Seq(Byte)
  BY <1>1, <1>3, DamagedAreBytes
<1>5. bytes \in Seq(Byte)
  <2> DEFINE Flips == {0, 1, 2, 4, 129, 255}
  <2>1. \A b \in Flips : b \in Byte
    BY DEF Byte
  <2>2. \/ \E b \in Flips : bytes = ReplaceAt(old, i, b)
        \/ bytes = RemoveAt(old, i) \/ bytes = SubSeq(old, 1, i - 1)
        \/ bytes = SubSeq(old, 1, i) \o SubSeq(old, i, Len(old))
    BY Zenon
  <2> HIDE DEF Flips
  <2> QED
    BY <1>4, <2>1, <2>2
<1> DEFINE next == [objects |-> input.objects, bytes |-> bytes, damaged |-> TRUE,
                    answer |-> input.answer]
<1>6. input' = next
  BY <1>1, <1>2
<1>7. Device(next)
  BY <1>1, <1>5 DEF Device
<1> QED
  BY <1>6, <1>7

LEMMA DevicesNext ==
  ASSUME DevicesKnown, [Next]_vars
  PROVE  DevicesKnown'
<1>1. CASE Next /\ subject = "device"
  <2>1. ~AnswerNext
    BY <1>1 DEF AnswerNext
  <2>2. /\ \A pid : ~Support(pid)
        /\ \A f, pause : ~See(f, pause)
        /\ \A which, key : ~SeeIn(which, key)
        /\ ~Renumber
    BY <1>1 DEF Support, See, SeeIn, Renumber
  <2>3. /\ \A char : ~ReceiveChar(char)
        /\ ~ReadNext
    BY <1>1 DEF ReceiveChar, ReadNext
  <2>4. /\ \A n, overflow, stop : ~Deliver(n, overflow, stop)
        /\ \A ended : ~DeliverNothing(ended)
    BY <1>1 DEF Deliver, DeliverNothing, Streaming
  <2>5. Device(input)
    BY <1>1, DevicesAre
  <2>6. \/ \E text \in Texts : Describe(text)
        \/ \E more \in BOOLEAN : Reply(more)
        \/ \E code \in {1, 11} : ReplyException(code)
        \/ \E i \in DOMAIN input.bytes : Garble(i)
    BY <1>1, <2>1, <2>2, <2>3, <2>4 DEF Next
  <2>7. Device(input')
    BY <2>5, <2>6, DescribeStep, ReplyStep, ReplyExceptionStep, GarbleStep
  <2>8. DevicesKnown' <=> (subject' = "device" => Device(input'))
    BY DEF DevicesKnown, Device, Described, Meant, Byte
  <2> QED
    BY <2>7, <2>8
<1>2. CASE Next /\ subject # "device"
  <2>1. subject' = subject
    BY <1>2, SubjectStays
  <2> QED
    BY <1>2, <2>1 DEF DevicesKnown
<1>3. CASE UNCHANGED vars
  BY <1>3 DEF vars, DevicesKnown
<1> QED
  BY <1>1, <1>2, <1>3

LEMMA KnownIsTheirs == DevicesKnown => IdentitiesAreTheirs
<1> DEFINE probe == Modbus!Probe(input.bytes, "eof", ProbeId, ProbeUnit)
<1> SUFFICES ASSUME DevicesKnown, subject = "device", input.answer # Failed
             PROVE  /\ ~input.damaged => probe.parsed = input.answer
                    /\ ConfirmedIsSaid(input.bytes, probe, ProbeId, ProbeUnit)
  BY DEF IdentitiesAreTheirs, ConfirmedIsSaid
<1>1. Device(input)
  BY DevicesAre
<1>2. ConfirmedIsSaid(input.bytes, probe, ProbeId, ProbeUnit)
  BY <1>1, ConfirmedAnswersAreSaid DEF Device
<1>3. ASSUME ~input.damaged
      PROVE  probe.parsed = input.answer
  <2>1. Described(input.objects) /\ Meant(input.objects, input.bytes, input.answer)
    BY <1>1, <1>3 DEF Device
  <2>2. CASE \E more \in BOOLEAN :
               /\ input.answer = IdentityOf(input.objects, more)
               /\ input.bytes = Modbus!Answer(input.answer, ProbeId, ProbeUnit)
    BY <2>1, <2>2, DescribedIsSendable, ProbedAs, IdentitiesAreRead
  <2>3. CASE \E code \in {1, 11} :
               /\ input.answer = [exception |-> code]
               /\ input.bytes = Modbus!Exception(code, ProbeId, ProbeUnit)
    <3>1. PICK code \in {1, 11} :
               /\ input.answer = [exception |-> code]
               /\ input.bytes = Modbus!Exception(code, ProbeId, ProbeUnit)
      BY <2>3
    <3>2. code \in Modbus!ValidExceptions
      BY DEF Modbus!ValidExceptions
    <3> QED
      BY <3>1, <3>2, ProbedAs, ExceptionsAreRead
  <2> QED
    BY <2>1, <2>2, <2>3 DEF Meant
<1> QED
  BY <1>2, <1>3

--------------------------------------------------------------------------------
(* Where discovery may ask: networks by their size, a power of two.        *)

LEMMA RemainderIs ==
  ASSUME NEW a \in Nat, NEW d \in Nat, d >= 1
  PROVE  /\ a % d \in Nat /\ a % d < d /\ a \div d \in Nat
         /\ a = d * (a \div d) + (a % d)
OBVIOUS

LEMMA ProductIs ==
  ASSUME NEW a \in Int, NEW b \in Int, a >= 0, b >= 0
  PROVE  a * b >= 0
OBVIOUS

LEMMA FurtherOn ==
  ASSUME NEW d \in Nat, NEW i \in Int, NEW j \in Int, i > j
  PROVE  d * i >= d * j + d
<1>1. (i - j - 1) * d >= 0
  BY ProductIs
<1>2. (i - j - 1) * d = d * i - d * j - d
  OBVIOUS
<1> QED
  BY <1>1, <1>2

LEMMA NotBeyond ==
  ASSUME NEW d \in Nat, NEW i \in Int, NEW j \in Int, NEW r \in Nat, NEW t \in Nat, r < d, t < d,
         d * i + r = d * j + t
  PROVE  ~(i > j)
<1> SUFFICES ASSUME i > j PROVE FALSE
  OBVIOUS
<1> DEFINE x == d * i
           y == d * j
<1>1. x \in Int /\ y \in Int /\ x >= y + d /\ x + r = y + t
  BY FurtherOn
<1> HIDE DEF x, y
<1> QED
  BY <1>1

Divides(a, d, i, r) == a = d * i + r /\ r < d

LEMMA SameRemainder ==
  ASSUME NEW a, NEW d \in Nat, NEW i \in Int, NEW j \in Int, NEW r \in Nat, NEW t \in Nat,
         Divides(a, d, i, r), Divides(a, d, j, t)
  PROVE  r = t
<1>0. r < d /\ t < d /\ d * i + r = d * j + t
  BY DEF Divides
<1>1. ~(i > j) /\ ~(j > i)
  BY <1>0, NotBeyond
<1>2. i = j
  BY <1>1
<1> DEFINE x == d * i
<1>3. x \in Int /\ x + r = x + t
  BY <1>0, <1>2
<1> HIDE DEF x
<1> QED
  BY <1>3

LEMMA TwiceAsWide ==
  ASSUME NEW a \in Nat, NEW s \in Nat, s >= 1
  PROVE  a % (2 * s) = a % s \/ a % (2 * s) = (a % s) + s
<1> DEFINE k == a \div s
           r == a % s
           d == 2 * s
           u == a % d
           q == a \div d
           j == k \div 2
<1>1. k \in Nat /\ r \in Nat /\ r < s /\ a = s * k + r
  BY RemainderIs
<1>2. d \in Nat /\ d >= 1
  OBVIOUS
<1>3. q \in Nat /\ u \in Nat /\ u < d /\ a = d * q + u
  BY <1>2, RemainderIs
<1> HIDE DEF k, r, u, q
<1>4. j \in Nat /\ (k = 2 * j \/ k = 2 * j + 1)
  BY <1>1
<1> HIDE DEF j
<1>5. s * (2 * j) = d * j /\ s * (2 * j + 1) = d * j + s
  BY <1>4
<1>6. CASE k = 2 * j
  <2>1. Divides(a, d, j, r) /\ Divides(a, d, q, u)
    BY <1>1, <1>3, <1>5, <1>6 DEF Divides
  <2>3. d \in Nat /\ j \in Int /\ q \in Int /\ r \in Nat /\ u \in Nat
    BY <1>1, <1>2, <1>3, <1>4
  <2> HIDE DEF d
  <2>2. r = u
    BY <2>1, <2>3, SameRemainder
  <2> QED
    BY <2>2 DEF r, u, d
<1>7. CASE k = 2 * j + 1
  <2> DEFINE t == s + r
  <2>1. Divides(a, d, j, t) /\ Divides(a, d, q, u)
    BY <1>1, <1>3, <1>4, <1>5, <1>7 DEF Divides
  <2>4. d \in Nat /\ j \in Int /\ q \in Int /\ t \in Nat /\ u \in Nat
    BY <1>1, <1>2, <1>3, <1>4
  <2> HIDE DEF d, t
  <2>2. t = u
    BY <2>1, <2>4, SameRemainder
  <2>3. u = r + s
    BY <2>2, <1>1 DEF t
  <2> QED
    BY <2>3 DEF r, u, d
<1> QED
  BY <1>4, <1>6, <1>7

Doubles(p, last) == p = [n \in 0..last |-> IF n = 0 THEN 1 ELSE 2 * p[n - 1]]

LEMMA DoublesExist ==
  ASSUME NEW last \in Nat
  PROVE  \E p : Doubles(p, last)
<1> DEFINE S == {n \in Nat : \E p : Doubles(p, n)}
<1>1. 0 \in S
  <2> DEFINE p == [n \in 0..0 |-> 1]
  <2>1. \A n \in 0..0 : n = 0
    OBVIOUS
  <2>2. p = [n \in 0..0 |-> IF n = 0 THEN 1 ELSE 2 * p[n - 1]]
    BY <2>1
  <2>3. Doubles(p, 0)
    BY <2>2 DEF Doubles
  <2> QED
    BY <2>3
<1>2. ASSUME NEW m \in Nat, m \in S
      PROVE  m + 1 \in S
  <2>1. PICK p : Doubles(p, m)
    BY <1>2
  <2> DEFINE h == [n \in 0..(m + 1) |-> IF n <= m THEN p[n] ELSE 2 * p[m]]
  <2>2. ASSUME NEW n \in 0..(m + 1)
        PROVE  h[n] = IF n = 0 THEN 1 ELSE 2 * h[n - 1]
    <3>1. CASE n <= m
      <4>1. n \in 0..m /\ (n # 0 => n - 1 \in 0..(m + 1) /\ n - 1 <= m)
        BY <3>1
      <4>2. h[n] = p[n] /\ (n # 0 => h[n - 1] = p[n - 1])
        BY <3>1, <4>1
      <4>3. p[n] = IF n = 0 THEN 1 ELSE 2 * p[n - 1]
        BY <2>1, <4>1 DEF Doubles
      <4> QED
        BY <4>2, <4>3
    <3>2. CASE n = m + 1
      <4>1. ~(n <= m) /\ n - 1 = m /\ n # 0 /\ m \in 0..(m + 1) /\ m <= m
        BY <3>2
      <4>2. h[n] = 2 * p[m] /\ h[n - 1] = p[m]
        BY <4>1
      <4> QED
        BY <4>1, <4>2
    <3> QED
      BY <3>1, <3>2
  <2>3. DOMAIN h = 0..(m + 1) /\ h = [n \in DOMAIN h |-> h[n]]
    OBVIOUS
  <2> HIDE DEF h
  <2>4. Doubles(h, m + 1)
    BY <2>2, <2>3 DEF Doubles
  <2> QED
    BY <2>4
<1> HIDE DEF S
<1>3. Nat \subseteq S
  BY <1>1, <1>2, Induction
<1> QED
  BY <1>3 DEF S

LEMMA DoublesGrow ==
  ASSUME NEW last \in Nat, NEW p, Doubles(p, last)
  PROVE  /\ \A n \in 0..last : p[n] \in Nat /\ p[n] >= 1
         /\ \A n \in 0..last : n # 0 => p[n] = 2 * p[n - 1]
         /\ p[0] = 1
<1>1. \A n \in 0..last : p[n] = IF n = 0 THEN 1 ELSE 2 * p[n - 1]
  BY DEF Doubles
<1>2. p[0] = 1
  BY <1>1
<1> DEFINE S == {n \in Nat : n <= last => p[n] \in Nat /\ p[n] >= 1}
<1>3. 0 \in S
  BY <1>2
<1>4. ASSUME NEW m \in Nat, m \in S
      PROVE  m + 1 \in S
  <2>1. SUFFICES ASSUME m + 1 <= last
                 PROVE  p[m + 1] \in Nat /\ p[m + 1] >= 1
    OBVIOUS
  <2>2. m <= last /\ m + 1 \in 0..last /\ m + 1 # 0 /\ (m + 1) - 1 = m
    BY <2>1
  <2>3. p[m + 1] = 2 * p[m]
    BY <1>1, <2>2
  <2>4. p[m] \in Nat /\ p[m] >= 1
    BY <1>4, <2>2
  <2> QED
    BY <2>3, <2>4
<1> HIDE DEF S
<1>5. Nat \subseteq S
  BY <1>3, <1>4, Induction
<1>6. ASSUME NEW n \in 0..last
      PROVE  p[n] \in Nat /\ p[n] >= 1
  <2>1. n \in Nat /\ n <= last
    OBVIOUS
  <2> QED
    BY <1>5, <2>1 DEF S
<1> QED
  BY <1>1, <1>2, <1>6

(* How many addresses a network has.                                       *)
Sized(q) ==
  /\ Modbus!Size(q) \in Nat /\ Modbus!Size(q) >= 1
  /\ q = AddressWidth => Modbus!Size(q) = 1
  /\ q < AddressWidth => Modbus!Size(q) = 2 * Modbus!Size(q + 1)

LEMMA SizeIs ==
  ASSUME NEW q \in 0..AddressWidth
  PROVE  Sized(q)
<1> DEFINE W == AddressWidth
           p == CHOOSE g : Doubles(g, W)
<1>1. W \in Nat
  BY WidthAssumption
<1>2. \A x : Modbus!Size(x) = p[W - x]
  BY DEF Modbus!Size, Doubles
<1>3. Doubles(p, W)
  BY <1>1, DoublesExist
<1> HIDE DEF p
<1>4. /\ \A n \in 0..W : p[n] \in Nat /\ p[n] >= 1
      /\ \A n \in 0..W : n # 0 => p[n] = 2 * p[n - 1]
      /\ p[0] = 1
  BY <1>1, <1>3, DoublesGrow
<1>5. W - q \in 0..W /\ (q = W => W - q = 0)
  BY <1>1
<1>6. q < W => W - q # 0 /\ (W - q) - 1 = W - (q + 1)
  BY <1>1
<1>7. Modbus!Size(q) \in Nat /\ Modbus!Size(q) >= 1
  BY <1>2, <1>4, <1>5
<1>8. q = W => Modbus!Size(q) = 1
  BY <1>2, <1>4, <1>5
<1>9. q < W => Modbus!Size(q) = 2 * Modbus!Size(q + 1)
  BY <1>2, <1>4, <1>5, <1>6
<1> QED
  BY <1>7, <1>8, <1>9 DEF Sized

(* A longer prefix is a network inside that of a shorter one.              *)
LEMMA AddressInIts ==
  ASSUME NEW a \in Nat, NEW q \in 0..AddressWidth
  PROVE  a \in Modbus!AddressesOf(Modbus!NetworkOf(a, q))
<1> DEFINE s == Modbus!Size(q)
           r == a % s
<1>1. s \in Nat /\ s >= 1
  BY SizeIs DEF Sized
<1> HIDE DEF s
<1>2. r \in Nat /\ r < s
  BY <1>1, RemainderIs
<1> HIDE DEF r
<1>3. a \in (a - r)..((a - r) + s - 1)
  BY <1>1, <1>2
<1> QED
  BY <1>3 DEF Modbus!AddressesOf, Modbus!NetworkOf, s, r

LEMMA OneBitWider ==
  ASSUME NEW a \in Nat, NEW q \in 0..AddressWidth, q < AddressWidth
  PROVE  Modbus!Within(Modbus!NetworkOf(a, q + 1), Modbus!NetworkOf(a, q))
<1> DEFINE s == Modbus!Size(q + 1)
           d == Modbus!Size(q)
           r == a % s
           u == a % d
<1>1. q + 1 \in 0..AddressWidth
  BY WidthAssumption
<1>2. s \in Nat /\ s >= 1
  BY <1>1, SizeIs DEF Sized
<1>3. d = 2 * s
  BY SizeIs DEF Sized
<1> HIDE DEF s
<1>4. r \in Nat /\ r < s
  BY <1>2, RemainderIs
<1>5. u = r \/ u = r + s
  BY <1>2, <1>3, TwiceAsWide
<1> HIDE DEF d, r, u
<1>6. (a - r)..((a - r) + s - 1) \subseteq (a - u)..((a - u) + d - 1)
  BY <1>2, <1>3, <1>4, <1>5
<1>7. Modbus!AddressesOf(Modbus!NetworkOf(a, q + 1)) = (a - r)..((a - r) + s - 1)
  BY DEF Modbus!AddressesOf, Modbus!NetworkOf, s, r
<1>8. Modbus!AddressesOf(Modbus!NetworkOf(a, q)) = (a - u)..((a - u) + d - 1)
  BY DEF Modbus!AddressesOf, Modbus!NetworkOf, d, u
<1> QED
  BY <1>6, <1>7, <1>8 DEF Modbus!Within

LEMMA LongerIsWithin ==
  ASSUME NEW a \in Nat, NEW p \in 0..AddressWidth, NEW q \in p..AddressWidth
  PROVE  Modbus!Within(Modbus!NetworkOf(a, q), Modbus!NetworkOf(a, p))
<1> DEFINE S == {n \in Nat : p + n <= AddressWidth =>
                   Modbus!Within(Modbus!NetworkOf(a, p + n), Modbus!NetworkOf(a, p))}
<1>1. 0 \in S
  <2>1. Modbus!Within(Modbus!NetworkOf(a, p), Modbus!NetworkOf(a, p)) /\ p + 0 = p
    BY DEF Modbus!Within
  <2> QED
    BY <2>1
<1>2. ASSUME NEW n \in Nat, n \in S
      PROVE  n + 1 \in S
  <2> DEFINE m == p + n
  <2>1. SUFFICES ASSUME p + (n + 1) <= AddressWidth
                 PROVE  Modbus!Within(Modbus!NetworkOf(a, p + (n + 1)), Modbus!NetworkOf(a, p))
    OBVIOUS
  <2>2. m \in 0..AddressWidth /\ m < AddressWidth /\ m <= AddressWidth /\ p + (n + 1) = m + 1
    BY <2>1, WidthAssumption
  <2>3. Modbus!Within(Modbus!NetworkOf(a, m), Modbus!NetworkOf(a, p))
    BY <1>2, <2>2
  <2> HIDE DEF m
  <2>4. Modbus!Within(Modbus!NetworkOf(a, m + 1), Modbus!NetworkOf(a, m))
    BY <2>2, OneBitWider
  <2>5. Modbus!Within(Modbus!NetworkOf(a, m + 1), Modbus!NetworkOf(a, p))
    BY <2>3, <2>4 DEF Modbus!Within
  <2> QED
    BY <2>2, <2>5
<1> HIDE DEF S
<1>3. Nat \subseteq S
  BY <1>1, <1>2, Induction
<1>4. q - p \in Nat /\ p + (q - p) = q /\ q <= AddressWidth
  BY WidthAssumption
<1>5. q - p \in S
  BY <1>3, <1>4
<1> QED
  BY <1>4, <1>5 DEF S

LEMMA FewestIs ==
  ASSUME NEW T \in SUBSET Nat, T # {}
  PROVE  Modbus!Min(T) \in T /\ \A m \in T : Modbus!Min(T) <= m
<1>1. \E n \in T : \A m \in T : n <= m
  BY Least
<1> QED
  BY <1>1 DEF Modbus!Min

LEMMA FourAddresses ==
  ASSUME NEW q \in 0..AddressWidth, q = AddressWidth - 2
  PROVE  Modbus!UsableHosts(q) = 2
<1> DEFINE W == AddressWidth
<1>1. /\ W \in Nat /\ q + 1 \in 0..W /\ (q + 1) + 1 = W /\ W \in 0..W /\ q < W /\ q + 1 < W
      /\ ~(q >= W - 1)
  BY WidthAssumption
<1> HIDE DEF W
<1>2. Modbus!Size(W) = 1
  BY <1>1, SizeIs DEF Sized, W
<1>3. Modbus!Size(q + 1) = 2 * Modbus!Size((q + 1) + 1)
  BY <1>1, SizeIs DEF Sized, W
<1>4. Modbus!Size(q) = 2 * Modbus!Size(q + 1)
  BY <1>1, SizeIs DEF Sized, W
<1>5. Modbus!Size(q) = 4
  BY <1>1, <1>2, <1>3, <1>4
<1> DEFINE T == {4 - 2, 0}
<1>6. Modbus!UsableHosts(q) = Modbus!Max(T)
  BY <1>1, <1>5 DEF Modbus!UsableHosts, W
<1>7. Modbus!Max(T) = 2
  <2>1. \E x \in T : \A y \in T : x >= y
    OBVIOUS
  <2>2. Modbus!Max(T) \in T /\ \A y \in T : Modbus!Max(T) >= y
    BY <2>1 DEF Modbus!Max
  <2> QED
    BY <2>2
<1> QED
  BY <1>6, <1>7

(* The scope offered around an address, in any network an interface may    *)
(* have and under any cap that allows two hosts: it holds the address, is  *)
(* accepted when it is asked for, and one bit more is refused              *)
(* (modbus_discovery.py:448, 497).                                         *)
OffersScope(address, prefix, maxHosts) ==
  LET connected == Modbus!NetworkOf(address, prefix)
      scope == Modbus!BoundedScope(address, prefix, maxHosts)
      wider == Modbus!NetworkOf(address, scope.prefix - 1)
  IN  /\ address \in Modbus!AddressesOf(scope)
      /\ Modbus!Scannable(scope, {connected}, maxHosts)
      /\ scope # connected => ~Modbus!Scannable(wider, {connected}, maxHosts)

(* Whatever the network an interface is in, discovery may ask in what it   *)
(* offers (modbus_discovery.py:443, 479).                                  *)
THEOREM ScopesAreOffered ==
  ASSUME NEW address \in Nat, NEW prefix \in 0..(AddressWidth - 2), NEW maxHosts \in Nat,
         maxHosts >= 2
  PROVE  OffersScope(address, prefix, maxHosts)
<1> DEFINE W == AddressWidth
           T == {q \in prefix..W : Modbus!UsableHosts(q) <= maxHosts}
           p == Modbus!Min(T)
           connected == Modbus!NetworkOf(address, prefix)
           scope == Modbus!BoundedScope(address, prefix, maxHosts)
<1>1. /\ W \in Nat /\ prefix \in 0..W /\ W - 2 \in 0..W /\ W - 2 \in prefix..W
      /\ prefix..W \subseteq Nat
  BY WidthAssumption
<1>2. Modbus!UsableHosts(W - 2) = 2
  BY <1>1, FourAddresses
<1>3. W - 2 \in T /\ T \in SUBSET Nat /\ T # {}
  BY <1>1, <1>2
<1>4. p \in T /\ \A m \in T : p <= m
  <2> HIDE DEF T
  <2> QED
    BY <1>3, FewestIs
<1>5. scope = Modbus!NetworkOf(address, p)
  BY DEF Modbus!BoundedScope
<1> HIDE DEF p
<1>6. p \in prefix..W /\ Modbus!UsableHosts(p) <= maxHosts /\ p <= W - 2
  BY <1>3, <1>4
<1>7. \A q \in prefix..W : q < p => ~(Modbus!UsableHosts(q) <= maxHosts)
  <2>1. ASSUME NEW q \in prefix..W, q < p
        PROVE  q \notin T
    <3>1. ~(p <= q)
      BY <1>1, <1>6, <2>1
    <3> QED
      BY <1>4, <3>1
  <2> QED
    BY <2>1
<1> HIDE DEF T
<1>8. p \in 0..W /\ p < W - 1 /\ p \in Nat
  BY <1>1, <1>6
<1>9. /\ Modbus!NetworkOf(address, p).prefix = p
      /\ Modbus!NetworkOf(address, p - 1).prefix = p - 1
  BY DEF Modbus!NetworkOf
<1>10. address \in Modbus!AddressesOf(scope)
  BY <1>5, <1>8, AddressInIts
<1>11. Modbus!Within(scope, connected)
  <2>1. Modbus!Within(Modbus!NetworkOf(address, p), Modbus!NetworkOf(address, prefix))
    BY <1>1, <1>6, LongerIsWithin
  <2> QED
    BY <1>5, <2>1
<1> DEFINE wider == Modbus!NetworkOf(address, scope.prefix - 1)
<1>12. scope.prefix = p
  BY <1>5, <1>9
<1>13. wider = Modbus!NetworkOf(address, p - 1) /\ wider.prefix = p - 1
  BY <1>9, <1>12
<1>14. scope # connected => p # prefix
  BY <1>5
<1> HIDE DEF scope, connected, wider
<1>15. Modbus!Scannable(scope, {connected}, maxHosts)
  BY <1>6, <1>8, <1>11, <1>12 DEF Modbus!Scannable
<1>16. ASSUME scope # connected
       PROVE  ~Modbus!Scannable(wider, {connected}, maxHosts)
  <2>1. p - 1 \in prefix..W /\ p - 1 < p
    BY <1>1, <1>6, <1>14, <1>16
  <2>2. ~(Modbus!UsableHosts(p - 1) <= maxHosts)
    BY <1>7, <2>1
  <2> QED
    BY <1>13, <2>2 DEF Modbus!Scannable
<1> QED
  BY <1>10, <1>15, <1>16 DEF OffersScope, scope, connected, wider

LEMMA ScopesBegin == Init => ScopesKnown
<1> SUFFICES ASSUME Init, subject = "scopes"
             PROVE  input \in [address : Nat, prefix : 0..(AddressWidth - 2),
                               maxHosts : {2, 5, 6, 14}]
  BY DEF ScopesKnown
<1>1. input \in [address : {0}, prefix : 0..(AddressWidth - 2), maxHosts : {2, 5, 6, 14}]
  BY DEF Init, CanInit, AnswerInit, PidsInit, MarksInit, StreamInit, TrafficInit, CompareInit,
         DeviceInit, ScopesInit
<1> QED
  BY <1>1

LEMMA ScopesNext ==
  ASSUME ScopesKnown, [Next]_vars
  PROVE  ScopesKnown'
<1>1. CASE Next /\ subject = "scopes"
  <2>1. ~AnswerNext
    BY <1>1 DEF AnswerNext
  <2>2. /\ \A pid : ~Support(pid)
        /\ \A f, pause : ~See(f, pause)
        /\ \A which, key : ~SeeIn(which, key)
    BY <1>1 DEF Support, See, SeeIn
  <2>3. /\ \A char : ~ReceiveChar(char)
        /\ ~ReadNext
    BY <1>1 DEF ReceiveChar, ReadNext
  <2>4. /\ \A n, overflow, stop : ~Deliver(n, overflow, stop)
        /\ \A ended : ~DeliverNothing(ended)
    BY <1>1 DEF Deliver, DeliverNothing, Streaming
  <2>5. /\ \A text : ~Describe(text)
        /\ \A more : ~Reply(more)
        /\ \A code : ~ReplyException(code)
    BY <1>1 DEF Describe, Reply, ReplyException
  <2>6. Renumber
    BY <1>1, <2>1, <2>2, <2>3, <2>4, <2>5 DEF Next
  <2>7. input' = [input EXCEPT !.address = @ + 1] /\ subject' = subject
    BY <2>6 DEF Renumber
  <2> DEFINE P == 0..(AddressWidth - 2)
             M == {2, 5, 6, 14}
  <2>8. input \in [address : Nat, prefix : P, maxHosts : M]
    BY <1>1 DEF ScopesKnown
  <2>9. input' \in [address : Nat, prefix : P, maxHosts : M]
    <3> HIDE DEF P, M
    <3> QED
      BY <2>7, <2>8
  <2> QED
    BY <2>9 DEF ScopesKnown
<1>2. CASE Next /\ subject # "scopes"
  <2>1. subject' = subject
    BY <1>2, SubjectStays
  <2> QED
    BY <1>2, <2>1 DEF ScopesKnown
<1>3. CASE UNCHANGED vars
  BY <1>3 DEF vars, ScopesKnown
<1> QED
  BY <1>1, <1>2, <1>3

LEMMA KnownIsScannable == ScopesKnown => ScopesAreScannable
<1> SUFFICES ASSUME ScopesKnown, subject = "scopes"
             PROVE  OffersScope(input.address, input.prefix, input.maxHosts)
  BY DEF ScopesAreScannable, OffersScope
<1>1. /\ input.address \in Nat /\ input.prefix \in 0..(AddressWidth - 2)
      /\ input.maxHosts \in {2, 5, 6, 14}
  BY DEF ScopesKnown
<1> DEFINE m == input.maxHosts
<1>2. m \in Nat /\ m >= 2
  BY <1>1
<1> HIDE DEF m
<1>3. OffersScope(input.address, input.prefix, m)
  BY <1>1, <1>2, ScopesAreOffered
<1> QED
  BY <1>3 DEF m

(* Discovery asks only where it may, and reports of a device only what the *)
(* device has said (modbus_discovery.py:205, 256, 448).                    *)
THEOREM DiscoveryIsProved == Spec => []DiscoveryIsSound
<1> DEFINE Known == DevicesKnown /\ ScopesKnown
<1>1. Init => Known
  BY DevicesBegin, ScopesBegin
<1>2. Known /\ [Next]_vars => Known'
  BY DevicesNext, ScopesNext
<1>3. Known => DiscoveryIsSound
  BY KnownIsTheirs, KnownIsScannable DEF DiscoveryIsSound
<1> HIDE DEF Known
<1> QED
  BY <1>1, <1>2, <1>3, PTL DEF Spec
================================================================================
