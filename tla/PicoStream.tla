------------------------------- MODULE PicoStream --------------------------------
(***************************************************************************)
(* The streaming loop of the Pico driver (pico.py).  The driver writes     *)
(* samples into a small buffer, over and over, and hands each segment to a *)
(* callback, which copies it behind what was copied before.  A poll may    *)
(* bring no segment; the last segment may hold more than is wanted; the    *)
(* driver may stop by itself, fail, or take too long.  A sample is its     *)
(* number, from one.                                                       *)
(***************************************************************************)
EXTENDS Integers, Sequences, FiniteSets, FiniteSetsExt, SequencesExt

(* A poll: the segment's place in the buffer, its samples (none: nothing   *)
(* was ready), the channels that overflowed, whether the driver stops, and *)
(* how the call ended: "ok", "error" (a status other than PICO_OK), "late" *)
(* (the deadline has passed).                                              *)
Poll(start, samples, overflow, stop, ended) ==
  [start |-> start, samples |-> samples, overflow |-> overflow, stop |-> stop, ended |-> ended]

Idle(chunk) == [buffer |-> [i \in 1..chunk |-> 0], complete |-> <<>>, overflow |-> {},
                stop |-> FALSE, ended |-> "ok"]

(* A capture under way, and a poll that may bring nothing.                 *)
Captures(chunk, channels) ==
  [buffer : [1..chunk -> Nat], complete : Seq(Nat), overflow : SUBSET channels,
   stop : BOOLEAN, ended : {"ok", "error", "late"}]

Polls(chunk, channels) ==
  [start : 1..chunk, samples : Seq(Nat), overflow : SUBSET channels, stop : BOOLEAN,
   ended : {"ok", "error", "late"}]

(* The samples copied so far are the first ones, each in its place.        *)
Copied(s, total) ==
  /\ s.complete \in Seq(Nat) /\ Len(s.complete) <= total
  /\ \A i \in 1..Len(s.complete) : s.complete[i] = i

(* The part of the buffer that is copied.                                  *)
Segment(buffer, start, count) == SubSeq(buffer, start, start + count - 1)

(* The buffer after the driver has written a segment.                      *)
Written(buffer, poll) ==
  [i \in DOMAIN buffer |->
     IF i >= poll.start /\ i < poll.start + Len(poll.samples)
       THEN poll.samples[i - poll.start + 1] ELSE buffer[i]]

(* streaming_callback.                                                     *)
Callback(s, poll, total) ==
  LET buffer == Written(s.buffer, poll)
      count == Min({Len(poll.samples), total - Len(s.complete)})
  IN  [s EXCEPT !.buffer = buffer,
                !.complete = @ \o Segment(buffer, poll.start, count),
                !.overflow = @ \cup poll.overflow,
                !.stop = poll.stop]

(* The loop goes on until all is there or the driver has stopped.          *)
Going(s, total) == s.ended = "ok" /\ Len(s.complete) < total /\ ~s.stop

Step(s, poll, total) ==
  IF ~Going(s, total) THEN s
  ELSE LET called == IF poll.samples = <<>> THEN s ELSE Callback(s, poll, total)
       IN  [called EXCEPT !.ended = poll.ended]

Full(s, total) == Len(s.complete) = total

(* The driver's buffer, for captures whose size is a multiple of it.       *)
ChunkOf(total, buffer) == Min({total, buffer})

(* The loop's state after these polls.                                     *)
After(total, chunk, polls) ==
  LET after[n \in 0..Len(polls)] ==
        IF n = 0 THEN Idle(chunk) ELSE Step(after[n - 1], polls[n], total)
  IN  after[Len(polls)]

(* capture: its end after these polls, with what it returns.               *)
Capture(total, buffer, polls) ==
  LET chunk == ChunkOf(total, buffer)
      s == After(total, chunk, polls)
  IN  [outcome |-> CASE total % chunk # 0 -> "refused"
                     [] total % chunk = 0 /\ Going(s, total) -> "running"
                     [] total % chunk = 0 /\ s.ended = "ok" /\ ~Going(s, total) /\ Full(s, total)
                          -> "captured"
                     [] OTHER -> "failed",
       samples |-> s.complete, overflow |-> s.overflow]
================================================================================
