------------------------------- MODULE ParityMarks -------------------------------
(***************************************************************************)
(* The receive lane's reading of the markers a Linux tty puts into the     *)
(* data with PARMRK (serial_capture.py): FF FF is a received FF, FF 00 x a *)
(* character x with a parity or framing error, and FF 00 00 a break.  The  *)
(* bytes come in blocks, however the reads fall; a marker that is not      *)
(* complete waits for the next block.                                      *)
(***************************************************************************)
EXTENDS Integers, Sequences, FiniteSets, SequencesExt

(* What a capture has so far: the bytes not yet decoded, the data of each  *)
(* block, and the counts of characters marked and of breaks.               *)
Start == [pending |-> <<>>, chunks |-> <<>>, marked |-> 0, breaks |-> 0]

(* What the bytes from place i on begin with; size 0 is not yet known.     *)
Take(bytes, i) ==
  CASE bytes[i] # 255 -> [size |-> 1, data |-> <<bytes[i]>>, event |-> "data"]
    [] bytes[i] = 255 /\ i = Len(bytes) -> [size |-> 0, data |-> <<>>, event |-> "wait"]
    [] OTHER -> IF bytes[i + 1] = 255
                  THEN [size |-> 2, data |-> <<255>>, event |-> "data"]
                  ELSE IF i + 2 > Len(bytes)
                         THEN [size |-> 0, data |-> <<>>, event |-> "wait"]
                         ELSE IF bytes[i + 2] = 0
                                THEN [size |-> 3, data |-> <<>>, event |-> "break"]
                                ELSE [size |-> 3, data |-> <<bytes[i + 2]>>, event |-> "marked"]

Tally(item, event) == IF item.event = event THEN 1 ELSE 0

(* The loop over the pending bytes: where it is, and what it has decoded.  *)
(* At the end, and at a mark that is not complete, it stays where it is.   *)
Begin == [at |-> 1, data |-> <<>>, marked |-> 0, breaks |-> 0]

Pass(bytes, loop) ==
  IF loop.at > Len(bytes) THEN loop
  ELSE LET item == Take(bytes, loop.at)
       IN  [at |-> loop.at + item.size, data |-> loop.data \o item.data,
            marked |-> loop.marked + Tally(item, "marked"),
            breaks |-> loop.breaks + Tally(item, "break")]

Decoded(bytes) ==
  LET loop[n \in 0..Len(bytes)] == IF n = 0 THEN Begin ELSE Pass(bytes, loop[n - 1])
  IN  loop[Len(bytes)]

(* Mutant: what waits for the rest of its marker is dropped.               *)
ReadBlockForgetful(capture, block) ==
  LET decoded == Decoded(block)
  IN  [pending |-> SubSeq(block, decoded.at, Len(block)),
       chunks |-> Append(capture.chunks, decoded.data),
       marked |-> capture.marked + decoded.marked,
       breaks |-> capture.breaks + decoded.breaks]

(* One read of the tty: an empty one is no read at all.                    *)
ReadBlock(capture, block) ==
  LET bytes == capture.pending \o block
      decoded == Decoded(bytes)
  IN  IF block = <<>> THEN capture
      ELSE [pending |-> SubSeq(bytes, decoded.at, Len(bytes)),
            chunks |-> Append(capture.chunks, decoded.data),
            marked |-> capture.marked + decoded.marked,
            breaks |-> capture.breaks + decoded.breaks]

(* raw: the chunks' data put together.                                     *)
Joined(chunks) == FlattenSeq(chunks)

(* What is recorded at the end of a capture.                               *)
Recorded(capture) ==
  [data |-> Joined(capture.chunks), chunks |-> Len(capture.chunks),
   marked |-> capture.marked, breaks |-> capture.breaks,
   truncated |-> IF capture.pending = <<>> THEN 0 ELSE 1]
--------------------------------------------------------------------------------
(* The tty's side (termios(3), PARMRK with INPCK and without ISTRIP): a    *)
(* break is a zero with a framing error.                                   *)

Char(byte, bad) == [byte |-> byte, bad |-> bad]

Mark(char) ==
  CASE char.bad -> <<255, 0, char.byte>>
    [] ~char.bad /\ char.byte = 255 -> <<255, 255>>
    [] OTHER -> <<char.byte>>

(* What is due of the characters received so far: the bytes of their marks *)
(* and what a capture of them holds.                                       *)
Accounts == [bytes : Nat, data : Seq(0..255), marked : Nat, breaks : Nat]

Nothing == [bytes |-> 0, data |-> <<>>, marked |-> 0, breaks |-> 0]

Due(due, char) ==
  [bytes |-> due.bytes + Len(Mark(char)),
   data |-> IF char.bad /\ char.byte = 0 THEN due.data ELSE Append(due.data, char.byte),
   marked |-> due.marked + IF char.bad /\ char.byte # 0 THEN 1 ELSE 0,
   breaks |-> due.breaks + IF char.bad /\ char.byte = 0 THEN 1 ELSE 0]
================================================================================
