-------------------------------- MODULE CanFrames --------------------------------
(***************************************************************************)
(* Classical CAN frames read from a sampled trace (can_analysis.py).  A    *)
(* trace is here one value per nominal bit time, 0 dominant and 1          *)
(* recessive: samples, thresholds and bit rates are below this model.  The *)
(* trace is split into groups at idle, a group is destuffed, its header,   *)
(* CRC and trailer are checked, and what passes is reported as a frame.    *)
(* The other half is what a sender puts on the wire.                       *)
(***************************************************************************)
EXTENDS Integers, Sequences, FiniteSets, FiniteSetsExt, SequencesExt

(* A left fold over 1..n.  It goes in blocks of sixteen and fixes the      *)
(* value between blocks, so that TLC's evaluation does not nest deeply.    *)
Fold(Step(_, _), start, n) ==
  LET block[b \in 0..((n + 15) \div 16)] ==
        IF b = 0 THEN start
        ELSE LET end == Min({16 * b, n})
                 From(s) == LET at[i \in (16 * b - 16)..end] ==
                                  IF i = 16 * b - 16 THEN s ELSE Step(at[i - 1], i)
                            IN  at[end]
             IN  CHOOSE t \in {From(s) : s \in {block[b - 1]}} : TRUE
  IN  block[(n + 15) \div 16]

(* _integer: the value of a sequence of bits, the most significant first.  *)
Integer(bits) == Fold(LAMBDA value, i : 2 * value + bits[i], 0, Len(bits))

(* 0x4599, the generator polynomial. *)
Polynomial == <<1, 0, 0, 0, 1, 0, 1, 1, 0, 0, 1, 1, 0, 0, 1>>

(* can_crc15_bits: a register of fifteen bits, shifted once for each bit.  *)
Crc15(bits) ==
  LET Shift(crc, i) ==
        LET shifted == Append(Tail(crc), 0)
        IN  IF bits[i] # crc[1]
              THEN [j \in 1..15 |-> (shifted[j] + Polynomial[j]) % 2]
              ELSE shifted
  IN  Fold(Shift, [j \in 1..15 |-> 0], Len(bits))
--------------------------------------------------------------------------------
(* Removing stuff bits, up to a limit of bits kept.                        *)

Unread == [kept |-> <<>>, last |-> 2, run |-> 0, used |-> 0, state |-> "more"]

Keep(s, bit, used) ==
  [s EXCEPT !.kept = Append(@, bit), !.last = bit, !.used = used,
            !.run = IF bit = s.last THEN @ + 1 ELSE 1]

(* At the limit, a run of five must still be followed by its stuff bit.    *)
AtLimit(s, raw) ==
  IF s.run # 5 THEN [s EXCEPT !.state = "full"]
  ELSE IF s.used < Len(raw) /\ raw[s.used + 1] # s.last
         THEN [s EXCEPT !.state = "full", !.used = @ + 1]
         ELSE [s EXCEPT !.state = "violation"]

(* _destuff and _destuff_with_consumed.                                    *)
Destuff(raw, limit) ==
  LET Read(s, i) ==
        LET kept == Keep(s, raw[i], i)
        IN  IF s.state # "more" THEN s
            ELSE IF s.run # 5 THEN IF Len(kept.kept) < limit THEN kept ELSE AtLimit(kept, raw)
            ELSE IF raw[i] = s.last THEN [s EXCEPT !.state = "violation"]
            ELSE [s EXCEPT !.last = raw[i], !.run = 1, !.used = i]
  IN  Fold(Read, Unread, Min({Len(raw), limit + limit \div 4 + 1}))   \* as far as it can get

(* The first bits of a group, when that many can be destuffed.             *)
Prefix(raw, limit) ==
  LET Full(s) == IF s.state = "full" THEN s.kept ELSE <<>> IN Full(Destuff(raw, limit))
--------------------------------------------------------------------------------
(* _parse_header, with NoHeader for None.  The bits beyond the last one    *)
(* looked at may be missing.                                               *)

NoHeader == [identifier |-> -1, extended |-> FALSE, fdf |-> FALSE, brs |-> FALSE]

Header(raw) ==
  LET head == Prefix(raw, 14)
      base == Destuff(raw, 17)
      long == Destuff(raw, 37)
      Set(s, bit) == Len(s.kept) >= bit /\ s.kept[bit] = 1
      Readable(s, bits) == s.state # "violation" /\ Len(s.kept) >= bits
  IN  CASE head = <<>> \/ head[1] # 0 -> NoHeader
        [] head # <<>> /\ head[1] = 0 /\ head[14] = 0 ->
             IF ~Readable(base, 15) THEN NoHeader
             ELSE [identifier |-> Integer(SubSeq(head, 2, 12)), extended |-> FALSE,
                   fdf |-> Set(base, 15), brs |-> Set(base, 15) /\ Set(base, 17)]
        [] OTHER ->
             IF ~Readable(long, 35) \/ long.kept[13] # 1 THEN NoHeader
             ELSE [identifier |-> Integer(SubSeq(head, 2, 12) \o SubSeq(long.kept, 15, 32)),
                   extended |-> TRUE,
                   fdf |-> Set(long, 35), brs |-> Set(long, 35) /\ Set(long, 37)]

(* Where a classical frame of either format has what, in destuffed bits.   *)
Layout(extended) ==
  IF extended THEN [remote |-> 33, dlc |-> 36, data |-> 40]
              ELSE [remote |-> 13, dlc |-> 16, data |-> 20]

Dlc(prefix, layout) == Integer(SubSeq(prefix, layout.dlc, layout.dlc + 3))

(* A remote frame has no data; a DLC above eight means eight bytes.        *)
DataBits(prefix, layout) ==
  IF prefix[layout.remote] = 1 THEN 0 ELSE 8 * Min({Dlc(prefix, layout), 8})

(* Mutant: the checksum is not compared.                                   *)
CrcMatchesAny(bits) == TRUE

CrcMatches(bits) ==
  SubSeq(bits, Len(bits) - 14, Len(bits)) = Crc15(SubSeq(bits, 1, Len(bits) - 15))

(* Mutant: the survey reads every frame with the layout of a base frame.   *)
CrcValidBase(raw, header) ==
  LET layout == Layout(FALSE)
      prefix == Prefix(raw, layout.data - 1)
      bits == Prefix(raw, layout.data + DataBits(prefix, layout) + 14)
  IN  ~header.fdf /\ prefix # <<>> /\ bits # <<>> /\ CrcMatches(bits)

(* _validate_classic_crc: is the header backed by a checksum?  (The code   *)
(* has a second copy of the layout and of the length here.)                *)
CrcValid(raw, header) ==
  LET layout == Layout(header.extended)
      prefix == Prefix(raw, layout.data - 1)
      bits == Prefix(raw, layout.data + DataBits(prefix, layout) + 14)
  IN  /\ ~header.fdf
      /\ prefix # <<>> /\ bits # <<>>
      /\ CrcMatches(bits)

(* CRC delimiter, ACK slot, ACK delimiter and end of frame. *)
Trailer(bits) ==
  /\ Len(bits) = 10
  /\ \A i \in {1} \cup 3..10 : bits[i] = 1

NoFrame == [identifier |-> -1, extended |-> FALSE, remote |-> FALSE, dlc |-> 0,
            payload |-> <<>>, ack |-> FALSE]

(* The frame, once its header, what precedes its data and what its         *)
(* checksum covers are read; NoFrame for None.                             *)
Checked(raw, header, prefix, body) ==
  LET layout == Layout(header.extended)
      trailer == SubSeq(raw, body.used + 1, Min({body.used + 10, Len(raw)}))
      Byte(i) == Integer(SubSeq(body.kept, layout.data + 8 * (i - 1), layout.data + 8 * i - 1))
  IN  IF /\ header # NoHeader /\ ~header.fdf
         /\ prefix # <<>>
         /\ header.extended => prefix[34] = 0
         /\ body.state = "full" /\ CrcMatches(body.kept)
         /\ Trailer(trailer)
      THEN [identifier |-> header.identifier, extended |-> header.extended,
            remote |-> prefix[layout.remote] = 1, dlc |-> Dlc(prefix, layout),
            payload |-> [i \in 1..(DataBits(prefix, layout) \div 8) |-> Byte(i)],
            ack |-> trailer[2] = 0]
      ELSE NoFrame

(* _parse_classic_frame reads as far as each part says the next one goes.  *)
ClassicFrame(raw) ==
  LET Covered(layout, prefix) == Destuff(raw, layout.data + DataBits(prefix, layout) + 14)
      Read(header, prefix) ==
        Checked(raw, header, prefix, Covered(Layout(header.extended), prefix))
      Begun(header) == Read(header, Prefix(raw, Layout(header.extended).data - 1))
  IN  Begun(Header(raw))
--------------------------------------------------------------------------------
(* From a trace of differential levels to its frames.                      *)

Levels(trace) == {trace[i] : i \in DOMAIN trace}

(* _classify_positive_dominant_state, in units of half a volt: two levels  *)
(* apart, and the upper one positive.                                      *)
Active(trace) ==
  /\ trace # <<>>
  /\ Max(Levels(trace)) - Min(Levels(trace)) >= 1
  /\ Max(Levels(trace)) >= 1

(* The upper of two levels is dominant. *)
LogicBits(trace) ==
  LET threshold == Max(Levels(trace)) + Min(Levels(trace))
  IN  [i \in DOMAIN trace |-> IF 2 * trace[i] > threshold THEN 0 ELSE 1]

(* More than ten and a half bit times from one dominant sample to the next *)
(* begin a new group: eleven recessive bits.                               *)
IdleBits == 11

(* The bits where groups begin: dominant, after idle or at the very start. *)
Starts(bits) ==
  {i \in DOMAIN bits : bits[i] = 0 /\ \A j \in Max({1, i - IdleBits})..(i - 1) : bits[j] = 1}

(* A group is read from its first bit to twenty bits past its last         *)
(* dominant one, or to the end of the trace.                               *)
Group(bits, starts, start) ==
  LET next == {i \in starts : i > start}
      end == IF next = {} THEN Len(bits) ELSE Min(next) - 1
      last == Max({i \in start..end : bits[i] = 0})
  IN  SubSeq(bits, start, Min({last + 20, Len(bits)}))

Groups(bits) ==
  LET starts == Starts(bits)
      begins == SetToSortSeq(starts, <)
  IN  [g \in DOMAIN begins |-> Group(bits, starts, begins[g])]

(* What is said of groups that were parsed: the frames in the order of the *)
(* groups, the number of CAN FD headers and of groups rejected.            *)
Outcome(groups, parsed, active) ==
  LET frames == SelectSeq(parsed, LAMBDA f : f # NoFrame)
  IN  [frames |-> frames,
       fd |-> Cardinality({g \in DOMAIN groups : parsed[g] = NoFrame /\ Header(groups[g]).fdf}),
       rejected |-> Len(groups) - Len(frames),
       active |-> active]

(* The groups of a trace that has two states. *)
GroupsOf(trace) == IF Active(trace) THEN Groups(LogicBits(trace)) ELSE <<>>

(* _decode_can_orientation.                                                *)
Orientation(trace) ==
  LET Parsed(groups) == Outcome(groups, [g \in DOMAIN groups |-> ClassicFrame(groups[g])],
                                IF Active(trace) THEN 1 ELSE 0)
  IN  Parsed(GroupsOf(trace))

(* evidence_key, to be compared with the other orientation's: more frames, *)
(* activity, more CAN FD headers, a smaller share and number of rejected.  *)
Evidence(a, b) ==
  LET total(r) == Max({1, Len(r.frames) + r.fd + r.rejected})
  IN  <<Len(a.frames), a.active, a.fd, -(a.rejected * total(b)), -a.rejected>>

Better(a, b) ==
  \E i \in DOMAIN Evidence(a, b) :
    /\ Evidence(a, b)[i] > Evidence(b, a)[i]
    /\ \A j \in 1..(i - 1) : Evidence(a, b)[j] = Evidence(b, a)[j]

(* decode_can_waveform: CAN-H and CAN-L are as labelled unless the         *)
(* exchanged pair says more.                                               *)
Decode(trace) ==
  LET Is(polarity, o) == [frames |-> o.frames, fd |-> o.fd, rejected |-> o.rejected,
                          polarity |-> polarity]
      Best(expected, reversed) ==
        IF Better(reversed, expected) THEN Is("reversed", reversed) ELSE Is("expected", expected)
  IN  Best(Orientation(trace), Orientation([i \in DOMAIN trace |-> -trace[i]]))

(* _frame_evidence: the headers of a trace, and which a checksum backs.    *)
Headers(trace) ==
  LET Of(group, header) ==
        [header |-> header, valid |-> header # NoHeader /\ CrcValid(group, header)]
      All(groups) == [g \in DOMAIN groups |-> Of(groups[g], Header(groups[g]))]
  IN  SelectSeq(All(GroupsOf(trace)), LAMBDA h : h.header # NoHeader)
--------------------------------------------------------------------------------
(* The sender's side.                                                      *)

(* _sim_bits. *)
Bits(value, width) == [i \in 1..width |-> (value \div 2^(width - i)) % 2]

(* _sim_stuff: after five equal bits, one of the other kind.               *)
SimStuff(bits) ==
  LET Put(s, bit) == [bits |-> Append(s.bits, bit), last |-> bit,
                      run |-> IF bit = s.last THEN s.run + 1 ELSE 1]
      Send(s, i) == Put(IF s.run = 5 THEN Put(s, 1 - s.last) ELSE s, bits[i])
  IN  Fold(Send, [bits |-> <<>>, last |-> 2, run |-> 0], Len(bits))

(* A controller also stuffs a run of five at the end of the checksum,      *)
(* which the simulator leaves out.                                         *)
Stuff(bits) ==
  LET s == SimStuff(bits) IN IF s.run = 5 THEN Append(s.bits, 1 - s.last) ELSE s.bits

Octets(payload) == FlattenSeq([i \in DOMAIN payload |-> Bits(payload[i], 8)])
Flag(b) == IF b THEN 1 ELSE 0

(* A frame from its start to the end of its data.                          *)
Body(f) ==
  LET id == Bits(f.identifier, IF f.extended THEN 29 ELSE 11)
      head == IF f.extended
                THEN SubSeq(id, 1, 11) \o <<1, 1>> \o SubSeq(id, 12, 29) \o <<Flag(f.remote), 0, 0>>
                ELSE id \o <<Flag(f.remote), 0, 0>>
  IN  <<0>> \o head \o Bits(f.dlc, 4) \o Octets(f.payload)

Ending(ack) == <<1, IF ack THEN 0 ELSE 1, 1>> \o [i \in 1..10 |-> 1]

(* What a controller sends, with the three bits of intermission.           *)
Wire(f) == Stuff(Body(f) \o Crc15(Body(f))) \o Ending(f.ack)

(* _sim_j1939_frame: the simulator's extended data frames.                 *)
SimJ1939Frame(identifier, payload) ==
  LET f == [NoFrame EXCEPT !.identifier = identifier, !.extended = TRUE,
                           !.dlc = Len(payload), !.payload = payload]
  IN  SimStuff(Body(f) \o Crc15(Body(f))).bits \o Ending(TRUE)

(* The head of a CAN FD frame up to BRS, and data without a checksum that  *)
(* fits: FDF follows IDE in a base frame and RRS in an extended one.       *)
FdWire(identifier, extended, brs) ==
  LET id == Bits(identifier, IF extended THEN 29 ELSE 11)
      head == IF extended
                THEN SubSeq(id, 1, 11) \o <<1, 1>> \o SubSeq(id, 12, 29) \o <<0, 1, 0, Flag(brs)>>
                ELSE id \o <<0, 0, 1, 0, Flag(brs)>>
  IN  Stuff(<<0>> \o head \o <<0>> \o Bits(1, 4) \o Bits(85, 8) \o Bits(1234, 17)) \o Ending(TRUE)
================================================================================
