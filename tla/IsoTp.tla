---------------------------------- MODULE IsoTp ----------------------------------
(***************************************************************************)
(* What the OBD service makes of an adapter's answer: the lines of several *)
(* ECUs, interleaved, are reassembled into one payload for each ECU        *)
(* (obd_protocol.py), and payloads become trouble codes, supported PIDs    *)
(* and VINs (obd_service.py).  A line is a frame of an ECU, with its data  *)
(* as bytes, or one of the adapter's own words; a raised exception is the  *)
(* value Failed.                                                           *)
(***************************************************************************)
EXTENDS Integers, Sequences, FiniteSets, FiniteSetsExt, SequencesExt

CONSTANT Failed   \* a response that was refused as a whole

Frame(ecu, data) == [kind |-> "frame", ecu |-> ecu, data |-> data]
Word(kind) == [kind |-> kind, ecu |-> "adapter", data |-> <<>>]
NoData == Word("no data")             \* nobody answered
AdapterError == Word("error")         \* BUS ERROR, BUFFER FULL, ? and the like
Malformed == Word("malformed")        \* not a line of this protocol

None == [length |-> 0, bytes |-> <<>>, next |-> -1]

(* What is known of one ECU: the payload it completed, the message it has  *)
(* begun, and whether one of its lines was wrong.                          *)
Silent == [done |-> FALSE, payload |-> <<>>, pending |-> None, invalid |-> FALSE]

Invalid(r) == [r EXCEPT !.done = FALSE, !.payload = <<>>, !.pending = None, !.invalid = TRUE]

Accept(r, payload) == [r EXCEPT !.done = TRUE, !.payload = payload]

SingleFrame(r, data) ==
  LET length == data[1] % 16
  IN  IF length > Len(data) - 1 THEN Invalid(r) ELSE Accept(r, SubSeq(data, 2, 1 + length))

FirstFrame(r, data) ==
  LET length == (data[1] % 16) * 256 + data[2]
      bytes == SubSeq(data, 3, Len(data))
  IN  IF Len(data) < 2 THEN Invalid(r)
      ELSE IF Len(bytes) >= length THEN Accept(r, SubSeq(bytes, 1, length))
      ELSE [r EXCEPT !.pending = [length |-> length, bytes |-> bytes, next |-> 1]]

(* Mutant: sequence numbers are not compared.                              *)
ContinuesAny(r, data) == r.pending # None

Continues(r, data) == r.pending # None /\ data[1] % 16 = r.pending.next

ConsecutiveFrame(r, data) ==
  LET length == r.pending.length
      bytes == r.pending.bytes \o Tail(data)
  IN  IF ~Continues(r, data) THEN Invalid(r)
      ELSE IF Len(bytes) >= length
             THEN [Accept(r, SubSeq(bytes, 1, length)) EXCEPT !.pending = None]
             ELSE [r EXCEPT !.pending = [length |-> length, bytes |-> bytes,
                                         next |-> (r.pending.next + 1) % 16]]

(* One line of one ECU; after an error the ECU is no longer listened to.   *)
Read(r, data) ==
  LET type == data[1] \div 16
  IN  CASE data = <<>> \/ r.invalid -> r
        [] OTHER -> CASE type = 0 -> SingleFrame(r, data)
                      [] type = 1 -> FirstFrame(r, data)
                      [] type = 2 -> ConsecutiveFrame(r, data)
                      [] type = 3 -> r
                      [] OTHER -> Invalid(r)

From(line, ecu) == line.kind = "frame" /\ line.ecu = ecu

(* The lines of one ECU, in their order.                                   *)
Own(lines, ecu) ==
  LET own[n \in 0..Len(lines)] ==
        IF n = 0 THEN <<>>
        ELSE IF From(lines[n], ecu) THEN Append(own[n - 1], lines[n]) ELSE own[n - 1]
  IN  own[Len(lines)]

(* What is known of an ECU after these lines of its own.                   *)
Heard(own) ==
  LET after[n \in 0..Len(own)] ==
        IF n = 0 THEN Silent ELSE Read(after[n - 1], own[n].data)
  IN  after[Len(own)]

(* The lines of one ECU, to the end; a message still pending is an error.  *)
Responder(lines, ecu) ==
  LET end == Heard(Own(lines, ecu))
  IN  IF end.pending # None THEN Invalid(end) ELSE end

Responders(lines) == {l.ecu : l \in {l \in Range(lines) : l.kind = "frame"}}

(* parse_elm_response_scoped: payloads by ECU, and the ECUs in error.      *)
Scoped(lines) ==
  IF \E l \in Range(lines) : l.kind \in {"error", "malformed"} THEN Failed
  ELSE LET ended == [ecu \in Responders(lines) |-> Responder(lines, ecu)]
       IN  [payloads |-> [ecu \in {e \in DOMAIN ended : ended[e].done} |-> ended[ecu].payload],
            errors |-> {e \in DOMAIN ended : ended[e].invalid}]

(* parse_elm_response: any error refuses the whole response.               *)
Strict(lines) ==
  LET scoped == Scoped(lines)
  IN  IF scoped = Failed THEN Failed
      ELSE IF scoped.errors # {} THEN Failed ELSE scoped.payloads
--------------------------------------------------------------------------------
(* Trouble codes.  A code is its pair of bytes; 0, 0 pads.                 *)

(* decode_dtc_payload: pairs, or a count and that many pairs.              *)
Codes(payload, service) ==
  LET data == Tail(payload)
      counted == Len(data) % 2 = 1
      pairs == IF counted THEN Tail(data) ELSE data
      size == IF counted THEN 2 * data[1] ELSE Len(data)
      Pair(i) == <<pairs[2 * i - 1], pairs[2 * i]>>
  IN  IF \/ payload = <<>> \/ payload[1] # service
         \/ Len(pairs) < size
         \/ \E i \in (size + 1)..Len(pairs) : pairs[i] # 0
      THEN Failed
      ELSE SelectSeq([i \in 1..(size \div 2) |-> Pair(i)], LAMBDA p : p # <<0, 0>>)

(* decode_readiness, of which the number of confirmed codes is used below. *)
Confirmed(payload) ==
  IF Len(payload) < 6 \/ payload[1] # 65 \/ payload[2] # 1 THEN Failed ELSE payload[3] % 128

(* What read_faults makes of the codes it decoded and the ECUs in error.   *)
Judged(decoded, errors) ==
  LET good == {ecu \in DOMAIN decoded : decoded[ecu] # Failed}
      bad == (DOMAIN decoded \ good) \cup errors
  IN  [codes |-> [ecu \in good |-> decoded[ecu]],
       status |-> CASE DOMAIN decoded = {} -> IF bad = {} THEN "no_data" ELSE "error"
                    [] DOMAIN decoded # {} /\ good = {} -> "error"
                    [] good # {} /\ bad # {} -> "partial"
                    [] good # {} /\ bad = {} -> "complete"]

(* One mode's answer. *)
Faults(lines, service) ==
  LET Of(scoped) ==
        IF scoped = Failed THEN Failed
        ELSE Judged([ecu \in DOMAIN scoped.payloads |-> Codes(scoped.payloads[ecu], service)],
                    scoped.errors)
  IN  Of(Scoped(lines))

Counts(payloads) ==
  [ecu \in {e \in DOMAIN payloads : Confirmed(payloads[e]) # Failed} |-> Confirmed(payloads[ecu])]

(* Mutant: an ECU without any decoded code is not compared.                *)
MismatchOfDecoded(counts, codes) ==
  \E ecu \in DOMAIN counts \cap DOMAIN codes : Len(codes[ecu]) # counts[ecu]

Mismatch(counts, codes) ==
  \E ecu \in DOMAIN counts :
    (IF ecu \in DOMAIN codes THEN Len(codes[ecu]) ELSE 0) # counts[ecu]

(* read_faults: the stored codes, and the status they are saved with, once *)
(* compared with the number of codes each ECU's readiness reports.         *)
StoredFaults(readiness, lines) ==
  LET Compared(scoped, faults) ==
        IF scoped = Failed \/ faults = Failed THEN Failed
        ELSE IF Mismatch(Counts(scoped.payloads), faults.codes) /\ faults.status # "error"
               THEN [faults EXCEPT !.status = "partial"]
               ELSE faults
  IN  Compared(Scoped(readiness), Faults(lines, 67))
--------------------------------------------------------------------------------
(* Supported PIDs, in pages of thirty-two from 0x00 to 0xA0.               *)

(* decode_supported_pids; bit 1 of the bitmap is the page's first PID.     *)
SupportedPids(payload) ==
  {payload[2] + bit : bit \in {b \in 1..32 :
      (payload[3 + (b - 1) \div 8] \div 2^(7 - ((b - 1) % 8))) % 2 = 1}}

(* The last PID of a page says whether there is another one.               *)
MorePages(page, pids) == page + 32 \in pids /\ page < 160

(* _discover_supported_pids; answers[page] is what the vehicle answers.    *)
(* Answers for another page are passed over, a short one is an error.      *)
Discover(answers) ==
  LET Payloads(scoped) == IF scoped = Failed THEN {} ELSE Range(scoped.payloads)
      OfPage(page) == {p \in Payloads(Scoped(answers[page])) : SubSeq(p, 1, 2) = <<65, page>>}
      Refused(page) == Scoped(answers[page]) = Failed \/ \E p \in OfPage(page) : Len(p) < 6
      Pids(page) == UNION {SupportedPids(p) : p \in OfPage(page)}
      asked[page \in {32 * n : n \in 0..5}] ==
        page = 0 \/ (asked[page - 32] /\ MorePages(page - 32, Pids(page - 32)))
      pages == {page \in DOMAIN asked : asked[page]}
  IN  IF Pids(0) = {} \/ \E page \in pages : Refused(page) THEN Failed
      ELSE UNION {Pids(page) : page \in pages}
--------------------------------------------------------------------------------
(* decode_vin: 0x49 0x02, an item number, then seventeen characters, with  *)
(* zeroes after them left out.                                             *)
VinBytes == (48..57) \cup ((65..90) \ {73, 79, 81})

Vin(payload) ==
  LET rest == SubSeq(payload, 4, Len(payload))
      length == Max({0} \cup {i \in DOMAIN rest : rest[i] # 0})
      vin == SubSeq(rest, 1, length)
  IN  IF SubSeq(payload, 1, 2) = <<73, 2>> /\ length = 17 /\ Range(vin) \subseteq VinBytes
        THEN vin ELSE Failed

Disagree(vins) == Cardinality(Range(vins)) > 1

(* read_vehicle_info: the VINs by ECU, their status, and whether they      *)
(* disagree.                                                               *)
VehicleInfo(lines) ==
  LET Told(vins, errors) ==
        [vins |-> vins,
         status |-> CASE vins # <<>> /\ errors # {} -> "partial"
                      [] vins # <<>> /\ errors = {} -> "complete"
                      [] vins = <<>> /\ errors # {} -> "error"
                      [] OTHER -> "no_data",
         mismatch |-> Disagree(vins)]
      Of(read, errors) ==
        LET good == {ecu \in DOMAIN read : read[ecu] # Failed}
        IN  Told([ecu \in good |-> read[ecu]], errors \cup (DOMAIN read \ good))
      Reported(scoped) ==
        IF scoped = Failed THEN Failed
        ELSE Of([ecu \in DOMAIN scoped.payloads |-> Vin(scoped.payloads[ecu])], scoped.errors)
  IN  Reported(Scoped(lines))
--------------------------------------------------------------------------------
(* The ECU's side: frames of eight bytes, as ISO 15765-2 sends a message.  *)

Pad(bytes, n) == bytes \o [i \in 1..(n - Len(bytes)) |-> 0]

(* A message in one frame; the first of several; and the i-th after it.    *)
Single(message) == Pad(<<Len(message)>> \o message, 8)

Opening(message) ==
  <<16 + Len(message) \div 256, Len(message) % 256>> \o SubSeq(message, 1, 6)

Continuation(message, i) ==
  LET rest == SubSeq(message, 7, Len(message))
      piece == SubSeq(rest, 7 * i - 6, Min({7 * i, Len(rest)}))
  IN  Pad(<<32 + (i % 16)>> \o piece, 8)

Segmented(ecu, message) ==
  IF Len(message) <= 7 THEN <<Frame(ecu, Single(message))>>
  ELSE <<Frame(ecu, Opening(message))>>
         \o [i \in 1..(Len(message) \div 7) |-> Frame(ecu, Continuation(message, i))]

(* Stored codes with their count, and readiness with the same count.       *)
CodesMessage(codes) == <<67, Len(codes)>> \o FlattenSeq(codes)
ReadinessMessage(codes) == <<65, 1, 128 * Min({1, Len(codes)}) + Len(codes), 0, 0, 0>>

(* The bitmap of the PIDs an ECU supports in one page.                     *)
BitmapMessage(page, pids) ==
  <<65, page>> \o [byte \in 1..4 |->
     FoldSet(LAMBDA bit, sum : sum + 2^(8 - bit), 0,
             {bit \in 1..8 : page + 8 * (byte - 1) + bit \in pids})]
================================================================================
