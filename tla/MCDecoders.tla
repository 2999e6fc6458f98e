------------------------------- MODULE MCDecoders --------------------------------
(***************************************************************************)
(* What the decoders make of the inputs a device can deliver.  A behaviour *)
(* takes one subject and grows or damages its input a step at a time; the  *)
(* invariants compare what is decoded with what was sent.                  *)
(***************************************************************************)
EXTENDS Integers, Sequences, FiniteSets, FiniteSetsExt, SequencesExt

CONSTANTS Subjects,    \* the decoders looked at
          FdFormats,   \* formats of CAN FD frames on the bus: TRUE is extended
          Failed,      \* a refused response
          MaxLines,    \* lines of an answer of any lines, at most
          MaxFaults,   \* lines lost, repeated or exchanged, at most
          LongMessage, \* bytes of a message in many lines
          AddressWidth,\* bits of a network address
          MarkedBytes, \* bytes a serial device sends
          MaxChars,    \* characters received, at most
          StreamTotal, \* samples of a capture
          StreamBuffer,\* samples in the Pico driver's buffer
          MaxPolls     \* polls of a capture, at most

(* Sequence numbers begin again after sixteen lines, which tells lines of  *)
(* one message apart when none is displaced by eight; a message has twelve *)
(* bits of length.                                                         *)
ASSUME AnswersAssumption == MaxFaults \in 0..7 /\ LongMessage \in 0..4095
ASSUME MarksAssumption == MarkedBytes \subseteq 0..255
ASSUME WidthAssumption == AddressWidth \in Nat
ASSUME StreamAssumption == StreamTotal \in Nat \ {0} /\ StreamBuffer \in Nat \ {0}

Can == INSTANCE CanFrames
Tp == INSTANCE IsoTp
Marks == INSTANCE ParityMarks
Pico == INSTANCE PicoStream
Traffic == INSTANCE CanTraffic WITH Refused <- Failed
Modbus == INSTANCE ModbusAnswer WITH Refused <- Failed, Width <- AddressWidth

VARIABLES subject, input

vars == <<subject, input>>
--------------------------------------------------------------------------------
(* CAN traces: up to MaxFrames frames, or one frame with one bit inverted  *)
(* or one end cut off.                                                     *)

MaxFrames == 2
Wirings == {<<0, 1>>, <<0, -1>>, <<-1, 1>>, <<1, -1>>}   \* recessive and dominant level
Gaps == {0, 5}                                           \* idle beyond the intermission

CanFrame(identifier, extended, remote, dlc, payload, ack) ==
  [identifier |-> identifier, extended |-> extended, remote |-> remote, dlc |-> dlc,
   payload |-> payload, ack |-> ack]

CanFrameSet ==
  {CanFrame(257, FALSE, FALSE, 2, <<0, 255>>, TRUE),
   CanFrame(2031, FALSE, TRUE, 3, <<>>, TRUE),
   CanFrame(5, FALSE, FALSE, 9, <<255, 255, 0, 0, 170, 85, 7, 248>>, FALSE),
   CanFrame(3, FALSE, FALSE, 1, <<129>>, TRUE),
   CanFrame(305419896, TRUE, FALSE, 1, <<31>>, TRUE)}

(* The simulator's network: engine and vehicle speed. *)
SimFrames ==
  {CanFrame(418384897, TRUE, FALSE, 8, <<17, 34, 51, 68, 85, 102, 119, 136>>, TRUE),
   CanFrame(419352832, TRUE, FALSE, 8, <<136, 119, 102, 85, 68, 51, 34, 17>>, TRUE)}

FdIdentifier == 2910

Recessive(n) == [i \in 1..n |-> 1]

CanInit ==
  /\ subject = "can"
  /\ \E wiring \in Wirings :
       input = [bits |-> Recessive(12), sent |-> <<>>, fd |-> 0, wiring |-> wiring,
                damaged |-> FALSE]

CanSend(f, bits) ==
  /\ ~input.damaged /\ Len(input.sent) + input.fd < MaxFrames
  /\ \E gap \in Gaps :
       input' = [input EXCEPT !.bits = @ \o Recessive(gap) \o bits, !.sent = Append(@, f)]
  /\ UNCHANGED subject

CanSendFd(extended) ==
  /\ ~input.damaged /\ Len(input.sent) + input.fd < MaxFrames
  /\ input' = [input EXCEPT !.bits = @ \o Can!FdWire(FdIdentifier, extended, TRUE), !.fd = @ + 1]
  /\ UNCHANGED subject

Damageable ==
  /\ ~input.damaged /\ Len(input.sent) = 1 /\ input.fd = 0
  /\ input.wiring = <<0, 1>>

CanFlip(i) ==
  /\ Damageable
  /\ input' = [input EXCEPT !.bits[i] = 1 - @, !.damaged = TRUE]
  /\ UNCHANGED subject

(* The trace begins late or ends early. *)
CanCut(first, last) ==
  /\ Damageable
  /\ input' = [input EXCEPT !.bits = SubSeq(@, first, last), !.damaged = TRUE]
  /\ UNCHANGED subject

CanNext ==
  \/ \E f \in CanFrameSet : CanSend(f, Can!Wire(f))
  \/ \E f \in SimFrames : CanSend(f, Can!SimJ1939Frame(f.identifier, f.payload))
  \/ \E extended \in FdFormats : CanSendFd(extended)
  \/ \E i \in DOMAIN input.bits : CanFlip(i)
  \/ \E i \in 2..Len(input.bits) : CanCut(i, Len(input.bits))
  \/ \E i \in 1..(Len(input.bits) - 1) : CanCut(1, i)

CanTrace ==
  LET level == [bit \in {0, 1} |-> IF bit = 1 THEN input.wiring[1] ELSE input.wiring[2]]
  IN  [i \in DOMAIN input.bits |-> level[input.bits[i]]]

Content(f) == [f EXCEPT !.ack = TRUE]

(* One wrong bit, or an end cut off, may lose a frame but never turns it   *)
(* into another one: the checksum, the stuffing and the trailer see to it. *)
(* The acknowledge slot is not protected (can_analysis.py:177).            *)
CanFramesAreSent ==
  subject = "can" =>
    {Content(f) : f \in Range(Can!Decode(CanTrace).frames)} \subseteq
      {Content(f) : f \in Range(input.sent)}

(* An undamaged trace yields every classical frame, in order and with its  *)
(* acknowledgement, counts every CAN FD frame, and tells which way round   *)
(* the pair is wired, AC coupled or not (can_analysis.py:430, 1159).       *)
CanAllDecoded ==
  (subject = "can" /\ ~input.damaged) =>
    LET AsSent(decoded) ==
          /\ decoded.frames = input.sent
          /\ decoded.fd = input.fd
          /\ input.sent # <<>> =>
               decoded.polarity =
                 IF input.wiring[1] < input.wiring[2] THEN "expected" ELSE "reversed"
    IN  AsSent(Can!Decode(CanTrace))

(* The decode is neither more nor less than what was on the bus.           *)
CanDecodesWhatWasSent == CanFramesAreSent /\ CanAllDecoded

(* The survey's count of headers with a valid checksum and the decoder's   *)
(* frames come from two separate parsers (can_analysis.py:144 and 177):    *)
(* a decoded frame is never missing from the survey, and in an undamaged   *)
(* trace they agree.                                                       *)
SurveyAgreesWithDecoder ==
  subject = "can" =>
    LET Agree(decoded, headers) ==
          /\ \A f \in Range(decoded) : \E h \in Range(headers) :
               <<f.identifier, f.extended>> = <<h.header.identifier, h.header.extended>>
          /\ (~input.damaged /\ input.wiring[1] < input.wiring[2]) =>
               Len(decoded) = Len(headers)
    IN  Agree(Can!Orientation(CanTrace).frames,
              SelectSeq(Can!Headers(CanTrace), LAMBDA h : h.valid))

(* docs/architecture.md:131: CAN FD candidates are counted as unsupported. *)
FdIsUnsupported == (subject = "can" /\ ~input.damaged) => Can!Decode(CanTrace).fd = input.fd
--------------------------------------------------------------------------------
(* Adapter answers.  Free: any lines out of those that two ECUs send, in   *)
(* any order and number up to MaxLines.  Kept: the whole answer with up to *)
(* MaxFaults lines lost, repeated or exchanged with the next.              *)

CodesOf == [a |-> [i \in 1..6 |-> <<1, i>>], b |-> <<<<2, 7>>, <<2, 8>>, <<2, 9>>>>]
VinOf(byte) == <<73, 2, 1>> \o [i \in 1..17 |-> IF i = 9 THEN byte ELSE 50]

Whole(messages, first, second) ==
  Tp!Segmented(first, messages[first]) \o
    IF second \in DOMAIN messages THEN Tp!Segmented(second, messages[second]) ELSE <<>>

(* A message long enough for the sequence number to begin again, and VINs. *)
KeptMessages ==
  {[a |-> [i \in 1..LongMessage |-> i % 256]],
   [a |-> VinOf(65), b |-> VinOf(65)], [a |-> VinOf(65), b |-> VinOf(66)]}

AnswerInit ==
  \/ /\ subject = "free"
     /\ \E ready \in SUBSET DOMAIN CodesOf :
          input = [lines |-> <<>>, ready |-> ready,
                   sent |-> [ecu \in DOMAIN CodesOf |-> Tp!CodesMessage(CodesOf[ecu])]]
  \/ /\ subject = "kept"
     /\ \E sent \in KeptMessages :
          input = [lines |-> Whole(sent, "a", "b"), sent |-> sent, faults |-> 0]

Receive(line) ==
  /\ Len(input.lines) < MaxLines
  /\ input' = [input EXCEPT !.lines = Append(@, line)]
  /\ UNCHANGED subject

Lines ==
  Range(Whole(input.sent, "a", "b")) \cup {Tp!NoData, Tp!AdapterError, Tp!Frame("a", <<48, 0, 0>>)}

Faulty(lines) ==
  /\ input.faults < MaxFaults
  /\ input' = [input EXCEPT !.lines = lines, !.faults = @ + 1]
  /\ UNCHANGED subject

Swapped(lines, i) == [lines EXCEPT ![i] = lines[i + 1], ![i + 1] = lines[i]]

AnswerNext ==
  \/ subject = "free" /\ \E line \in Lines : Receive(line)
  \/ subject = "kept" /\ \E i \in DOMAIN input.lines : Faulty(RemoveAt(input.lines, i))
  \/ subject = "kept" /\ \E i \in DOMAIN input.lines :
       Faulty(InsertAt(input.lines, i, input.lines[i]))
  \/ subject = "kept" /\ \E i \in 1..(Len(input.lines) - 1) : Faulty(Swapped(input.lines, i))

Answers == subject \in {"free", "kept"}

(* A payload that is accepted is the message its ECU sent, whatever was    *)
(* lost, repeated, reordered or interleaved (obd_protocol.py:106), and an  *)
(* ECU whose lines all arrive in order, once, is decoded, whatever the     *)
(* other ECU's lines do (obd_service.py:254).                              *)
PayloadsAreSent ==
  Answers =>
    LET AsSent(payloads) ==
          /\ \A ecu \in DOMAIN payloads : payloads[ecu] = input.sent[ecu]
          /\ \A ecu \in DOMAIN input.sent :
               Tp!Own(input.lines, ecu) = Tp!Segmented(ecu, input.sent[ecu])
                 => ecu \in DOMAIN payloads
        Sound(scoped) == scoped # Failed => AsSent(scoped.payloads)
    IN  Sound(Tp!Scoped(input.lines))

(* Where an answer stands: free, every line is one of those that are sent; *)
(* kept, every line stands no further from its place in the whole answer   *)
(* than there were faults.                                                 *)
Displaced(lines, whole, faults) ==
  \A k \in 1..Len(lines) : \E i \in 1..Len(whole) :
    i - k <= faults /\ k - i <= faults /\ lines[k] = whole[i]

AnswersKnown ==
  /\ subject = "free" =>
       /\ input.sent = [ecu \in DOMAIN CodesOf |-> Tp!CodesMessage(CodesOf[ecu])]
       /\ input = [lines |-> input.lines, ready |-> input.ready, sent |-> input.sent]
       /\ input.lines \in Seq(Lines)
  /\ subject = "kept" =>
       /\ input.sent \in KeptMessages /\ input.faults \in 0..MaxFaults
       /\ input = [lines |-> input.lines, sent |-> input.sent, faults |-> input.faults]
       /\ input.lines \in Seq(Range(Whole(input.sent, "a", "b")))
       /\ Displaced(input.lines, Whole(input.sent, "a", "b"), input.faults)

(* "complete" stored codes are all the codes of every ECU that reports how *)
(* many it has (obd_service.py:285): an ECU whose answer is missing or in  *)
(* error makes them partial.                                               *)
CompleteIsComplete ==
  subject = "free" =>
    LET ready == FlattenSeq(SetToSeq({Tp!Segmented(ecu, Tp!ReadinessMessage(CodesOf[ecu]))
                                        : ecu \in input.ready}))
        Complete(faults) ==
          (faults # Failed /\ faults.status = "complete") =>
            \A ecu \in input.ready :
              ecu \in DOMAIN faults.codes /\ faults.codes[ecu] = CodesOf[ecu]
    IN  Complete(Tp!StoredFaults(ready, input.lines))

(* A VIN is reported for the ECU that has it, a mismatch when two ECUs'    *)
(* VINs differ, and "complete" when nothing was wrong (obd_service.py:317).*)
VinsAreTheirs ==
  (subject = "kept" /\ "b" \in DOMAIN input.sent) =>
    LET Theirs(info) ==
          /\ \A ecu \in DOMAIN info.vins : info.vins[ecu] = SubSeq(input.sent[ecu], 4, 20)
          /\ DOMAIN info.vins = {"a", "b"} => info.mismatch = (input.sent["a"] # input.sent["b"])
          /\ input.faults = 0 => info.status = "complete" /\ DOMAIN info.vins = {"a", "b"}
    IN  Theirs(Tp!VehicleInfo(input.lines))
--------------------------------------------------------------------------------
(* Supported PIDs: one ECU with any of these, another with one of two sets.*)

PidPool == {12, 32, 40, 64, 96, 128, 160, 165, 192}

PidsInit ==
  /\ subject = "pids"
  /\ \E other \in {{}, {32, 45}, {13, 32, 64, 70}} : input = [a |-> {}, b |-> other]

Support(pid) ==
  /\ subject = "pids"
  /\ input' = [input EXCEPT !.a = @ \cup {pid}]
  /\ UNCHANGED subject

(* An ECU answers for the first page and for the pages it says it has.     *)
PageLines(page) ==
  LET answering == {ecu \in {"a", "b"} : input[ecu] # {} /\ (page = 0 \/ page \in input[ecu])}
      lines == FlattenSeq(SetToSeq({Tp!Segmented(ecu, Tp!BitmapMessage(page, input[ecu]))
                                      : ecu \in answering}))
  IN  IF lines = <<>> THEN <<Tp!NoData>> ELSE lines

(* A PID is discovered when its ECU says it has the PID's page and every   *)
(* page up to there is said to exist by an ECU (obd_service.py:172): no    *)
(* page is lost because the other ECU ends earlier.                        *)
PidsAreFound ==
  subject = "pids" =>
    LET Page(pid) == 32 * ((pid - 1) \div 32)
        Has(ecu, page) == page = 0 \/ page \in input[ecu]
        Exists(page) == \E ecu \in {"a", "b"} : {page} \subseteq input[ecu] /\ Has(ecu, page - 32)
        Reached(page) == \A p \in {32 * n : n \in 1..5} : p <= page => Exists(p)
        found == {pid \in input["a"] \cup input["b"] : \E ecu \in {"a", "b"} :
                    pid \in input[ecu] /\ Has(ecu, Page(pid)) /\ Reached(Page(pid))}
        answers == [page \in {32 * n : n \in 0..5} |-> PageLines(page)]
    IN  Tp!Discover(answers) = IF found = {} THEN Failed ELSE found

(* What the service reports of an ECU is that ECU's, and all of it when it *)
(* says so: fault codes, VINs and supported PIDs.                          *)
ReportsAreTheirs == CompleteIsComplete /\ VinsAreTheirs /\ PidsAreFound
--------------------------------------------------------------------------------
(* Received characters with the tty's marks, and reads of the wire: what   *)
(* was received, the bytes that makes, what is due of each number of       *)
(* characters, and how much was read, in how many reads.                   *)

Characters == {Marks!Char(byte, bad) : byte \in MarkedBytes, bad \in BOOLEAN}

MarksInit ==
  /\ subject = "marks"
  /\ input = [chars |-> <<>>, wire |-> <<>>, due |-> <<Marks!Nothing>>, read |-> 0, reads |-> 0,
              capture |-> Marks!Start]

ReceiveChar(char) ==
  /\ subject = "marks"
  /\ Len(input.chars) < MaxChars
  /\ input' = [input EXCEPT !.chars = Append(@, char), !.wire = @ \o Marks!Mark(char),
                            !.due = Append(@, Marks!Due(Last(@), char))]
  /\ UNCHANGED subject

(* One read takes as many of the bytes that are there as it happens to.    *)
ReadMarks(n) ==
  /\ LET block == SubSeq(input.wire, input.read + 1, input.read + n)
     IN  input' = [input EXCEPT !.read = @ + n, !.reads = IF n = 0 THEN @ ELSE @ + 1,
                                !.capture = Marks!ReadBlock(@, block)]
  /\ UNCHANGED subject

ReadNext == subject = "marks" /\ \E n \in 0..(Len(input.wire) - input.read) : ReadMarks(n)

(* The marks of the first k - 1 characters were read complete, no more.    *)
ReadWhole(k, due, read) ==
  /\ due[k].bytes <= read
  /\ k < Len(due) => read < due[k + 1].bytes

(* However the reads fall, what is recorded is what is due of the marks    *)
(* that were read complete, in one chunk for each read; a mark is said to  *)
(* be cut off exactly when the capture ends within one                     *)
(* (serial_capture.py:250).                                                *)
MarksSurviveSplits ==
  subject = "marks" =>
    \E k \in 1..Len(input.due) :
      /\ ReadWhole(k, input.due, input.read)
      /\ Marks!Recorded(input.capture) =
           [data |-> input.due[k].data, chunks |-> input.reads,
            marked |-> input.due[k].marked, breaks |-> input.due[k].breaks,
            truncated |-> IF input.due[k].bytes = input.read THEN 0 ELSE 1]

(* Each character's mark stands on the wire behind the ones before it.     *)
Wired(chars, wire, due) ==
  /\ chars \in Seq(Characters) /\ wire \in Seq(0..255)
  /\ due \in Seq(Marks!Accounts) /\ Len(due) = Len(chars) + 1
  /\ due[1] = Marks!Nothing /\ due[Len(due)].bytes = Len(wire)
  /\ \A k \in 1..Len(chars) :
       /\ due[k + 1] = Marks!Due(due[k], chars[k])
       /\ \A i \in 1..Len(Marks!Mark(chars[k])) :
            wire[due[k].bytes + i] = Marks!Mark(chars[k])[i]

(* A capture of the wire to this place has all that is due, and what is    *)
(* left of the wire pending.                                               *)
Captured(capture, k, due, wire, read) ==
  /\ capture = [pending |-> SubSeq(wire, due[k].bytes + 1, read), chunks |-> capture.chunks,
                marked |-> due[k].marked, breaks |-> due[k].breaks]
  /\ capture.chunks \in Seq(Seq(0..255)) /\ Marks!Joined(capture.chunks) = due[k].data

MarksKnown ==
  subject = "marks" =>
    /\ input = [chars |-> input.chars, wire |-> input.wire, due |-> input.due,
                read |-> input.read, reads |-> input.reads, capture |-> input.capture]
    /\ Wired(input.chars, input.wire, input.due)
    /\ input.read \in 0..Len(input.wire)
    /\ input.reads \in Nat /\ Len(input.capture.chunks) = input.reads
    /\ \E k \in 1..Len(input.due) :
         /\ ReadWhole(k, input.due, input.read)
         /\ Captured(input.capture, k, input.due, input.wire, input.read)
--------------------------------------------------------------------------------
(* Pico polls: the driver's segments follow each other around the buffer.  *)

Channels == {"A"}
Chunk == Pico!ChunkOf(StreamTotal, StreamBuffer)

StreamInit == subject = "pico" /\ input = [polls |-> <<>>, sent |-> 0]

Streaming ==
  /\ subject = "pico"
  /\ Len(input.polls) < MaxPolls
  /\ Pico!Capture(StreamTotal, StreamBuffer, input.polls).outcome = "running"

(* The driver hands over n new samples, and may hand over more than were   *)
(* asked for.                                                              *)
Deliver(n, overflow, stop) ==
  /\ Streaming
  /\ LET place == input.sent % Chunk
         samples == [i \in 1..n |-> input.sent + i]
     IN  /\ place + n <= Chunk
         /\ input' = [sent |-> input.sent + n,
                      polls |-> Append(input.polls,
                                       Pico!Poll(place + 1, samples, overflow, stop, "ok"))]
  /\ UNCHANGED subject

(* A poll that brings nothing, fails, or comes too late. *)
DeliverNothing(ended) ==
  /\ Streaming
  /\ input' = [input EXCEPT !.polls = Append(@, Pico!Poll(1, <<>>, {}, FALSE, ended))]
  /\ UNCHANGED subject

Overflowed(polls) == UNION {polls[i].overflow : i \in DOMAIN polls}

(* A capture that is returned has every sample once and in order, and      *)
(* names every channel that ever overflowed; one cut short is an error     *)
(* (pico.py:152, 185).                                                     *)
CaptureIsWhole ==
  subject = "pico" =>
    LET capture == Pico!Capture(StreamTotal, StreamBuffer, input.polls)
    IN  capture.outcome = "captured" =>
          /\ capture.samples = [i \in 1..StreamTotal |-> i]
          /\ capture.overflow = Overflowed(input.polls)

(* Where a capture stands: what was copied is what was sent first, what    *)
(* overflowed is remembered, and a capture that goes on has all there was. *)
StreamKnown ==
  subject = "pico" =>
    LET s == Pico!After(StreamTotal, Chunk, input.polls)
    IN  /\ input \in [polls : Seq(Pico!Polls(Chunk, Channels)), sent : Nat]
        /\ s \in Pico!Captures(Chunk, Channels) /\ Pico!Copied(s, StreamTotal)
        /\ s.overflow = Overflowed(input.polls)
        /\ Pico!Going(s, StreamTotal) => Len(s.complete) = input.sent

(* Acquisition loses and doubles nothing at the edges between reads.       *)
AcquisitionIsWhole == MarksSurviveSplits /\ CaptureIsWhole
--------------------------------------------------------------------------------
(* Frames of two identifiers in a trace, and two decodes to compare.       *)

MaxTraffic == 4

TrafficFrames ==
  {<<1, FALSE, FALSE, <<0>>>>, <<1, FALSE, FALSE, <<3, 1>>>>, <<1, FALSE, TRUE, <<0>>>>,
   <<1, TRUE, FALSE, <<1, 1>>>>, <<1, TRUE, FALSE, <<6, 1>>>>}

TrafficInit ==
  /\ subject = "traffic"
  /\ \E first \in {0, 1} : input = [frames |-> <<>>, next |-> first]

(* The next frame follows at once or after a pause. *)
See(f, pause) ==
  /\ subject = "traffic"
  /\ Len(input.frames) < MaxTraffic
  /\ input' = [frames |-> Append(input.frames, Traffic!Frame(f[1], f[2], f[3], f[4], input.next)),
               next |-> input.next + 1 + pause]
  /\ UNCHANGED subject

(* The trace ends within the last frame or after it. *)
TraceEnds == {10 * input.next - 2, 10 * input.next + 5}

(* A summary loses no frame and no change (can_analysis.py:511): counts    *)
(* add up, a change of length is counted as a change of length, and when   *)
(* an identifier only sends data of one length, each bit has changed an    *)
(* odd number of times exactly when the first and last payload differ.     *)
TrafficAddsUp ==
  subject = "traffic" =>
    LET frames == input.frames
        summaries == Traffic!Summaries(frames)
        Own(s) == Traffic!Observed(frames, s.key)
        DataOnly(s) == \A f \in Range(Own(s)) : ~f.remote
        Length(f) == Len(f.payload)
        SameLength(s) == \A f, g \in Range(Own(s)) : Length(f) = Length(g)
    IN  /\ FoldLeft(LAMBDA sum, s : sum + s.count, 0, summaries) = Len(frames)
        /\ summaries = Traffic!Summaries(Reverse(frames))
        /\ \A s \in Range(summaries) :
             /\ s.changes <= s.comparedChanges + s.dlcChanges + s.remoteChanges
             /\ s.compared + s.remoteChanges < s.count
             /\ DataOnly(s) =>
                  s.introduced - s.removed = Length(Last(Own(s))) - Length(Head(Own(s)))
             /\ (DataOnly(s) /\ SameLength(s)) =>
                  \A b \in 1..Length(Head(Own(s))), k \in 1..8 :
                    (s.bits[b][k] % 2 = 1) <=>
                      Traffic!Bit(Head(Own(s)).payload[b], k) #
                        Traffic!Bit(Last(Own(s)).payload[b], k)

(* The wire is occupied by the frames that lie within the trace, each      *)
(* sample counted once (can_analysis.py:713).                              *)
OccupancyIsUnion ==
  subject = "traffic" =>
    \A size \in TraceEnds :
      Traffic!Occupied(input.frames, size) =
        Cardinality(UNION {f.from..(f.to - 1) :
          f \in {g \in Range(input.frames) : g.from > 0 /\ g.to < size}})

(* What a limit leaves out ranks after what is shown, and a filter is      *)
(* applied before the limit (can_analysis.py:893, "selection_policy").     *)
HeatmapShowsTheMost ==
  subject = "traffic" =>
    \A limit \in 1..2, changingOnly \in BOOLEAN :
      LET summaries == Traffic!Summaries(input.frames)
          map == Traffic!Heatmap(summaries, changingOnly, limit)
          wanted == {s \in Range(summaries) : changingOnly => s.changes > 0}
          shown == Range(map.rows)
      IN  /\ shown \subseteq wanted
          /\ Len(map.rows) = Min({limit, Cardinality(wanted)})
          /\ map.truncated = (shown # wanted)
          /\ \A s \in shown, t \in wanted \ shown : Traffic!RankedBefore(s, t)

CompareKeys == {<<1, FALSE>>, <<1, TRUE>>, <<2, FALSE>>, <<3, FALSE>>}

DecodeOf(run, keys) ==
  LET sorted == SetToSeq(keys)
  IN  [run |-> run, settings |-> "settings",
       frames |-> [i \in DOMAIN sorted |->
                     Traffic!Frame(sorted[i][1], sorted[i][2], FALSE, <<0>>, i)]]

CompareInit == subject = "compare" /\ input = [before |-> {}, after |-> {}]

SeeIn(which, key) ==
  /\ subject = "compare"
  /\ input' = [input EXCEPT ![which] = @ \cup {key}]
  /\ UNCHANGED subject

(* Every identifier of either decode is shown where it belongs, unless the *)
(* list it belongs to says that it is cut (can_analysis.py:1094).          *)
ComparisonHidesNothing ==
  subject = "compare" =>
    \A limit \in 1..2 :
      LET result == Traffic!Compare(DecodeOf(1, input.before), DecodeOf(2, input.after), limit)
          Tells(list, keys) ==
            /\ Range(list.shown) \subseteq keys
            /\ list.total = Cardinality(keys)
            /\ list.truncated = (Range(list.shown) # keys)
      IN  /\ Tells(result.common, input.before \cap input.after)
          /\ Tells(result.baselineOnly, input.before \ input.after)
          /\ Tells(result.candidateOnly, input.after \ input.before)

(* What is shown of a decode accounts for all of it.                       *)
TrafficIsAccounted ==
  TrafficAddsUp /\ OccupancyIsUnion /\ HeatmapShowsTheMost /\ ComparisonHidesNothing
--------------------------------------------------------------------------------
(* A Modbus server's answer, of which one byte may be changed, lost or     *)
(* sent twice, or the end may be missing.                                  *)

ProbeId == 258
ProbeUnit == 1
Texts == {<<>>, <<65>>, <<65, 0>>, <<32>>}

DeviceInit ==
  /\ subject = "device"
  /\ input \in [objects : {<<<<0, text>>>> : text \in Texts}, bytes : {<<>>}, damaged : {FALSE},
                answer : {Failed}]

Describe(text) ==
  /\ subject = "device" /\ input.bytes = <<>> /\ Len(input.objects) < 3
  /\ input' = [input EXCEPT !.objects = Append(@, <<Len(@), text>>)]
  /\ UNCHANGED subject

IdentityOf(objects, more) ==
  [level |-> 1, more |-> more, next |-> IF more THEN Len(objects) ELSE 0, objects |-> objects]

Reply(more) ==
  /\ subject = "device" /\ input.bytes = <<>>
  /\ LET identity == IdentityOf(input.objects, more)
     IN  input' = [input EXCEPT !.bytes = Modbus!Answer(identity, ProbeId, ProbeUnit),
                                !.answer = identity]
  /\ UNCHANGED subject

ReplyException(code) ==
  /\ subject = "device" /\ input.bytes = <<>>
  /\ input' = [input EXCEPT !.bytes = Modbus!Exception(code, ProbeId, ProbeUnit),
                            !.answer = [exception |-> code]]
  /\ UNCHANGED subject

Garble(i) ==
  /\ subject = "device" /\ ~input.damaged
  /\ \E bytes \in {ReplaceAt(input.bytes, i, b) : b \in {0, 1, 2, 4, 129, 255}}
                 \cup {RemoveAt(input.bytes, i), SubSeq(input.bytes, 1, i - 1),
                       SubSeq(input.bytes, 1, i) \o SubSeq(input.bytes, i, Len(input.bytes))} :
       input' = [input EXCEPT !.bytes = bytes, !.damaged = TRUE]
  /\ UNCHANGED subject

(* A sound answer is read as it was meant; a damaged one is either refused *)
(* or says, byte for byte, what is then reported; and what is missing is   *)
(* not made up (modbus_discovery.py:217, 256).                             *)
IdentitiesAreTheirs ==
  (subject = "device" /\ input.answer # Failed) =>
    LET probe == Modbus!Probe(input.bytes, "eof", ProbeId, ProbeUnit)
        read == probe.parsed
    IN  /\ ~input.damaged => read = input.answer
        /\ probe.outcome = "confirmed_identity" =>
             IsPrefix(Modbus!Answer(read, ProbeId, ProbeUnit), input.bytes)
        /\ probe.outcome = "confirmed_exception" =>
             IsPrefix(Modbus!Exception(read.exception, ProbeId, ProbeUnit), input.bytes)
        /\ Modbus!DeviceState(probe) = "identity_confirmed" => Len(read.objects) = 3

(* The bytes of an undamaged answer are those that were meant; of a        *)
(* damaged one nothing is known.                                           *)
DevicesKnown ==
  subject = "device" =>
    /\ input = [objects |-> input.objects, bytes |-> input.bytes, damaged |-> input.damaged,
                answer |-> input.answer]
    /\ input.objects \in Seq((0..2) \X Texts) /\ Len(input.objects) \in 1..3
    /\ \A i \in DOMAIN input.objects : input.objects[i][1] = i - 1
    /\ input.bytes \in Seq(0..255) /\ input.damaged \in BOOLEAN
    /\ ~input.damaged =>
         \/ input.bytes = <<>> /\ input.answer = Failed
         \/ \E more \in BOOLEAN :
              /\ input.answer = IdentityOf(input.objects, more)
              /\ input.bytes = Modbus!Answer(input.answer, ProbeId, ProbeUnit)
         \/ \E code \in {1, 11} :
              /\ input.answer = [exception |-> code]
              /\ input.bytes = Modbus!Exception(code, ProbeId, ProbeUnit)

(* An interface's address, its network and the cap on hosts.               *)
ScopesInit ==
  /\ subject = "scopes"
  /\ input \in [address : {0}, prefix : 0..(AddressWidth - 2), maxHosts : {2, 5, 6, 14}]

Renumber ==
  /\ subject = "scopes" /\ input.address + 1 < 2^AddressWidth
  /\ input' = [input EXCEPT !.address = @ + 1]
  /\ UNCHANGED subject

ScopesKnown ==
  subject = "scopes" =>
    input \in [address : Nat, prefix : 0..(AddressWidth - 2), maxHosts : {2, 5, 6, 14}]

(* The scope offered for an ordinary private network holds the interface's *)
(* address, is accepted when it is asked for, and is as wide as the cap    *)
(* allows (modbus_discovery.py:448, 497).                                  *)
ScopesAreScannable ==
  subject = "scopes" =>
    LET connected == Modbus!NetworkOf(input.address, input.prefix)
        scope == Modbus!BoundedScope(input.address, input.prefix, input.maxHosts)
        wider == Modbus!NetworkOf(input.address, scope.prefix - 1)
    IN  /\ input.address \in Modbus!AddressesOf(scope)
        /\ Modbus!Scannable(scope, {connected}, input.maxHosts)
        /\ scope # connected => ~Modbus!Scannable(wider, {connected}, input.maxHosts)

(* Where discovery asks and what it makes of the answers.                  *)
DiscoveryIsSound == IdentitiesAreTheirs /\ ScopesAreScannable
--------------------------------------------------------------------------------
Init ==
  /\ subject \in Subjects
  /\ CanInit \/ AnswerInit \/ PidsInit \/ MarksInit \/ StreamInit \/ TrafficInit \/ CompareInit
     \/ DeviceInit \/ ScopesInit

Next ==
  \/ subject = "can" /\ CanNext
  \/ AnswerNext
  \/ \E pid \in PidPool : Support(pid)
  \/ \E char \in Characters : ReceiveChar(char)
  \/ ReadNext
  \/ \E n \in 1..StreamBuffer, overflow \in SUBSET Channels, stop \in BOOLEAN :
       Deliver(n, overflow, stop)
  \/ \E ended \in {"ok", "error", "late"} : DeliverNothing(ended)
  \/ \E f \in TrafficFrames, pause \in {0, 1} : See(f, pause)
  \/ \E text \in Texts : Describe(text)
  \/ \E more \in BOOLEAN : Reply(more)
  \/ \E code \in {1, 11} : ReplyException(code)
  \/ subject = "device" /\ \E i \in DOMAIN input.bytes : Garble(i)
  \/ Renumber
  \/ \E which \in {"before", "after"}, key \in CompareKeys : SeeIn(which, key)

Spec == Init /\ [][Next]_vars
================================================================================
