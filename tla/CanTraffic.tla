------------------------------- MODULE CanTraffic --------------------------------
(***************************************************************************)
(* What is said of the frames of a CAN trace (can_analysis.py): a summary  *)
(* of each identifier, the share of the trace that frames occupy, a        *)
(* matrix of bit changes, and the comparison of two decodes.               *)
(* A frame carries when it was seen, the samples it spans, and its         *)
(* content; rates, periods and voltages are left out.                      *)
(***************************************************************************)
EXTENDS Integers, Sequences, FiniteSets, FiniteSetsExt, SequencesExt

Frame(identifier, extended, remote, payload, time) ==
  [identifier |-> identifier, extended |-> extended, remote |-> remote,
   dlc |-> Len(payload), payload |-> IF remote THEN <<>> ELSE payload,
   time |-> time, from |-> 10 * time, to |-> 10 * time + 8]

Key(f) == <<f.identifier, f.extended>>
Keys(frames) == {Key(frames[i]) : i \in DOMAIN frames}

(* Identifier first, standard before extended. *)
KeyBefore(a, b) == a[1] < b[1] \/ (a[1] = b[1] /\ ~a[2] /\ b[2])

InTime(frames) == SortSeq(frames, LAMBDA f, g : f.time < g.time)

(* The frames of one identifier, in time. *)
Observed(frames, key) == SelectSeq(InTime(frames), LAMBDA f : Key(f) = key)

Transitions(observed) == {i \in 2..Len(observed) : TRUE}
State(f) == <<f.remote, f.dlc, f.payload>>

(* Only two data frames have payloads to compare. *)
Comparable(observed) ==
  {i \in Transitions(observed) : ~observed[i - 1].remote /\ ~observed[i].remote}

Bit(byte, k) == (byte \div 2^(8 - k)) % 2

(* The comparable transitions where a byte both frames have changes, and   *)
(* where one of its bits does. *)
ByteChanges(observed, index) ==
  {i \in Comparable(observed) :
    /\ index <= Min({Len(observed[i - 1].payload), Len(observed[i].payload)})
    /\ observed[i - 1].payload[index] # observed[i].payload[index]}

BitChanges(observed, index, k) ==
  {i \in ByteChanges(observed, index) :
    Bit(observed[i - 1].payload[index], k) # Bit(observed[i].payload[index], k)}

Longest(observed) == Max({0} \cup {Len(observed[i].payload) : i \in DOMAIN observed})

(* Bytes that appear, or with the arguments exchanged disappear. *)
Grown(observed, i, j) == Max({0, Len(observed[j].payload) - Len(observed[i].payload)})

(* aggregate_can_identifiers, for one identifier. *)
Summary(frames, key) ==
  LET observed == Observed(frames, key)
      compared == Comparable(observed)
      size == Longest(observed)
      Total(Of(_)) == FoldSet(LAMBDA i, sum : sum + Of(i), 0, compared)
  IN  [key |-> key,
       count |-> Len(observed),
       changes |-> Cardinality({i \in Transitions(observed) :
                                 State(observed[i]) # State(observed[i - 1])}),
       dlcChanges |-> Cardinality({i \in Transitions(observed) :
                                    observed[i].dlc # observed[i - 1].dlc}),
       remoteChanges |-> Cardinality({i \in Transitions(observed) :
                                       observed[i].remote # observed[i - 1].remote}),
       compared |-> Cardinality(compared),
       comparedChanges |-> Cardinality(UNION {ByteChanges(observed, b) : b \in 1..size}),
       introduced |-> Total(LAMBDA i : Grown(observed, i - 1, i)),
       removed |-> Total(LAMBDA i : Grown(observed, i, i - 1)),
       bytes |-> [b \in 1..size |-> Cardinality(ByteChanges(observed, b))],
       bits |-> [b \in 1..size |-> [k \in 1..8 |-> Cardinality(BitChanges(observed, b, k))]]]

(* Its result is sorted. *)
Summaries(frames) ==
  LET keys == SetToSortSeq(Keys(frames), KeyBefore)
  IN  [i \in DOMAIN keys |-> Summary(frames, keys[i])]
--------------------------------------------------------------------------------
(* Mutant: the last interval is not added.                                 *)
OccupiedButLast(frames, size) ==
  LET whole == SelectSeq(InTime(frames), LAMBDA f : f.from > 0 /\ f.to < size)
  IN  FoldLeft(LAMBDA sum, f : sum + f.to - f.from, 0, IF whole = <<>> THEN <<>> ELSE Front(whole))

(* build_can_diagnostics: the sample intervals that frames occupy, those   *)
(* cut by an end of the trace left out.  The open interval is added to the *)
(* sum when one begins after its end, and at last.                         *)
Occupied(frames, size) ==
  LET whole == SelectSeq(InTime(frames), LAMBDA f : f.from > 0 /\ f.to < size)
      Join(s, f) ==
        IF s.to < 0 THEN [s EXCEPT !.from = f.from, !.to = f.to]
        ELSE IF f.from > s.to
               THEN [sum |-> s.sum + s.to - s.from, from |-> f.from, to |-> f.to]
               ELSE [s EXCEPT !.to = Max({@, f.to})]
      end == FoldLeft(Join, [sum |-> 0, from |-> -1, to |-> -1], whole)
  IN  end.sum + end.to - end.from

(* The matrix shows what changes most first. *)
RankedBefore(a, b) ==
  \/ a.changes > b.changes
  \/ a.changes = b.changes /\ a.count > b.count
  \/ a.changes = b.changes /\ a.count = b.count /\ KeyBefore(a.key, b.key)

(* build_can_payload_heatmap: identifiers filtered, ranked, then cut. *)
Heatmap(summaries, changingOnly, limit) ==
  LET filtered == SelectSeq(summaries, LAMBDA s : changingOnly => s.changes > 0)
      rows == SubSeq(SortSeq(filtered, RankedBefore), 1, Min({limit, Len(filtered)}))
  IN  [rows |-> rows, total |-> Len(filtered), truncated |-> Len(filtered) > Len(rows)]
--------------------------------------------------------------------------------
(* compare_can_decode_results, for two decodes [run, settings, frames]     *)
(* whose settings stand for all that has to be equal: identifiers seen in  *)
(* both and in one only, each list cut at the limit.                       *)

CONSTANT Refused   \* the comparison is an error

Listed(keys, limit) ==
  LET sorted == SetToSortSeq(keys, KeyBefore)
      shown == SubSeq(sorted, 1, Min({limit, Len(sorted)}))
  IN  [shown |-> shown, total |-> Len(sorted), truncated |-> Len(sorted) > Len(shown)]

Compare(baseline, candidate, limit) ==
  LET before == Keys(baseline.frames)
      after == Keys(candidate.frames)
  IN  IF baseline.run = candidate.run \/ baseline.settings # candidate.settings THEN Refused
      ELSE [common |-> Listed(before \cap after, limit),
            baselineOnly |-> Listed(before \ after, limit),
            candidateOnly |-> Listed(after \ before, limit)]
================================================================================
