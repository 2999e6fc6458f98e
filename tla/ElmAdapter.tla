-------------------------------- MODULE ElmAdapter --------------------------------
(***************************************************************************)
(* The OBD adapter on its serial port: who owns it, and whose answer is    *)
(* read (obd_provider.py's ELMSerialProvider under obd_service.py).        *)
(*                                                                         *)
(* Several processes may want the adapter.  One takes a lock file, opens   *)
(* the port, runs a script of commands and files the connection; it then   *)
(* reads live values until it disconnects.  An exchange clears the input,  *)
(* writes one command and reads until a prompt arrives or its time is up.  *)
(* The adapter (external) knows nothing of all this: it answers every      *)
(* command it took, in order, as late as it likes, or never; an answer     *)
(* that comes late is in the input of whatever is asked next.              *)
(***************************************************************************)
EXTENDS Integers, Sequences, FiniteSets, SequencesExt

CONSTANTS Procs,     \* the processes that use the adapter
          Nobody,    \* none of them
          Backlog    \* commands the adapter keeps while it answers

ASSUME AdapterAssumption == Nobody \notin Procs /\ Backlog \in Nat \ {0}

VARIABLES
  lock, port,   \* who holds the lock file, who has the port open
  owed,         \* commands the adapter has still to answer
  input,        \* answers that arrived and were not read
  connected,    \* does the process' service have a provider?
  script, pc,   \* each process' commands still to send, and its step
  reported      \* the live values read last

vars == <<lock, port, owed, input, connected, script, pc, reported>>

adapter == <<owed, input>>
process == <<connected, script, pc, reported>>
--------------------------------------------------------------------------------
(* What is asked.  One command stands for those treated alike: eleven of   *)
(* set-up, five of identity, the PIDs.                                     *)

Live == <<"rpm", "speed">>
Connecting == <<"sync", "reset", "setup", "identify", "proof", "number", "voltage", "discover">>
Goodbye == <<"close">>

(* Commands the vehicle answers; the others are the adapter's own.         *)
Vehicle == {"proof", "discover", "rpm", "speed"}
Commands == Range(Live) \cup Range(Connecting) \cup Range(Goodbye)

(* A command taken: which, and over an earlier connection?  An answer to   *)
(* one may be an error.                                                    *)
Commissions == [of : Commands, old : BOOLEAN]
Answers == [of : Commands, old : BOOLEAN, error : BOOLEAN]

Init ==
  /\ lock = Nobody /\ port = Nobody
  /\ owed = <<>> /\ input = <<>>
  /\ connected = [p \in Procs |-> FALSE]
  /\ script = [p \in Procs |-> <<>>]
  /\ pc = [p \in Procs |-> "idle"]
  /\ reported = [p \in Procs |-> {}]

(* parse_elm_response: an error or a line that is not a vehicle's makes    *)
(* the whole text unreadable; "OK" is passed over.                         *)
Readable(got) == \A i \in DOMAIN got : ~got[i].error /\ got[i].of \in Vehicle \cup {"setup"}

Frames(got) == {i \in DOMAIN got : got[i].of \in Vehicle}

(* Of several frames by one responder, the last one counts.                *)
Counting(got) == {got[i] : i \in {i \in Frames(got) : \A j \in Frames(got) : j <= i}}

(* Proof and discovery both ask for PID 00.                                *)
Same(asked, of) == of = asked \/ {asked, of} \subseteq {"proof", "discover"}

Matches(asked, got) == \E frame \in Counting(got) : Same(asked, frame.of)

(* What the script goes on with.  The vehicle has to answer the proof; the *)
(* digit of the protocol has to end the text, which a late frame may do.   *)
Accepts(asked, got) ==
  CASE asked = "setup" -> \A i \in DOMAIN got : ~got[i].error
    [] asked = "proof" -> Readable(got) /\ Frames(got) # {}
    [] asked = "number" -> ~Last(got).error /\ Last(got).of \in Vehicle \cup {"number"}
    [] asked = "discover" -> Readable(got) /\ Matches(asked, got)
    [] asked \in {"rpm", "speed"} -> Readable(got)
    [] OTHER -> TRUE
--------------------------------------------------------------------------------
(* The adapter. *)

(* The next answer arrives, if the port is open; it may be an error, or    *)
(* stay out altogether.                                                    *)
Answer ==
  /\ owed # <<>>
  /\ owed' = Tail(owed)
  /\ \/ UNCHANGED input
     \/ /\ port # Nobody
        /\ \E error \in BOOLEAN :
             input' = Append(input, [of |-> owed[1].of, old |-> owed[1].old, error |-> error])
  /\ UNCHANGED <<lock, port, process>>
--------------------------------------------------------------------------------
Goto(p, step) == pc' = [pc EXCEPT ![p] = step]

(* OBDService.connect and ELMSerialProvider.connect; another process'      *)
(* lock is an error before there is anything to clean up.                  *)
Connect(p) ==
  /\ pc[p] = "idle" /\ ~connected[p]
  /\ lock = Nobody
  /\ lock' = p
  /\ Goto(p, "open")
  /\ UNCHANGED <<port, adapter, connected, script, reported>>

(* The port opens, with an empty input, unless it is in use or gone.       *)
OpenPort(p) ==
  /\ pc[p] = "open"
  /\ \/ /\ port = Nobody
        /\ port' = p /\ input' = <<>>
        /\ owed' = [i \in DOMAIN owed |-> [owed[i] EXCEPT !.old = TRUE]]
        /\ script' = [script EXCEPT ![p] = Connecting] /\ Goto(p, "send")
     \/ Goto(p, "close") /\ UNCHANGED <<port, adapter, script>>
  /\ UNCHANGED <<lock, connected, reported>>

(* Mutant: connect leaves the adapter to the caller when it fails.         *)
GiveUpHolding(p) == IF connected[p] THEN "idle" ELSE IF script[p] = Goodbye THEN "close" ELSE "idle"

(* Where an operation that fails goes on.  The provider's connect          *)
(* releases the adapter; after it the service's does so by a disconnect,   *)
(* and a disconnect goes on releasing.  A read leaves the connection.      *)
GiveUp(p) ==
  IF script[p] = Goodbye THEN "close"
  ELSE IF connected[p] THEN "idle"
  ELSE IF script[p] \in {<<>>, <<"discover">>} THEN "goodbye" ELSE "close"

Failing(p) ==
  /\ Goto(p, IF GiveUp(p) = "goodbye" THEN "send" ELSE GiveUp(p))
  /\ script' = [script EXCEPT ![p] = IF GiveUp(p) = "goodbye" THEN Goodbye ELSE <<>>]
  /\ reported' = [reported EXCEPT ![p] = {}]

(* Mutant: the input is not cleared.                                       *)
SendAfterAll(p) ==
  /\ pc[p] = "send"
  /\ owed' = IF Len(owed) < Backlog THEN Append(owed, [of |-> script[p][1], old |-> FALSE])
             ELSE owed
  /\ Goto(p, "read")
  /\ UNCHANGED <<input, script, lock, port, connected, reported>>

(* _exchange: the input is cleared and the command written, if it can be.  *)
Send(p) ==
  /\ pc[p] = "send"
  /\ input' = <<>>
  /\ \/ /\ owed' = IF Len(owed) < Backlog THEN Append(owed, [of |-> script[p][1], old |-> FALSE])
                   ELSE owed
        /\ Goto(p, "read") /\ UNCHANGED <<script, reported>>
     \/ Failing(p) /\ UNCHANGED owed
  /\ UNCHANGED <<lock, port, connected>>

(* Mutant: the PID of the answer is not compared.                          *)
ValueOfAny(asked, got) == {[asked |-> asked, from |-> frame] : frame \in Counting(got)}

(* read_live: a value, if the frame that counts is of the PID asked for.   *)
Value(asked, got) ==
  {[asked |-> asked, from |-> frame] : frame \in {f \in Counting(got) : Same(asked, f.of)}}

(* _exchange: a read takes all that arrived and the caller looks at it.    *)
Read(p) ==
  LET asked == script[p][1]
  IN  /\ pc[p] = "read" /\ input # <<>>
      /\ input' = <<>>
      /\ IF Accepts(asked, input)
           THEN /\ script' = [script EXCEPT ![p] = Tail(@)]
                /\ reported' = [reported EXCEPT ![p] = IF asked \in Range(Live)
                                                         THEN @ \cup Value(asked, input) ELSE @]
                /\ Goto(p, IF Len(script[p]) > 1 THEN "send"
                           ELSE CASE asked = "discover" -> "file"
                                  [] asked = "close" -> "close"
                                  [] OTHER -> "idle")
           ELSE Failing(p)
      /\ UNCHANGED <<owed, lock, port, connected>>

(* Mutant: the deadline is looked at when something arrives.               *)
TimeoutOnInput(p) ==
  /\ pc[p] = "read" /\ input # <<>>
  /\ Failing(p)
  /\ UNCHANGED <<lock, port, adapter, connected>>

(* The time is up; the answer may arrive any moment.                       *)
Timeout(p) ==
  /\ pc[p] = "read"
  /\ Failing(p)
  /\ UNCHANGED <<lock, port, adapter, connected>>

(* The connection is filed, or the service takes leave of the adapter.     *)
File(p) ==
  /\ pc[p] = "file"
  /\ \/ connected' = [connected EXCEPT ![p] = TRUE] /\ Goto(p, "idle")
        /\ UNCHANGED <<script, reported>>
     \/ Failing(p) /\ UNCHANGED connected
  /\ UNCHANGED <<lock, port, adapter>>

ReadLive(p) ==
  /\ pc[p] = "idle" /\ connected[p]
  /\ script' = [script EXCEPT ![p] = Live] /\ reported' = [reported EXCEPT ![p] = {}]
  /\ Goto(p, "send")
  /\ UNCHANGED <<lock, port, adapter, connected>>

Disconnect(p) ==
  /\ pc[p] = "idle" /\ connected[p]
  /\ script' = [script EXCEPT ![p] = Goodbye]
  /\ Goto(p, "send")
  /\ UNCHANGED <<lock, port, adapter, connected, reported>>

(* _release, whatever any step of it raises: the port, then the lock; the  *)
(* service forgets the provider.                                           *)
Release(p) ==
  \/ /\ pc[p] = "close"
     /\ IF port = p THEN port' = Nobody /\ input' = <<>> ELSE UNCHANGED <<port, input>>
     /\ Goto(p, "unlock")
     /\ UNCHANGED <<lock, owed, connected, script, reported>>
  \/ /\ pc[p] = "unlock"
     /\ lock' = Nobody
     /\ connected' = [connected EXCEPT ![p] = FALSE] /\ script' = [script EXCEPT ![p] = <<>>]
     /\ reported' = [reported EXCEPT ![p] = {}]
     /\ Goto(p, "idle")
     /\ UNCHANGED <<port, adapter>>

(* A process dies and the kernel closes its files.                         *)
Die(p) ==
  /\ pc[p] # "idle" \/ connected[p]
  /\ IF port = p THEN port' = Nobody /\ input' = <<>> ELSE UNCHANGED <<port, input>>
  /\ lock' = IF lock = p THEN Nobody ELSE lock
  /\ connected' = [connected EXCEPT ![p] = FALSE] /\ script' = [script EXCEPT ![p] = <<>>]
  /\ reported' = [reported EXCEPT ![p] = {}]
  /\ Goto(p, "idle")
  /\ UNCHANGED owed
--------------------------------------------------------------------------------
Step(p) ==
  OpenPort(p) \/ Send(p) \/ Read(p) \/ Timeout(p) \/ File(p) \/ Release(p)

Next ==
  \/ Answer
  \/ \E p \in Procs : Connect(p) \/ ReadLive(p) \/ Disconnect(p) \/ Step(p) \/ Die(p)

Spec == Init /\ [][Next]_vars

(* A process that has begun goes on, and its deadlines pass. *)
FairSpec == Spec /\ \A p \in Procs : WF_vars(Step(p))
--------------------------------------------------------------------------------
(* The type invariant; what arrived since the last command was owed then.  *)
TypeOK ==
  /\ lock \in Procs \cup {Nobody} /\ port \in Procs \cup {Nobody}
  /\ input \in Seq(Answers) /\ owed \in Seq(Commissions)
  /\ Len(owed) <= Backlog /\ Len(input) <= Backlog
  /\ connected \in [Procs -> BOOLEAN]
  /\ pc \in [Procs -> {"idle", "open", "send", "read", "file", "close", "unlock"}]
  /\ script \in [Procs -> Suffixes(Connecting) \cup Suffixes(Live) \cup Suffixes(Goodbye)]
  /\ reported \in [Procs -> SUBSET [asked : Commands, from : Answers]]

(* Who holds the lock finds the port free or its own: the port is closed   *)
(* before the lock is given up, however the operation ended; and between   *)
(* operations a process owns the adapter just when its service says it is  *)
(* connected (obd_provider.py:314, obd_service.py:77, 125).                *)
OwnedWhileConnected ==
  /\ port # Nobody => lock = port
  /\ \A p \in Procs : pc[p] = "idle" => (connected[p] <=> lock = p) /\ (connected[p] <=> port = p)

(* A live value answers the PID it is filed under, however late answers    *)
(* come, and never a command of an earlier connection: every exchange of   *)
(* the script took at least one answer, and the script is longer than what *)
(* the adapter keeps (obd_provider.py:203, obd_service.py:216).            *)
ValuesAreOurs ==
  \A p \in Procs : \A value \in reported[p] :
    value.from.of = value.asked /\ ~value.from.old

(* An operation comes to an end, though the adapter stays silent           *)
(* (obd_provider.py:208).                                                  *)
OperationsEnd == \A p \in Procs : pc[p] # "idle" ~> pc[p] = "idle"
--------------------------------------------------------------------------------
(* Why the invariants hold: what each step of a process says of the lock,  *)
(* the port, its script, and of the answers to an earlier connection.      *)

(* A process has the lock while it does something or is connected, and the *)
(* port from its opening until it is closed.                               *)
Holder(p) ==
  /\ lock = p <=> pc[p] # "idle" \/ connected[p]
  /\ pc[p] = "idle" => (connected[p] <=> port = p)
  /\ pc[p] \in {"open", "unlock"} => port # p
  /\ pc[p] \in {"send", "read", "file"} => port = p

(* It is in the middle of the script that its step belongs to.             *)
ScriptAt(p) ==
  /\ pc[p] \in {"send", "read"} =>
       /\ script[p] # <<>>
       /\ \/ script[p] \in Suffixes(Goodbye)
          \/ connected[p] /\ script[p] \in Suffixes(Live)
          \/ ~connected[p] /\ script[p] \in Suffixes(Connecting)
  /\ pc[p] \in {"open", "file"} => ~connected[p]

(* How many of the connection's commands were certainly answered: each of  *)
(* them took an answer, perhaps to an earlier one.                         *)
Answered(p) ==
  IF connected[p] \/ pc[p] = "file" THEN Len(Connecting)
  ELSE IF pc[p] \in {"send", "read"} /\ script[p] \in Suffixes(Connecting)
         THEN Len(Connecting) - Len(script[p])
  ELSE 0

(* Only the first n answers to come belong to an earlier connection.       *)
OldWithin(n) ==
  /\ \A i \in DOMAIN input : input[i].old => i <= n
  /\ \A i \in DOMAIN owed : owed[i].old => Len(input) + i <= n

IInv ==
  /\ TypeOK
  /\ Len(input) + Len(owed) <= Backlog
  /\ port # Nobody => lock = port
  /\ \A p \in Procs : Holder(p) /\ ScriptAt(p)
  /\ \A p \in Procs : port = p => OldWithin(Backlog - Answered(p))
  /\ \A p \in Procs : \A value \in reported[p] :
       /\ value.from.of = value.asked
       /\ Backlog <= Len(Connecting) => ~value.from.old
================================================================================
