----------------------------- MODULE ElmAdapterProofs -----------------------------
(* Proofs about ElmAdapter for any processes and any number of commands    *)
(* the adapter keeps.                                                      *)
EXTENDS ElmAdapter, SequenceTheorems, TLAPS

(* The commands of the three scripts. *)
LEMMA TheScripts ==
  /\ Live \in Seq(Commands) /\ Connecting \in Seq(Commands) /\ Goodbye \in Seq(Commands)
  /\ Live # <<>> /\ Connecting # <<>> /\ Goodbye # <<>>
  /\ Len(Live) = 2 /\ Len(Connecting) = 8 /\ Len(Goodbye) = 1
<1>1. Commands = {"rpm", "speed", "sync", "reset", "setup", "identify", "proof", "number",
                  "voltage", "discover", "close"}
  BY DEF Commands, Range, Live, Connecting, Goodbye
<1> QED
  BY <1>1 DEF Live, Connecting, Goodbye

(* The first and the last command of each, and which are live values.      *)
LEMMA TheCommands ==
  /\ Range(Live) = {"rpm", "speed"}
  /\ Range(Connecting) \cap Range(Live) = {}
  /\ Connecting[8] = "discover" /\ Live[2] = "speed" /\ Goodbye[1] = "close"
BY DEF Live, Connecting, Goodbye, Range

(* What is left of a script, its first command taken, is left of it too.   *)
LEMMA RestOfScript ==
  ASSUME NEW q \in Seq(Commands), q # <<>>, NEW s \in Suffixes(q), s # <<>>
  PROVE  /\ s \in Seq(Commands) /\ Len(s) \in 1..Len(q)
         /\ s[1] \in Range(q) /\ s[Len(s)] = q[Len(q)]
         /\ Tail(s) \in Suffixes(q) /\ Len(Tail(s)) = Len(s) - 1
<1>1. Len(q) \in Nat /\ Len(q) # 0
  BY EmptySeq
<1>2. PICK l \in 1..Len(q) : s = SubSeq(q, l, Len(q))
  BY DEF Suffixes
<1>3. \A i \in l..Len(q) : q[i] \in Commands
  BY <1>1, ElementOfSeq
<1>4. /\ s \in Seq(Commands) /\ Len(s) = Len(q) - l + 1
      /\ \A i \in 1..Len(q) - l + 1 : s[i] = q[l + i - 1]
  BY <1>1, <1>2, <1>3, SubSeqProperties
<1>5. Tail(s) = SubSeq(q, l + 1, Len(q))
  BY <1>1, <1>2, HeadTailOfSubSeq
<1>6. Tail(s) \in Suffixes(q)
  <2>1. CASE l = Len(q)
    BY <1>1, <1>5, <2>1, SubSeqEmpty DEF Suffixes
  <2>2. CASE l # Len(q)
    <3>1. l + 1 \in 1..Len(q)
      BY <1>1, <2>2
    <3> QED
      BY <1>5, <3>1 DEF Suffixes
  <2> QED
    BY <2>1, <2>2
<1>7. s[1] = q[l] /\ s[Len(s)] = q[Len(q)]
  BY <1>1, <1>4
<1> QED
  BY <1>1, <1>4, <1>6, <1>7, HeadTailProperties, LenProperties DEF Range
(* What is left of one script is not left of another. *)
LEMMA ScriptsDiffer ==
  ASSUME NEW s, s # <<>>
  PROVE  /\ s \in Suffixes(Connecting) => s \notin Suffixes(Live) /\ s \notin Suffixes(Goodbye)
         /\ s \in Suffixes(Live) => s \notin Suffixes(Goodbye)
<1>1. s \in Suffixes(Connecting) => s[Len(s)] = Connecting[8]
  BY RestOfScript, TheScripts
<1>2. s \in Suffixes(Live) => s[Len(s)] = Live[2]
  BY RestOfScript, TheScripts
<1>3. s \in Suffixes(Goodbye) => s[Len(s)] = Goodbye[1]
  BY RestOfScript, TheScripts
<1> QED
  BY <1>1, <1>2, <1>3, TheCommands

(* A script is what is left of it before its first command.                *)
LEMMA WholeScripts ==
  /\ Connecting \in Suffixes(Connecting) /\ Live \in Suffixes(Live)
  /\ Goodbye \in Suffixes(Goodbye)
  /\ Connecting # <<>> /\ Live # <<>> /\ Goodbye # <<>>
  /\ <<>> \in Suffixes(Connecting)
<1>1. ASSUME NEW q \in Seq(Commands), q # <<>>
      PROVE  q \in Suffixes(q)
  <2>1. 1 \in 1..Len(q) /\ SubSeq(q, 1, Len(q)) = q
    BY <1>1, EmptySeq, SubSeqFull
  <2> QED
    BY <2>1 DEF Suffixes
<1>2. Connecting # <<>> /\ Live # <<>> /\ Goodbye # <<>>
  BY TheScripts
<1>3. <<>> \in Suffixes(Connecting)
  BY DEF Suffixes
<1> QED
  BY <1>1, <1>2, <1>3, TheScripts
--------------------------------------------------------------------------------
Steps == {"idle", "open", "send", "read", "file", "close", "unlock"}
Scripts == Suffixes(Connecting) \cup Suffixes(Live) \cup Suffixes(Goodbye)
Values == [asked : Commands, from : Answers]

(* At first nobody has the adapter. *)
LEMMA InitIInv == Init => IInv
<1> SUFFICES ASSUME Init PROVE IInv
  OBVIOUS
<1>1. <<>> \in Seq(Answers) /\ <<>> \in Seq(Commissions) /\ Len(<<>>) = 0
  BY EmptySeq
<1>2. TypeOK
  BY <1>1, WholeScripts, AdapterAssumption DEF Init, TypeOK
<1>3. \A p \in Procs : Holder(p) /\ ScriptAt(p)
  BY AdapterAssumption DEF Init, Holder, ScriptAt
<1> QED
  BY <1>1, <1>2, <1>3, AdapterAssumption DEF Init, IInv

(* As many answers are coming as the adapter keeps commands.               *)
LEMMA AllWithin == IInv => OldWithin(Backlog)
<1> SUFFICES ASSUME IInv PROVE OldWithin(Backlog)
  OBVIOUS
<1>1. /\ Len(input) \in Nat /\ DOMAIN input = 1..Len(input)
      /\ Len(owed) \in Nat /\ DOMAIN owed = 1..Len(owed)
  BY LenProperties DEF IInv, TypeOK
<1> QED
  BY <1>1, AdapterAssumption DEF IInv, OldWithin

(* Never more of the connection's commands were answered than it has.      *)
LEMMA AnsweredBounds == ASSUME IInv, NEW p \in Procs PROVE Answered(p) \in 0..8
<1>1. ASSUME script[p] # <<>>, script[p] \in Suffixes(Connecting)
      PROVE  Len(script[p]) \in 1..8
  BY <1>1, RestOfScript, TheScripts, WholeScripts
<1>2. pc[p] \in {"send", "read"} => script[p] # <<>>
  BY DEF IInv, ScriptAt
<1>3. Len(Connecting) = 8
  BY TheScripts
<1>4. CASE connected[p] \/ pc[p] = "file"
  BY <1>3, <1>4 DEF Answered
<1>5. CASE /\ ~(connected[p] \/ pc[p] = "file")
           /\ pc[p] \in {"send", "read"} /\ script[p] \in Suffixes(Connecting)
  <2>1. Answered(p) = 8 - Len(script[p])
    BY <1>3, <1>5 DEF Answered
  <2>2. Len(script[p]) \in 1..8
    BY <1>1, <1>2, <1>5
  <2>3. \A n \in 1..8 : 8 - n \in 0..8
    OBVIOUS
  <2> QED
    BY <2>1, <2>2, <2>3
<1>6. CASE /\ ~(connected[p] \/ pc[p] = "file")
           /\ ~(pc[p] \in {"send", "read"} /\ script[p] \in Suffixes(Connecting))
  BY <1>6 DEF Answered
<1> QED
  BY <1>4, <1>5, <1>6

(* A step of the process that has the adapter keeps the invariant, if it   *)
(* keeps what the invariant says of this process.                          *)
LEMMA ActorStep ==
  ASSUME NEW p \in Procs, IInv,
         lock \in {p, Nobody}, lock' \in {p, Nobody}, port' \in {p, Nobody},
         port' # Nobody => lock' = port',
         pc' = [pc EXCEPT ![p] = pc'[p]], pc'[p] \in Steps,
         connected' = [connected EXCEPT ![p] = connected'[p]], connected'[p] \in BOOLEAN,
         script' = [script EXCEPT ![p] = script'[p]], script'[p] \in Scripts,
         reported' = [reported EXCEPT ![p] = reported'[p]],
         \A value \in reported'[p] : /\ value \in Values /\ value.from.of = value.asked
                                     /\ Backlog <= Len(Connecting) => ~value.from.old,
         input' \in Seq(Answers), owed' \in Seq(Commissions), Len(owed') <= Backlog,
         Len(input') + Len(owed') <= Backlog,
         Holder(p)', ScriptAt(p)', port' = p => OldWithin(Backlog - Answered(p))'
  PROVE  IInv'
<1> USE AdapterAssumption
<1>1. /\ connected \in [Procs -> BOOLEAN] /\ pc \in [Procs -> Steps]
      /\ script \in [Procs -> Scripts] /\ reported \in [Procs -> SUBSET Values]
  BY DEF IInv, TypeOK, Steps, Scripts, Values
<1>2. Len(input') <= Backlog
  BY LenProperties
<1>3. TypeOK'
  BY <1>1, <1>2 DEF TypeOK, Steps, Scripts, Values
<1>4. ASSUME NEW q \in Procs, q # p
      PROVE  Holder(q)' /\ ScriptAt(q)' /\ port' # q
  <2>1. lock # q /\ port # q /\ lock' # q /\ port' # q
    BY <1>4 DEF IInv
  <2>2. pc'[q] = pc[q] /\ connected'[q] = connected[q] /\ script'[q] = script[q]
    BY <1>1, <1>4
  <2>3. Holder(q) /\ ScriptAt(q)
    BY DEF IInv
  <2> QED
    BY <2>1, <2>2, <2>3 DEF Holder, ScriptAt
<1>5. \A q \in Procs : \A value \in reported'[q] :
        /\ value.from.of = value.asked
        /\ Backlog <= Len(Connecting) => ~value.from.old
  BY <1>1 DEF IInv
<1> QED
  BY <1>3, <1>4, <1>5 DEF IInv

(* Who does something, or is connected, has the lock. *)
LEMMA ActorHolds ==
  ASSUME NEW p \in Procs, IInv, pc[p] # "idle" \/ connected[p]
  PROVE  lock = p /\ port \in {p, Nobody}
BY AdapterAssumption DEF IInv, TypeOK, Holder

(* The state of one process. *)
LEMMA Types ==
  ASSUME NEW p \in Procs, IInv
  PROVE  /\ pc \in [Procs -> Steps] /\ connected \in [Procs -> BOOLEAN]
         /\ script \in [Procs -> Scripts] /\ reported \in [Procs -> SUBSET Values]
         /\ pc[p] \in Steps /\ connected[p] \in BOOLEAN /\ script[p] \in Scripts
         /\ \A value \in reported[p] : /\ value \in Values /\ value.from.of = value.asked
                                       /\ Backlog <= Len(Connecting) => ~value.from.old
         /\ input \in Seq(Answers) /\ owed \in Seq(Commissions)
         /\ Len(input) \in Nat /\ Len(owed) \in Nat
         /\ DOMAIN input = 1..Len(input) /\ DOMAIN owed = 1..Len(owed)
         /\ Len(owed) <= Backlog /\ Len(input) + Len(owed) <= Backlog
<1>1. TypeOK
  BY DEF IInv
<1>2. /\ input \in Seq(Answers) /\ owed \in Seq(Commissions)
      /\ Len(owed) <= Backlog /\ Len(input) + Len(owed) <= Backlog
  BY <1>1 DEF IInv, TypeOK
<1>3. /\ Len(input) \in Nat /\ Len(owed) \in Nat
      /\ DOMAIN input = 1..Len(input) /\ DOMAIN owed = 1..Len(owed)
  BY <1>2, LenProperties
<1>4. /\ pc \in [Procs -> Steps] /\ connected \in [Procs -> BOOLEAN]
      /\ script \in [Procs -> Scripts] /\ reported \in [Procs -> SUBSET Values]
  BY <1>1 DEF TypeOK, Steps, Scripts, Values
<1> QED
  BY <1>2, <1>3, <1>4 DEF IInv
(* What belonged to an earlier connection is no further away when the      *)
(* input is cleared.                                                       *)
LEMMA StillWithin ==
  ASSUME IInv, NEW n \in Int, NEW m \in Int, OldWithin(n), n <= m,
         owed' = owed, input' \in {input, <<>>}
  PROVE  OldWithin(m)'
<1>1. /\ Len(input) \in Nat /\ DOMAIN input = 1..Len(input)
      /\ Len(owed) \in Nat /\ DOMAIN owed = 1..Len(owed)
  BY LenProperties DEF IInv, TypeOK
<1>2. CASE input' = input
  BY <1>1, <1>2 DEF OldWithin
<1>3. CASE input' = <<>>
  <2>1. DOMAIN input' = {} /\ Len(input') = 0
    BY <1>3, EmptySeq
  <2> QED
    BY <1>1, <2>1 DEF OldWithin
<1> QED
  BY <1>2, <1>3
--------------------------------------------------------------------------------
(* An operation that fails keeps the adapter while it is connected or says *)
(* goodbye, and releases it otherwise.                                     *)
LEMMA FailingStep ==
  ASSUME NEW p \in Procs, IInv, Failing(p), pc[p] \in {"send", "read", "file"},
         UNCHANGED <<lock, port, connected, owed>>, input' \in {input, <<>>}
  PROVE  IInv'
<1> USE AdapterAssumption
<1>1. /\ pc \in [Procs -> Steps] /\ script \in [Procs -> Scripts]
      /\ reported \in [Procs -> SUBSET Values] /\ connected \in [Procs -> BOOLEAN]
      /\ connected[p] \in BOOLEAN
  BY Types
<1>2. lock = p /\ port = p /\ pc[p] # "idle"
  BY ActorHolds DEF IInv, Holder
<1>3. /\ pc'[p] = IF GiveUp(p) = "goodbye" THEN "send" ELSE GiveUp(p)
      /\ script'[p] = IF GiveUp(p) = "goodbye" THEN Goodbye ELSE <<>>
      /\ reported'[p] = {}
      /\ pc' = [pc EXCEPT ![p] = pc'[p]] /\ script' = [script EXCEPT ![p] = script'[p]]
      /\ reported' = [reported EXCEPT ![p] = reported'[p]]
      /\ connected' = [connected EXCEPT ![p] = connected'[p]]
  BY <1>1 DEF Failing, Goto
<1>4. \/ pc'[p] = "close"
      \/ pc'[p] = "idle" /\ connected[p]
      \/ pc'[p] = "send" /\ ~connected[p] /\ script'[p] = Goodbye
  BY <1>1, <1>3 DEF GiveUp
<1>5. pc'[p] \in Steps /\ script'[p] \in Scripts
  BY <1>3, <1>4, WholeScripts DEF Steps, Scripts
<1>6. Holder(p)'
  BY <1>2, <1>4 DEF Holder
<1>7. ScriptAt(p)'
  BY <1>3, <1>4, WholeScripts DEF ScriptAt
<1>8. OldWithin(Backlog - Answered(p))'
  <2>1. Answered(p)' = Answered(p) \/ Answered(p)' = 0
    <3>1. CASE connected[p]
      BY <3>1 DEF Answered
    <3>2. CASE ~connected[p]
      <4>1. Goodbye \notin Suffixes(Connecting)
        BY ScriptsDiffer, WholeScripts
      <4> QED
        BY <1>3, <1>4, <3>2, <4>1 DEF Answered
    <3> QED
      BY <3>1, <3>2
  <2>2. Answered(p) \in 0..8 /\ OldWithin(Backlog - Answered(p))
    BY <1>2, AnsweredBounds DEF IInv
  <2>3. \A n \in 0..8 : Backlog - n \in Int /\ Backlog - n <= Backlog - 0 /\ Backlog - 0 \in Int
    OBVIOUS
  <2>4. PICK n \in 0..8 : n = Answered(p) /\ OldWithin(Backlog - n)
    BY <2>2
  <2>5. OldWithin(Backlog - n)' /\ OldWithin(Backlog - 0)'
    BY <2>3, <2>4, StillWithin
  <2>6. (Backlog - Answered(p))' = Backlog - n \/ (Backlog - Answered(p))' = Backlog - 0
    BY <2>1, <2>4
  <2> QED
    BY <2>5, <2>6 DEF OldWithin
<1>9. /\ input' \in Seq(Answers) /\ owed' \in Seq(Commissions) /\ Len(owed') <= Backlog
      /\ Len(input') + Len(owed') <= Backlog
  <2>1. <<>> \in Seq(Answers) /\ Len(<<>>) = 0
    BY EmptySeq
  <2>2. /\ input \in Seq(Answers) /\ owed \in Seq(Commissions) /\ Len(owed) <= Backlog
        /\ Len(owed) \in Nat /\ Len(input) + Len(owed) <= Backlog
    BY Types
  <2>3. CASE input' = input
    BY <2>2, <2>3
  <2>4. CASE input' = <<>>
    <3>1. input' \in Seq(Answers) /\ Len(input') = 0 /\ Len(owed') = Len(owed)
      BY <2>1, <2>4
    <3> QED
      BY <2>2, <3>1
  <2> QED
    BY <2>3, <2>4
<1> QED
  BY <1>1, <1>2, <1>3, <1>5, <1>6, <1>7, <1>8, <1>9, ActorStep
--------------------------------------------------------------------------------
(* The adapter answers. *)
LEMMA AnswerStep == ASSUME IInv, Answer PROVE IInv'
<1> USE AdapterAssumption
<1>1. /\ input \in Seq(Answers) /\ owed \in Seq(Commissions)
      /\ Len(input) \in Nat /\ Len(owed) \in Nat
      /\ DOMAIN input = 1..Len(input) /\ DOMAIN owed = 1..Len(owed)
      /\ Len(owed) <= Backlog /\ Len(input) + Len(owed) <= Backlog
  BY LenProperties DEF IInv, TypeOK
<1>2. /\ lock' = lock /\ port' = port /\ pc' = pc /\ connected' = connected
      /\ script' = script /\ reported' = reported
  BY DEF Answer, process
<1>3. /\ owed' \in Seq(Commissions) /\ Len(owed') = Len(owed) - 1 /\ Len(owed) # 0
      /\ \A i \in 1..Len(owed') : owed'[i] = owed[i + 1]
      /\ DOMAIN owed' = 1..Len(owed')
  BY <1>1, HeadTailProperties, EmptySeq, LenProperties DEF Answer
<1>4. owed[1] \in Commissions
  BY <1>1, <1>3, ElementOfSeq
<1>5. /\ input' \in Seq(Answers)
      /\ \/ input' = input
         \/ /\ Len(input') = Len(input) + 1 /\ DOMAIN input' = 1..Len(input')
            /\ \A i \in 1..Len(input) : input'[i] = input[i]
            /\ input'[Len(input) + 1].old = owed[1].old
  <2>1. CASE input' = input
    BY <1>1, <2>1
  <2>2. ASSUME NEW error \in BOOLEAN,
               input' = Append(input, [of |-> owed[1].of, old |-> owed[1].old,
                                       error |-> error])
        PROVE  /\ input' \in Seq(Answers)
               /\ Len(input') = Len(input) + 1 /\ DOMAIN input' = 1..Len(input')
               /\ \A i \in 1..Len(input) : input'[i] = input[i]
               /\ input'[Len(input) + 1].old = owed[1].old
    <3> DEFINE answer == [of |-> owed[1].of, old |-> owed[1].old, error |-> error]
    <3>1. answer \in Answers /\ answer.old = owed[1].old
      BY <1>4 DEF Answers, Commissions
    <3> HIDE DEF answer
    <3>2. input' = Append(input, answer)
      BY <2>2 DEF answer
    <3> QED
      BY <1>1, <3>1, <3>2, AppendProperties, LenProperties
  <2> QED
    BY <2>1, <2>2 DEF Answer
<1>6. Len(input') + Len(owed') <= Backlog /\ Len(input') <= Backlog /\ Len(owed') <= Backlog
  BY <1>1, <1>3, <1>5
<1>7. TypeOK'
  BY <1>2, <1>3, <1>5, <1>6 DEF IInv, TypeOK
<1>8. ASSUME NEW p \in Procs
      PROVE  Holder(p)' /\ ScriptAt(p)' /\ Answered(p)' = Answered(p)
  BY <1>2 DEF IInv, Holder, ScriptAt, Answered
<1>9. ASSUME NEW n \in Int, OldWithin(n)
      PROVE  OldWithin(n)'
  <2>1. ASSUME NEW i \in DOMAIN input', input'[i].old
        PROVE  i <= n
    <3>1. CASE input' = input
      BY <1>9, <2>1, <3>1 DEF OldWithin
    <3>2. CASE input' # input /\ i = Len(input) + 1
      <4>1. owed[1].old
        BY <1>5, <2>1, <3>2
      <4> QED
        BY <1>1, <1>3, <1>9, <3>2, <4>1 DEF OldWithin
    <3>3. CASE input' # input /\ i # Len(input) + 1
      <4>1. i \in DOMAIN input /\ input[i].old
        BY <1>1, <1>5, <2>1, <3>3
      <4> QED
        BY <1>9, <4>1 DEF OldWithin
    <3> QED
      BY <3>1, <3>2, <3>3
  <2>2. ASSUME NEW i \in DOMAIN owed', owed'[i].old
        PROVE  Len(input') + i <= n
    <3>1. i + 1 \in DOMAIN owed /\ owed[i + 1].old /\ i \in Int
      BY <1>1, <1>3, <2>2
    <3>2. Len(input) + (i + 1) <= n
      BY <1>9, <3>1 DEF OldWithin
    <3>3. Len(input') \in {Len(input), Len(input) + 1}
      BY <1>5
    <3> QED
      BY <1>1, <3>1, <3>2, <3>3
  <2> QED
    BY <2>1, <2>2 DEF OldWithin
<1>10. ASSUME NEW p \in Procs, port' = p
       PROVE  OldWithin(Backlog - Answered(p))'
  <2>1. Answered(p) \in 0..8 /\ OldWithin(Backlog - Answered(p))
    BY <1>2, <1>10, AnsweredBounds DEF IInv
  <2>2. \A n \in 0..8 : Backlog - n \in Int
    OBVIOUS
  <2>3. PICK n \in 0..8 : n = Answered(p) /\ OldWithin(Backlog - n)
    BY <2>1
  <2>4. OldWithin(Backlog - n)'
    BY <1>9, <2>2, <2>3
  <2>5. (Backlog - Answered(p))' = Backlog - n
    BY <1>8, <2>3
  <2> QED
    BY <2>4, <2>5 DEF OldWithin
<1> QED
  BY <1>2, <1>6, <1>7, <1>8, <1>10 DEF IInv
--------------------------------------------------------------------------------
(* An operation begins. *)
LEMMA BeginStep ==
  ASSUME NEW p \in Procs, IInv, Connect(p) \/ ReadLive(p) \/ Disconnect(p)
  PROVE  IInv'
<1> USE AdapterAssumption
<1>1. /\ pc \in [Procs -> Steps] /\ script \in [Procs -> Scripts]
      /\ reported \in [Procs -> SUBSET Values] /\ connected \in [Procs -> BOOLEAN]
      /\ connected[p] \in BOOLEAN /\ script[p] \in Scripts
      /\ \A value \in reported[p] : /\ value \in Values /\ value.from.of = value.asked
                                    /\ Backlog <= Len(Connecting) => ~value.from.old
      /\ input \in Seq(Answers) /\ owed \in Seq(Commissions) /\ Len(owed) <= Backlog
      /\ Len(input) + Len(owed) <= Backlog
  BY Types
<1>2. /\ input' = input /\ owed' = owed /\ port' = port /\ connected' = connected
      /\ pc' = [pc EXCEPT ![p] = pc'[p]] /\ script' = [script EXCEPT ![p] = script'[p]]
      /\ reported' = [reported EXCEPT ![p] = reported'[p]]
      /\ connected' = [connected EXCEPT ![p] = connected'[p]]
      /\ reported'[p] \in {reported[p], {}} /\ pc[p] = "idle"
  BY <1>1 DEF Connect, ReadLive, Disconnect, Goto, adapter
<1>3. Holder(p) /\ lock \in Procs \cup {Nobody} /\ (port # Nobody => lock = port)
  BY DEF IInv, TypeOK
<1>4. CASE Connect(p)
  <2>1. /\ lock = Nobody /\ lock' = p /\ pc'[p] = "open" /\ script'[p] = script[p]
        /\ ~connected[p] /\ port = Nobody
    BY <1>1, <1>3, <1>4 DEF Connect, Goto
  <2>2. Holder(p)' /\ ScriptAt(p)'
    BY <1>2, <2>1 DEF Holder, ScriptAt
  <2> QED
    BY <1>1, <1>2, <2>1, <2>2, ActorStep DEF Steps
<1>5. CASE ReadLive(p) \/ Disconnect(p)
  <2>1. /\ lock = p /\ lock' = p /\ pc'[p] = "send" /\ connected[p] /\ port = p
        /\ script'[p] \in {Live, Goodbye}
    BY <1>1, <1>2, <1>3, <1>5, ActorHolds DEF ReadLive, Disconnect, Goto, Holder
  <2>2. Holder(p)' /\ ScriptAt(p)'
    BY <1>2, <2>1, WholeScripts DEF Holder, ScriptAt
  <2>3. script'[p] \in Scripts
    BY <2>1, WholeScripts DEF Scripts
  <2>4. OldWithin(Backlog - Answered(p))'
    <3>1. Answered(p) = Len(Connecting) /\ Answered(p)' = Len(Connecting)
      BY <1>2, <2>1 DEF Answered
    <3>2. OldWithin(Backlog - Len(Connecting))
      BY <2>1, <3>1 DEF IInv
    <3> QED
      BY <1>2, <3>1, <3>2 DEF OldWithin
  <2> QED
    BY <1>1, <1>2, <2>1, <2>2, <2>3, <2>4, ActorStep DEF Steps
<1> QED
  BY <1>4, <1>5

(* The port opens: whatever is still owed was asked over an earlier        *)
(* connection, and none of this one's commands has been answered.          *)
LEMMA OpenPortStep == ASSUME NEW p \in Procs, IInv, OpenPort(p) PROVE IInv'
<1> USE AdapterAssumption
<1>1. /\ pc \in [Procs -> Steps] /\ script \in [Procs -> Scripts]
      /\ reported \in [Procs -> SUBSET Values] /\ connected \in [Procs -> BOOLEAN]
      /\ connected[p] \in BOOLEAN /\ script[p] \in Scripts
      /\ \A value \in reported[p] : /\ value \in Values /\ value.from.of = value.asked
                                    /\ Backlog <= Len(Connecting) => ~value.from.old
      /\ input \in Seq(Answers) /\ owed \in Seq(Commissions) /\ Len(owed) <= Backlog
      /\ Len(input) + Len(owed) <= Backlog
      /\ Len(owed) \in Nat /\ DOMAIN owed = 1..Len(owed)
  BY Types
<1>2. /\ pc' = [pc EXCEPT ![p] = pc'[p]] /\ script' = [script EXCEPT ![p] = script'[p]]
      /\ reported' = [reported EXCEPT ![p] = reported'[p]] /\ reported'[p] = reported[p]
      /\ connected' = [connected EXCEPT ![p] = connected'[p]] /\ connected'[p] = connected[p]
      /\ lock' = lock /\ pc[p] = "open"
  BY <1>1 DEF OpenPort, Goto, adapter
<1>3. lock = p /\ port \in {p, Nobody} /\ port # p /\ ~connected[p]
  BY <1>2, ActorHolds DEF IInv, Holder, ScriptAt
<1>4. CASE /\ port = Nobody /\ port' = p /\ input' = <<>>
           /\ owed' = [i \in DOMAIN owed |-> [owed[i] EXCEPT !.old = TRUE]]
           /\ script'[p] = Connecting /\ pc'[p] = "send"
  <2>1. Holder(p)' /\ ScriptAt(p)' /\ script'[p] \in Scripts
    BY <1>2, <1>3, <1>4, WholeScripts DEF Holder, ScriptAt, Scripts
  <2>2. /\ owed' \in Seq(Commissions) /\ Len(owed') = Len(owed)
        /\ DOMAIN owed' = 1..Len(owed)
    <3>1. \A i \in 1..Len(owed) : [owed[i] EXCEPT !.old = TRUE] \in Commissions
      <4>1. \A c \in Commissions : [c EXCEPT !.old = TRUE] \in Commissions
        BY DEF Commissions
      <4> QED
        BY <1>1, <4>1, ElementOfSeq
    <3>2. owed' = [i \in 1..Len(owed) |-> [owed[i] EXCEPT !.old = TRUE]]
      BY <1>1, <1>4
    <3> QED
      BY <1>1, <3>1, <3>2
  <2>3. input' \in Seq(Answers) /\ Len(input') = 0 /\ DOMAIN input' = {}
    BY <1>4, EmptySeq
  <2>4. Answered(p)' = 0
    BY <1>2, <1>3, <1>4, WholeScripts, TheScripts DEF Answered
  <2>5. OldWithin(Backlog - Answered(p))'
    BY <1>1, <2>2, <2>3, <2>4 DEF OldWithin
  <2>6. Len(input') + Len(owed') <= Backlog /\ Len(owed') <= Backlog
    BY <1>1, <2>2, <2>3
  <2> QED
    BY <1>1, <1>2, <1>3, <1>4, <2>1, <2>2, <2>3, <2>5, <2>6, ActorStep DEF Steps
<1>5. CASE /\ port' = port /\ input' = input /\ owed' = owed
           /\ script'[p] = script[p] /\ pc'[p] = "close"
  <2>1. Holder(p)' /\ ScriptAt(p)'
    BY <1>2, <1>3, <1>5 DEF Holder, ScriptAt
  <2> QED
    BY <1>1, <1>2, <1>3, <1>5, <2>1, ActorStep DEF Steps
<1> QED
  BY <1>1, <1>4, <1>5 DEF OpenPort, Goto, adapter
--------------------------------------------------------------------------------
(* A command is written. *)
LEMMA SendStep == ASSUME NEW p \in Procs, IInv, Send(p) PROVE IInv'
<1> USE AdapterAssumption
<1>1. /\ pc \in [Procs -> Steps] /\ script \in [Procs -> Scripts]
      /\ reported \in [Procs -> SUBSET Values] /\ connected \in [Procs -> BOOLEAN]
      /\ connected[p] \in BOOLEAN /\ script[p] \in Scripts
      /\ \A value \in reported[p] : /\ value \in Values /\ value.from.of = value.asked
                                    /\ Backlog <= Len(Connecting) => ~value.from.old
      /\ owed \in Seq(Commissions) /\ Len(owed) <= Backlog
      /\ Len(owed) \in Nat /\ DOMAIN owed = 1..Len(owed)
  BY Types
<1>2. /\ pc[p] = "send" /\ input' = <<>>
      /\ lock' = lock /\ port' = port /\ connected' = connected
  BY DEF Send
<1>3. CASE Failing(p) /\ UNCHANGED owed
  BY <1>2, <1>3, FailingStep
<1>4. CASE /\ owed' = IF Len(owed) < Backlog
                        THEN Append(owed, [of |-> script[p][1], old |-> FALSE]) ELSE owed
           /\ Goto(p, "read") /\ UNCHANGED <<script, reported>>
  <2>1. /\ pc' = [pc EXCEPT ![p] = pc'[p]] /\ pc'[p] = "read"
        /\ script' = [script EXCEPT ![p] = script'[p]] /\ script'[p] = script[p]
        /\ reported' = [reported EXCEPT ![p] = reported'[p]] /\ reported'[p] = reported[p]
        /\ connected' = [connected EXCEPT ![p] = connected'[p]]
    BY <1>1, <1>2, <1>4 DEF Goto
  <2>2. lock = p /\ port = p /\ Holder(p) /\ ScriptAt(p)
    BY <1>2, ActorHolds DEF IInv, Holder
  <2>3. Holder(p)' /\ ScriptAt(p)' /\ Answered(p)' = Answered(p)
    BY <1>2, <2>1, <2>2 DEF Holder, ScriptAt, Answered
  <2>4. script[p][1] \in Commands
    <3>1. script[p] # <<>>
      BY <1>2, <2>2 DEF ScriptAt
    <3>2. \A q \in {Live, Connecting, Goodbye} : q \in Seq(Commands) /\ q # <<>>
      BY TheScripts
    <3>3. PICK q \in {Live, Connecting, Goodbye} : script[p] \in Suffixes(q)
      BY <1>1 DEF Scripts
    <3>4. script[p][1] \in Range(q)
      BY <3>1, <3>2, <3>3, RestOfScript
    <3> QED
      BY <3>4, <3>3 DEF Commands
  <2>5. /\ owed' \in Seq(Commissions) /\ Len(owed') <= Backlog /\ DOMAIN owed' = 1..Len(owed')
        /\ Len(owed') \in Nat
        /\ \A i \in DOMAIN owed' : owed'[i].old => i \in DOMAIN owed /\ owed[i].old
    <3> DEFINE new == [of |-> script[p][1], old |-> FALSE]
    <3>1. new \in Commissions /\ ~new.old
      BY <2>4 DEF Commissions
    <3> HIDE DEF new
    <3>2. CASE Len(owed) < Backlog
      <4>1. owed' = Append(owed, new)
        BY <1>4, <3>2 DEF new
      <4>2. /\ owed' \in Seq(Commissions) /\ Len(owed') = Len(owed) + 1
            /\ DOMAIN owed' = 1..Len(owed')
            /\ \A i \in 1..Len(owed) : owed'[i] = owed[i]
            /\ owed'[Len(owed) + 1] = new
        BY <1>1, <3>1, <4>1, AppendProperties, LenProperties
      <4> QED
        BY <1>1, <3>1, <3>2, <4>2
    <3>3. CASE ~(Len(owed) < Backlog)
      BY <1>1, <1>4, <3>3
    <3> QED
      BY <3>2, <3>3
  <2>6. input' \in Seq(Answers) /\ Len(input') = 0 /\ DOMAIN input' = {}
    BY <1>2, EmptySeq
  <2>7. Len(input') + Len(owed') <= Backlog
    BY <2>5, <2>6
  <2>8. OldWithin(Backlog - Answered(p))'
    <3>1. Answered(p) \in 0..8 /\ OldWithin(Backlog - Answered(p))
      BY <2>2, AnsweredBounds DEF IInv
    <3>2. \A n \in 0..8 : Backlog - n \in Int
      OBVIOUS
    <3>3. PICK n \in Int : n = Backlog - Answered(p) /\ OldWithin(n)
      BY <3>1, <3>2
    <3>4. ASSUME NEW i \in DOMAIN owed', owed'[i].old
          PROVE  Len(input') + i <= n
      <4>1. i \in DOMAIN owed /\ i \in Int /\ Len(input) + i <= n
        BY <1>1, <2>5, <3>3, <3>4 DEF OldWithin
      <4>2. Len(input) \in Nat
        BY Types
      <4> QED
        BY <2>6, <4>1, <4>2
    <3>5. OldWithin(n)'
      BY <2>6, <3>4 DEF OldWithin
    <3>6. (Backlog - Answered(p))' = n
      BY <2>3, <3>3
    <3> QED
      BY <3>5, <3>6 DEF OldWithin
  <2> QED
    BY <1>1, <1>2, <2>1, <2>2, <2>3, <2>5, <2>6, <2>7, <2>8, ActorStep DEF Steps
<1> QED
  BY <1>3, <1>4 DEF Send

(* Steps that end without looking at the input. *)
LEMMA TimeoutStep == ASSUME NEW p \in Procs, IInv, Timeout(p) PROVE IInv'
BY FailingStep DEF Timeout, adapter

LEMMA FileStep == ASSUME NEW p \in Procs, IInv, File(p) PROVE IInv'
<1> USE AdapterAssumption
<1>1. pc[p] = "file" /\ lock' = lock /\ port' = port /\ owed' = owed /\ input' = input
  BY DEF File, adapter
<1>2. CASE Failing(p) /\ UNCHANGED connected
  BY <1>1, <1>2, FailingStep
<1>3. CASE /\ connected' = [connected EXCEPT ![p] = TRUE] /\ Goto(p, "idle")
           /\ UNCHANGED <<script, reported>>
  <2>1. /\ pc \in [Procs -> Steps] /\ script \in [Procs -> Scripts]
        /\ reported \in [Procs -> SUBSET Values] /\ connected \in [Procs -> BOOLEAN]
        /\ script[p] \in Scripts
        /\ \A value \in reported[p] : /\ value \in Values /\ value.from.of = value.asked
                                      /\ Backlog <= Len(Connecting) => ~value.from.old
        /\ owed \in Seq(Commissions) /\ Len(owed) <= Backlog
        /\ input \in Seq(Answers) /\ Len(input) + Len(owed) <= Backlog
    BY Types
  <2>2. /\ pc' = [pc EXCEPT ![p] = pc'[p]] /\ pc'[p] = "idle"
        /\ script' = [script EXCEPT ![p] = script'[p]] /\ script'[p] = script[p]
        /\ reported' = [reported EXCEPT ![p] = reported'[p]] /\ reported'[p] = reported[p]
        /\ connected' = [connected EXCEPT ![p] = connected'[p]] /\ connected'[p] = TRUE
    BY <1>3, <2>1 DEF Goto
  <2>3. lock = p /\ port = p
    BY <1>1, ActorHolds DEF IInv, Holder
  <2>4. Holder(p)' /\ ScriptAt(p)'
    BY <1>1, <2>2, <2>3 DEF Holder, ScriptAt
  <2>5. OldWithin(Backlog - Answered(p))'
    <3>1. Answered(p) = Len(Connecting) /\ Answered(p)' = Len(Connecting)
      BY <1>1, <2>2 DEF Answered
    <3>2. OldWithin(Backlog - Len(Connecting))
      BY <2>3, <3>1 DEF IInv
    <3> QED
      BY <1>1, <3>1, <3>2 DEF OldWithin
  <2> QED
    BY <1>1, <2>1, <2>2, <2>3, <2>4, <2>5, ActorStep DEF Steps
<1> QED
  BY <1>2, <1>3 DEF File

(* The adapter is released, step by step or by the kernel. *)
LEMMA ReleaseStep == ASSUME NEW p \in Procs, IInv, Release(p) \/ Die(p) PROVE IInv'
<1> USE AdapterAssumption
<1>1. /\ pc \in [Procs -> Steps] /\ script \in [Procs -> Scripts]
      /\ reported \in [Procs -> SUBSET Values] /\ connected \in [Procs -> BOOLEAN]
      /\ connected[p] \in BOOLEAN /\ script[p] \in Scripts
      /\ \A value \in reported[p] : /\ value \in Values /\ value.from.of = value.asked
                                    /\ Backlog <= Len(Connecting) => ~value.from.old
      /\ input \in Seq(Answers) /\ owed \in Seq(Commissions) /\ Len(owed) <= Backlog
      /\ Len(owed) \in Nat /\ Len(input) + Len(owed) <= Backlog
  BY Types
<1>2. lock = p /\ port \in {p, Nobody} /\ (pc[p] = "unlock" => port # p)
  BY ActorHolds DEF Release, Die, IInv, Holder
<1>3. /\ pc' = [pc EXCEPT ![p] = pc'[p]] /\ script' = [script EXCEPT ![p] = script'[p]]
      /\ reported' = [reported EXCEPT ![p] = reported'[p]] /\ reported'[p] \in {reported[p], {}}
      /\ connected' = [connected EXCEPT ![p] = connected'[p]]
      /\ script'[p] \in {script[p], <<>>} /\ owed' = owed /\ input' \in {input, <<>>}
      /\ port' = Nobody
      /\ \/ pc'[p] = "unlock" /\ lock' = p /\ connected'[p] = connected[p]
         \/ pc'[p] = "idle" /\ lock' = Nobody /\ connected'[p] = FALSE
  BY <1>1, <1>2 DEF Release, Die, Goto, adapter
<1>4. Holder(p)' /\ ScriptAt(p)' /\ script'[p] \in Scripts
  BY <1>1, <1>3, WholeScripts DEF Holder, ScriptAt, Scripts
<1>5. input' \in Seq(Answers) /\ Len(input') + Len(owed') <= Backlog
  <2>1. <<>> \in Seq(Answers) /\ Len(<<>>) = 0
    BY EmptySeq
  <2>2. CASE input' = input
    BY <1>1, <1>3, <2>2
  <2>3. CASE input' = <<>>
    <3>1. input' \in Seq(Answers) /\ Len(input') = 0 /\ Len(owed') = Len(owed)
      BY <1>3, <2>1, <2>3
    <3> QED
      BY <1>1, <3>1
  <2> QED
    BY <1>3, <2>2, <2>3
<1> QED
  BY <1>1, <1>2, <1>3, <1>4, <1>5, ActorStep DEF Steps
--------------------------------------------------------------------------------
(* A value that is reported answers the command it is filed under, and is  *)
(* an answer of this connection when no other is left.                     *)
LEMMA ValuesOfAnswers ==
  ASSUME IInv, NEW asked \in Range(Live), NEW value \in Value(asked, input)
  PROVE  /\ value \in Values /\ value.from.of = value.asked
         /\ OldWithin(0) => ~value.from.old
<1>1. asked \in {"rpm", "speed"} /\ asked \in Commands
  BY TheCommands DEF Commands
<1>2. input \in Seq(Answers) /\ DOMAIN input = 1..Len(input) /\ Len(input) \in Nat
  BY LenProperties DEF IInv, TypeOK
<1>3. PICK i \in DOMAIN input : value = [asked |-> asked, from |-> input[i]] /\ Same(asked, input[i].of)
  BY DEF Value, Counting, Frames
<1>4. input[i] \in Answers
  BY <1>2, ElementOfSeq
<1>5. input[i].of = asked
  BY <1>1, <1>3 DEF Same
<1>6. OldWithin(0) => ~input[i].old
  BY <1>2 DEF OldWithin
<1> QED
  BY <1>1, <1>3, <1>4, <1>5, <1>6 DEF Values

(* An answer is looked at. *)
LEMMA ReadStep == ASSUME NEW p \in Procs, IInv, Read(p) PROVE IInv'
<1> USE AdapterAssumption
<1> DEFINE asked == script[p][1]
<1>1. /\ pc \in [Procs -> Steps] /\ script \in [Procs -> Scripts]
      /\ reported \in [Procs -> SUBSET Values] /\ connected \in [Procs -> BOOLEAN]
      /\ connected[p] \in BOOLEAN /\ script[p] \in Scripts
      /\ \A value \in reported[p] : /\ value \in Values /\ value.from.of = value.asked
                                    /\ Backlog <= Len(Connecting) => ~value.from.old
      /\ input \in Seq(Answers) /\ Len(input) \in Nat
      /\ owed \in Seq(Commissions) /\ Len(owed) <= Backlog
      /\ Len(owed) \in Nat /\ DOMAIN owed = 1..Len(owed)
  BY Types
<1>2. /\ pc[p] = "read" /\ input # <<>> /\ input' = <<>> /\ owed' = owed
      /\ lock' = lock /\ port' = port /\ connected' = connected
  BY DEF Read
<1>3. CASE Failing(p)
  BY <1>2, <1>3, FailingStep
<1>4. CASE /\ script' = [script EXCEPT ![p] = Tail(@)]
           /\ reported' = [reported EXCEPT ![p] = IF asked \in Range(Live)
                                                    THEN @ \cup Value(asked, input) ELSE @]
           /\ Goto(p, IF Len(script[p]) > 1 THEN "send"
                      ELSE CASE asked = "discover" -> "file"
                             [] asked = "close" -> "close"
                             [] OTHER -> "idle")
  <2>1. /\ pc' = [pc EXCEPT ![p] = pc'[p]]
        /\ pc'[p] = IF Len(script[p]) > 1 THEN "send"
                    ELSE CASE asked = "discover" -> "file"
                           [] asked = "close" -> "close"
                           [] OTHER -> "idle"
        /\ script' = [script EXCEPT ![p] = script'[p]] /\ script'[p] = Tail(script[p])
        /\ reported' = [reported EXCEPT ![p] = reported'[p]]
        /\ reported'[p] = IF asked \in Range(Live) THEN reported[p] \cup Value(asked, input)
                          ELSE reported[p]
        /\ connected' = [connected EXCEPT ![p] = connected'[p]] /\ connected'[p] = connected[p]
    BY <1>1, <1>2, <1>4 DEF Goto
  <2>2. lock = p /\ port = p /\ ScriptAt(p)
    BY <1>2, ActorHolds DEF IInv, Holder
  <2>3. /\ script[p] # <<>>
        /\ \/ script[p] \in Suffixes(Goodbye)
           \/ connected[p] /\ script[p] \in Suffixes(Live)
           \/ ~connected[p] /\ script[p] \in Suffixes(Connecting)
    BY <1>2, <2>2 DEF ScriptAt
  <2>4. Len(input') = 0 /\ DOMAIN input' = {} /\ input' \in Seq(Answers) /\ Len(input) >= 1
    BY <1>1, <1>2, EmptySeq
  <2>5. PICK n \in 0..8 : n = Answered(p) /\ OldWithin(Backlog - n)
    BY <2>2, AnsweredBounds DEF IInv
  <2>6. ASSUME NEW m \in {n, n + 1}
        PROVE  OldWithin(Backlog - m)'
    <3>1. ASSUME NEW i \in DOMAIN owed', owed'[i].old
          PROVE  Len(input') + i <= Backlog - m
      <4>1. i \in Int /\ Len(input) + i <= Backlog - n
        BY <1>1, <1>2, <2>5, <3>1 DEF OldWithin
      <4> QED
        BY <1>1, <2>4, <4>1
    <3> QED
      BY <2>4, <3>1 DEF OldWithin
  <2>7. /\ pc'[p] \in Steps /\ script'[p] \in Scripts
        /\ Holder(p)' /\ ScriptAt(p)' /\ Answered(p)' \in {n, n + 1}
    <3>1. CASE script[p] \in Suffixes(Goodbye)
      <4>1. Len(script[p]) = 1 /\ asked = "close" /\ script'[p] \in Suffixes(Goodbye)
        <5>1. /\ Len(script[p]) \in 1..Len(Goodbye)
              /\ script[p][Len(script[p])] = Goodbye[Len(Goodbye)]
              /\ Tail(script[p]) \in Suffixes(Goodbye)
          BY <2>3, <3>1, RestOfScript, TheScripts
        <5>2. Len(script[p]) = 1
          BY <5>1, TheScripts
        <5> QED
          BY <2>1, <5>1, <5>2, TheScripts, TheCommands
      <4>2. pc'[p] = "close"
        BY <2>1, <4>1
      <4>3. script[p] \notin Suffixes(Connecting)
        BY <2>3, <3>1, ScriptsDiffer
      <4>4. Answered(p)' = n
        BY <1>2, <2>1, <2>5, <4>2, <4>3 DEF Answered
      <4> QED
        BY <1>2, <2>2, <4>1, <4>2, <4>4 DEF Holder, ScriptAt, Steps, Scripts
    <3>2. CASE connected[p] /\ script[p] \in Suffixes(Live)
      <4>1. /\ Len(script[p]) \in Nat /\ Len(Tail(script[p])) = Len(script[p]) - 1
            /\ asked \in Range(Live) /\ script'[p] \in Suffixes(Live)
        BY <2>1, <2>3, <3>2, RestOfScript, TheScripts
      <4>2. asked # "discover" /\ asked # "close"
        BY <4>1, TheCommands
      <4>3. \/ pc'[p] = "send" /\ Len(script'[p]) > 0
            \/ pc'[p] = "idle"
        BY <2>1, <4>1, <4>2
      <4>4. pc'[p] = "send" => script'[p] # <<>>
        BY <4>3, EmptySeq
      <4>5. Answered(p)' = n
        BY <2>1, <2>5, <3>2 DEF Answered
      <4> QED
        BY <1>2, <2>1, <2>2, <3>2, <4>1, <4>3, <4>4, <4>5 DEF Holder, ScriptAt, Steps, Scripts
    <3>3. CASE ~connected[p] /\ script[p] \in Suffixes(Connecting)
      <4>1. /\ Len(script[p]) \in 1..8 /\ Len(Tail(script[p])) = Len(script[p]) - 1
            /\ script[p][Len(script[p])] = Connecting[8] /\ script'[p] \in Suffixes(Connecting)
        <5>1. /\ Len(script[p]) \in 1..Len(Connecting)
              /\ Len(Tail(script[p])) = Len(script[p]) - 1
              /\ script[p][Len(script[p])] = Connecting[Len(Connecting)]
              /\ Tail(script[p]) \in Suffixes(Connecting)
          BY <2>3, <3>3, RestOfScript, TheScripts
        <5> QED
          BY <2>1, <5>1, TheScripts
      <4>2. n = 8 - Len(script[p])
        BY <1>2, <2>5, <3>3, TheScripts DEF Answered
      <4>3. CASE Len(script[p]) > 1
        <5>1. pc'[p] = "send" /\ Len(script'[p]) = Len(script[p]) - 1 /\ Len(script'[p]) # 0
          <6>1. pc'[p] = "send"
            BY <2>1, <4>3
          <6>2. Len(script'[p]) = Len(script[p]) - 1
            BY <2>1, <4>1
          <6>3. \A k \in 1..8 : k > 1 => k - 1 # 0
            OBVIOUS
          <6> QED
            BY <4>1, <4>3, <6>1, <6>2, <6>3
        <5>2. script'[p] # <<>>
          BY <5>1, EmptySeq
        <5>3. Answered(p)' = 8 - Len(script'[p])
          BY <2>1, <3>3, <4>1, <5>1, TheScripts DEF Answered
        <5>4. Answered(p)' = n + 1
          BY <4>1, <4>2, <5>1, <5>3
        <5> QED
          BY <1>2, <2>1, <2>2, <3>3, <4>1, <5>1, <5>2, <5>4 DEF Holder, ScriptAt, Steps, Scripts
      <4>4. CASE ~(Len(script[p]) > 1)
        <5>1. Len(script[p]) = 1 /\ asked = "discover"
          <6>1. \A k \in 1..8 : ~(k > 1) => k = 1
            OBVIOUS
          <6>2. Len(script[p]) = 1
            BY <4>1, <4>4, <6>1
          <6> QED
            BY <4>1, <6>2, TheCommands
        <5>2. pc'[p] = "file"
          BY <2>1, <5>1
        <5>3. Answered(p)' = n + 1
          BY <4>2, <5>1, <5>2, TheScripts DEF Answered
        <5> QED
          BY <1>2, <2>1, <2>2, <3>3, <4>1, <5>2, <5>3 DEF Holder, ScriptAt, Steps, Scripts
      <4> QED
        BY <4>3, <4>4
    <3> QED
      BY <2>3, <3>1, <3>2, <3>3
  <2>8. \A value \in reported'[p] : /\ value \in Values /\ value.from.of = value.asked
                                    /\ Backlog <= Len(Connecting) => ~value.from.old
    <3>1. CASE asked \notin Range(Live)
      BY <1>1, <2>1, <3>1
    <3>2. CASE asked \in Range(Live)
      <4>1. connected[p]
        <5>1. script[p] \in Suffixes(Goodbye) => asked = "close"
          BY <2>3, RestOfScript, TheScripts, TheCommands
        <5>2. script[p] \in Suffixes(Connecting) => asked \in Range(Connecting)
          BY <2>3, RestOfScript, TheScripts
        <5> QED
          BY <2>3, <3>2, <5>1, <5>2, TheCommands
      <4>2. Backlog <= Len(Connecting) => OldWithin(0)
        <5>1. OldWithin(Backlog - 8)
          BY <2>5, <4>1, TheScripts DEF Answered
        <5>2. DOMAIN input = 1..Len(input)
          BY Types
        <5> QED
          BY <1>1, <5>1, <5>2, TheScripts DEF OldWithin
      <4>3. \A value \in Value(asked, input) :
              /\ value \in Values /\ value.from.of = value.asked
              /\ Backlog <= Len(Connecting) => ~value.from.old
        BY <3>2, <4>2, ValuesOfAnswers
      <4> QED
        BY <1>1, <2>1, <3>2, <4>3
    <3> QED
      BY <3>1, <3>2
  <2>9. OldWithin(Backlog - Answered(p))'
    <3>1. PICK m \in {n, n + 1} : Answered(p)' = m
      BY <2>7
    <3>2. OldWithin(Backlog - m)'
      BY <2>6
    <3> QED
      BY <3>1, <3>2 DEF OldWithin
  <2>10. Len(input') + Len(owed') <= Backlog /\ Len(owed') <= Backlog
    BY <1>1, <1>2, <2>4
  <2> QED
    BY <1>1, <1>2, <2>1, <2>2, <2>4, <2>7, <2>8, <2>9, <2>10, ActorStep
<1> QED
  BY <1>3, <1>4 DEF Read
--------------------------------------------------------------------------------
LEMMA NextIInv == IInv /\ [Next]_vars => IInv'
<1> SUFFICES ASSUME IInv, [Next]_vars PROVE IInv'
  OBVIOUS
<1>1. CASE Answer
  BY <1>1, AnswerStep
<1>2. ASSUME NEW p \in Procs, Connect(p) \/ ReadLive(p) \/ Disconnect(p)
      PROVE  IInv'
  BY <1>2, BeginStep
<1>3. ASSUME NEW p \in Procs, Step(p) \/ Die(p)
      PROVE  IInv'
  BY <1>3, OpenPortStep, SendStep, ReadStep, TimeoutStep, FileStep, ReleaseStep DEF Step
<1>4. CASE UNCHANGED vars
  BY <1>4 DEF vars, IInv, TypeOK, Holder, ScriptAt, Answered, OldWithin
<1> QED
  BY <1>1, <1>2, <1>3, <1>4 DEF Next

(* The inductive invariant: a process has the lock while it does something *)
(* or is connected and the port from its opening to its close, and every   *)
(* command of its connection that was answered took one of the answers     *)
(* still due to an earlier one.                                            *)
THEOREM AdapterInvariance == Spec => []IInv
<1> QED
  BY InitIInv, NextIInv, PTL DEF Spec

(* Type correctness for any processes; never more answers wait than        *)
(* commands the adapter keeps.                                             *)
THEOREM AdapterTypes == Spec => []TypeOK
<1>1. IInv => TypeOK
  BY DEF IInv
<1> QED
  BY <1>1, AdapterInvariance, PTL

(* One process owns the adapter, from its lock to its port, just while it  *)
(* does something with it or its service says it is connected, however     *)
(* its operations end or the process dies.                                 *)
THEOREM OneOwner == Spec => []OwnedWhileConnected
<1>1. IInv => OwnedWhileConnected
  BY DEF IInv, OwnedWhileConnected, Holder
<1> QED
  BY <1>1, AdapterInvariance, PTL

(* A live value answers the PID it is filed under, and never a command of  *)
(* an earlier connection, if the adapter keeps no more commands than a     *)
(* connection asks: they drain the late answers one by one.                *)
THEOREM LateAnswersAreDrained ==
  ASSUME Backlog <= Len(Connecting)
  PROVE  Spec => []ValuesAreOurs
<1>1. IInv => ValuesAreOurs
  BY DEF IInv, ValuesAreOurs
<1> QED
  BY <1>1, AdapterInvariance, PTL
================================================================================
