-------------------------- MODULE EvidenceRecordsProofs ---------------------------
(* Proofs about EvidenceRecords for any request threads, ways to write     *)
(* VINs, earlier fleets and bounds.                                        *)
EXTENDS EvidenceRecords, SequenceTheorems, TLAPS

(* A prefix, element by element. *)
LEMMA PrefixIs ==
  ASSUME NEW S, NEW s \in Seq(S), NEW t \in Seq(S)
  PROVE  IsPrefix(s, t) <=> Len(s) <= Len(t) /\ \A i \in 1..Len(s) : s[i] = t[i]
<1>1. Len(s) \in Nat /\ Len(t) \in Nat
  BY LenProperties
<1>2. /\ SubSeq(s, 1, Len(s)) \in Seq(S) /\ Len(SubSeq(s, 1, Len(s))) = Len(s)
      /\ \A i \in 1..Len(s) : SubSeq(s, 1, Len(s))[i] = s[i]
  BY <1>1, SubSeqFull
<1>3. CASE Len(s) <= Len(t)
  <2>1. \A i \in 1..Len(s) : t[i] \in S
    BY <1>1, <1>3, ElementOfSeq
  <2>2. /\ SubSeq(t, 1, Len(s)) \in Seq(S)
        /\ Len(SubSeq(t, 1, Len(s))) = IF 1 <= Len(s) THEN Len(s) - 1 + 1 ELSE 0
        /\ \A i \in 1..(Len(s) - 1 + 1) : SubSeq(t, 1, Len(s))[i] = t[1 + i - 1]
    BY <1>1, <2>1, SubSeqProperties
  <2>3. /\ Len(SubSeq(t, 1, Len(s))) = Len(s)
        /\ \A i \in 1..Len(s) : SubSeq(t, 1, Len(s))[i] = t[i]
    BY <1>1, <2>2
  <2>4. SubSeq(s, 1, Len(s)) = SubSeq(t, 1, Len(s))
          <=> \A i \in 1..Len(s) : s[i] = t[i]
    BY <1>2, <2>2, <2>3, SeqEqual
  <2> QED
    BY <1>3, <2>4 DEF IsPrefix
<1>4. CASE ~(Len(s) <= Len(t))
  BY <1>4 DEF IsPrefix
<1> QED
  BY <1>3, <1>4

(* A table is a prefix of itself, and of itself with one more row. *)
LEMMA PrefixOfItself == ASSUME NEW S, NEW s \in Seq(S) PROVE IsPrefix(s, s)
BY PrefixIs, LenProperties

LEMMA PrefixOfAppend ==
  ASSUME NEW S, NEW s \in Seq(S), NEW e \in S
  PROVE  IsPrefix(s, Append(s, e))
<1>1. /\ Append(s, e) \in Seq(S) /\ Len(Append(s, e)) = Len(s) + 1
      /\ \A i \in 1..Len(s) : Append(s, e)[i] = s[i]
  BY AppendProperties
<1>2. Len(s) \in Nat
  BY LenProperties
<1>3. Len(s) <= Len(Append(s, e))
  BY <1>1, <1>2
<1> QED
  BY <1>1, <1>3, PrefixIs

LEMMA RowsOfPrefix ==
  ASSUME NEW S, NEW s \in Seq(S), NEW t \in Seq(S), IsPrefix(s, t)
  PROVE  Len(s) <= Len(t) /\ \A i \in DOMAIN s : i \in DOMAIN t /\ t[i] = s[i]
<1>1. /\ DOMAIN s = 1..Len(s) /\ DOMAIN t = 1..Len(t)
      /\ Len(s) \in Nat /\ Len(t) \in Nat
  BY LenProperties
<1>2. Len(s) <= Len(t) /\ \A i \in 1..Len(s) : s[i] = t[i]
  BY PrefixIs
<1>3. \A i \in 1..Len(s) : i \in 1..Len(t)
  BY <1>1, <1>2
<1> QED
  BY <1>1, <1>2, <1>3

(* The tables of a database. *)
LEMMA Tables ==
  ASSUME NEW db \in Databases
  PROVE  /\ db.version \in 0..2 /\ db.parts \subseteq AllParts
         /\ db.vehicles \in Seq(Forms \cup {Nobody}) /\ db.customers \in Nat
         /\ db.cases \in Seq([customer : Nat, vehicle : Nat]) /\ db.sessions \in Seq(Nat)
         /\ db.connections \in Seq([session : Nat, open : BOOLEAN])
         /\ db.snapshots \in Seq([session : Nat, connection : Nat])
         /\ db.clears \in Seq([session : Nat, connection : Nat, before : Nat])
         /\ db.orphans \in BOOLEAN
         /\ Len(db.vehicles) \in Nat /\ DOMAIN db.vehicles = 1..Len(db.vehicles)
         /\ Len(db.cases) \in Nat /\ DOMAIN db.cases = 1..Len(db.cases)
         /\ Len(db.sessions) \in Nat /\ DOMAIN db.sessions = 1..Len(db.sessions)
         /\ Len(db.connections) \in Nat /\ DOMAIN db.connections = 1..Len(db.connections)
         /\ Len(db.snapshots) \in Nat /\ DOMAIN db.snapshots = 1..Len(db.snapshots)
         /\ Len(db.clears) \in Nat /\ DOMAIN db.clears = 1..Len(db.clears)
BY LenProperties DEF Databases, Current

LEMMA TablesStay ==
  ASSUME NEW db \in Databases
  PROVE  /\ db.customers <= db.customers
         /\ IsPrefix(db.vehicles, db.vehicles) /\ IsPrefix(db.cases, db.cases)
         /\ IsPrefix(db.sessions, db.sessions) /\ IsPrefix(db.snapshots, db.snapshots)
         /\ IsPrefix(db.clears, db.clears)
BY Tables, PrefixOfItself

(* Equal tables are kept, whatever else changes. *)
LEMMA KeptSame ==
  ASSUME NEW db \in Databases, NEW new \in Databases,
         new.vehicles = db.vehicles, new.customers = db.customers, new.cases = db.cases,
         new.sessions = db.sessions, new.snapshots = db.snapshots, new.clears = db.clears,
         new.connections = db.connections
  PROVE  Kept(db, new)
BY Tables, PrefixOfItself DEF Kept

(* What is kept, row by row. *)
LEMMA KeptRows ==
  ASSUME NEW db \in Databases, NEW new \in Databases, Kept(db, new)
  PROVE  /\ db.customers <= new.customers /\ Len(db.vehicles) <= Len(new.vehicles)
         /\ \A i \in DOMAIN db.snapshots : /\ i \in DOMAIN new.snapshots
                                           /\ new.snapshots[i] = db.snapshots[i]
         /\ \A c \in DOMAIN db.connections :
              /\ c \in DOMAIN new.connections
              /\ new.connections[c].session = db.connections[c].session
<1>1. Len(db.vehicles) <= Len(new.vehicles)
  BY Tables, PrefixIs DEF Kept
<1>2. /\ db.snapshots \in Seq([session : Nat, connection : Nat])
      /\ new.snapshots \in Seq([session : Nat, connection : Nat])
  BY Tables
<1>3. IsPrefix(db.snapshots, new.snapshots)
  BY DEF Kept
<1>4. \A i \in DOMAIN db.snapshots : i \in DOMAIN new.snapshots /\ new.snapshots[i] = db.snapshots[i]
  BY <1>2, <1>3, RowsOfPrefix
<1> QED
  BY <1>1, <1>4 DEF Kept

(* What is kept twice is kept. *)
LEMMA PrefixTransitive ==
  ASSUME NEW S, NEW s \in Seq(S), NEW t \in Seq(S), NEW u \in Seq(S),
         IsPrefix(s, t), IsPrefix(t, u)
  PROVE  IsPrefix(s, u)
<1>1. /\ Len(s) \in Nat /\ Len(t) \in Nat /\ Len(u) \in Nat
      /\ DOMAIN s = 1..Len(s) /\ DOMAIN t = 1..Len(t)
  BY LenProperties
<1>2. Len(s) <= Len(t) /\ Len(t) <= Len(u)
  BY RowsOfPrefix
<1>3. \A i \in 1..Len(s) : s[i] = u[i]
  BY <1>1, RowsOfPrefix
<1>4. Len(s) <= Len(u)
  BY <1>1, <1>2
<1> QED
  BY <1>3, <1>4, PrefixIs

LEMMA KeptTransitive ==
  ASSUME NEW old \in Databases, NEW mid \in Databases, NEW new \in Databases,
         Kept(old, mid), Kept(mid, new)
  PROVE  Kept(old, new)
<1>1. \A db \in Databases :
        /\ db.vehicles \in Seq(Forms \cup {Nobody})
        /\ db.cases \in Seq([customer : Nat, vehicle : Nat])
        /\ db.sessions \in Seq(Nat)
        /\ db.snapshots \in Seq([session : Nat, connection : Nat])
        /\ db.clears \in Seq([session : Nat, connection : Nat, before : Nat])
  BY Tables
<1>2. /\ IsPrefix(old.vehicles, new.vehicles)
      /\ IsPrefix(old.cases, new.cases)
      /\ IsPrefix(old.sessions, new.sessions)
      /\ IsPrefix(old.snapshots, new.snapshots)
      /\ IsPrefix(old.clears, new.clears)
  <2>1. IsPrefix(old.vehicles, mid.vehicles) /\ IsPrefix(mid.vehicles, new.vehicles)
    BY DEF Kept
  <2>2. IsPrefix(old.vehicles, new.vehicles)
    BY <1>1, <2>1, PrefixTransitive
  <2>3. IsPrefix(old.cases, mid.cases) /\ IsPrefix(mid.cases, new.cases)
    BY DEF Kept
  <2>4. IsPrefix(old.cases, new.cases)
    BY <1>1, <2>3, PrefixTransitive
  <2>5. IsPrefix(old.sessions, mid.sessions) /\ IsPrefix(mid.sessions, new.sessions)
    BY DEF Kept
  <2>6. IsPrefix(old.sessions, new.sessions)
    BY <1>1, <2>5, PrefixTransitive
  <2>7. IsPrefix(old.snapshots, mid.snapshots) /\ IsPrefix(mid.snapshots, new.snapshots)
    BY DEF Kept
  <2>8. IsPrefix(old.snapshots, new.snapshots)
    BY <1>1, <2>7, PrefixTransitive
  <2>9. IsPrefix(old.clears, mid.clears) /\ IsPrefix(mid.clears, new.clears)
    BY DEF Kept
  <2>10. IsPrefix(old.clears, new.clears)
    BY <1>1, <2>9, PrefixTransitive
  <2> QED
    BY <2>2, <2>4, <2>6, <2>8, <2>10
<1>4. old.customers <= new.customers
  <2>1. old.customers <= mid.customers /\ mid.customers <= new.customers
    BY DEF Kept
  <2> QED
    BY <2>1, Tables
<1>5. \A c \in DOMAIN old.connections :
        /\ c \in DOMAIN new.connections
        /\ new.connections[c].session = old.connections[c].session
        /\ old.connections[c].open \/ new.connections[c] = old.connections[c]
  BY DEF Kept
<1> QED
  BY <1>2, <1>4, <1>5 DEF Kept

(* A lineage on file leads to the same rows. *)
LEMMA LineageStays ==
  ASSUME NEW db \in Databases, NEW new \in Databases, Kept(db, new), NEW a, Lineage(db, a)
  PROVE  Lineage(new, a)
BY KeptRows DEF Lineage

(* What a request knows, it knows of a database that kept the rows.        *)
LEMMA StillKnown ==
  ASSUME NEW db \in Databases, NEW new \in Databases, NEW a \in Requests,
         Kept(db, new), Known(db, a)
  PROVE  Known(new, a)
<1>1. ASSUME a.kind = "session"
      PROVE  a.customer \in 1..new.customers /\ a.vehicle \in DOMAIN new.vehicles
  <2>1. a.customer \in 1..db.customers /\ a.vehicle \in 1..Len(db.vehicles)
    BY <1>1, Tables DEF Known
  <2>2. db.customers <= new.customers /\ Len(db.vehicles) <= Len(new.vehicles)
    BY KeptRows
  <2>3. /\ db.customers \in Nat /\ new.customers \in Nat
        /\ Len(db.vehicles) \in Nat /\ Len(new.vehicles) \in Nat
        /\ DOMAIN new.vehicles = 1..Len(new.vehicles)
    BY Tables
  <2>4. a.customer \in 1..new.customers
    BY <2>1, <2>2, <2>3
  <2>5. a.vehicle \in 1..Len(new.vehicles)
    BY <2>1, <2>2, <2>3
  <2> QED
    BY <2>3, <2>4, <2>5
<1>2. ASSUME a.kind = "clear"
      PROVE  Lineage(new, a)
  BY <1>2, LineageStays DEF Known
<1> QED
  BY <1>1, <1>2 DEF Known
(* Sessions and clear events on file are as whole as they were, if only    *)
(* other rows are added.                                                   *)
LEMMA SessionsStay ==
  ASSUME NEW db \in Databases, NEW new \in Databases, Kept(db, new),
         new.cases = db.cases, new.sessions = db.sessions, SessionsAreWhole(db)
  PROVE  SessionsAreWhole(new)
<1>1. ASSUME NEW s \in DOMAIN db.sessions
      PROVE  /\ db.cases[s].customer \in 1..new.customers
             /\ db.cases[s].vehicle \in DOMAIN new.vehicles
  <2>1. db.cases[s].customer \in 1..db.customers /\ db.cases[s].vehicle \in 1..Len(db.vehicles)
    BY Tables DEF SessionsAreWhole
  <2>2. db.customers <= new.customers /\ Len(db.vehicles) <= Len(new.vehicles)
    BY KeptRows
  <2>3. /\ db.customers \in Nat /\ new.customers \in Nat
        /\ Len(db.vehicles) \in Nat /\ Len(new.vehicles) \in Nat
        /\ DOMAIN new.vehicles = 1..Len(new.vehicles)
    BY Tables
  <2>4. db.cases[s].customer \in 1..new.customers
    BY <2>1, <2>2, <2>3
  <2>5. db.cases[s].vehicle \in 1..Len(new.vehicles)
    BY <2>1, <2>2, <2>3
  <2> QED
    BY <2>3, <2>4, <2>5
<1> QED
  BY <1>1 DEF SessionsAreWhole

LEMMA ClearsStay ==
  ASSUME NEW db \in Databases, NEW new \in Databases, Kept(db, new),
         new.clears = db.clears, ClearsHaveLineage(db)
  PROVE  ClearsHaveLineage(new)
BY LineageStays DEF ClearsHaveLineage
--------------------------------------------------------------------------------
(* What a request leaves in the database, when its look-ups hold and the   *)
(* schema accepts its rows.                                                *)
Sound(db) == SessionsAreWhole(db) /\ ClearsHaveLineage(db) /\ ~Duplicates(db.vehicles)

Extends(db, new) ==
  /\ new \in Databases /\ Kept(db, new) /\ Sound(new)
  /\ new.version = db.version /\ new.parts = db.parts

LEMMA FiledCustomer ==
  ASSUME NEW db \in Databases, Sound(db)
  PROVE  Extends(db, [db EXCEPT !.customers = @ + 1])
<1> DEFINE new == [db EXCEPT !.customers = @ + 1]
<1>1. /\ new \in Databases
      /\ new.version = db.version /\ new.parts = db.parts /\ new.vehicles = db.vehicles
      /\ new.cases = db.cases /\ new.sessions = db.sessions
      /\ new.connections = db.connections /\ new.snapshots = db.snapshots
      /\ new.clears = db.clears /\ new.customers = db.customers + 1
  <2>1. db.customers + 1 \in Nat
    BY Tables
  <2> QED
    BY <2>1 DEF Databases
<1> HIDE DEF new
<1>2. db.customers <= new.customers
  BY <1>1, Tables
<1>3. Kept(db, new)
  BY <1>1, <1>2, Tables, PrefixOfItself DEF Kept
<1>4. SessionsAreWhole(new) /\ ClearsHaveLineage(new) /\ ~Duplicates(new.vehicles)
  BY <1>1, <1>3, SessionsStay, ClearsStay DEF Sound
<1> QED
  BY <1>1, <1>3, <1>4 DEF Extends, Sound, new

LEMMA FiledVehicle ==
  ASSUME NEW db \in Databases, Sound(db), NEW vin \in Vins \cup {Nobody},
         vin = Nobody \/ Same(db.vehicles, vin) = {}
  PROVE  Extends(db, [db EXCEPT !.vehicles = Append(@, vin)])
<1> USE RecordsAssumption
<1> DEFINE new == [db EXCEPT !.vehicles = Append(@, vin)]
<1>0. /\ db.vehicles \in Seq(Forms \cup {Nobody}) /\ vin \in Forms \cup {Nobody}
      /\ Len(db.vehicles) \in Nat /\ DOMAIN db.vehicles = 1..Len(db.vehicles)
  BY Tables
<1>1. /\ new.version = db.version /\ new.parts = db.parts /\ new.customers = db.customers
      /\ new.cases = db.cases /\ new.sessions = db.sessions
      /\ new.connections = db.connections /\ new.snapshots = db.snapshots
      /\ new.clears = db.clears /\ new.vehicles = Append(db.vehicles, vin)
  BY DEF Databases
<1>2. /\ Append(db.vehicles, vin) \in Seq(Forms \cup {Nobody})
      /\ Len(new.vehicles) = Len(db.vehicles) + 1
      /\ DOMAIN new.vehicles = 1..Len(new.vehicles)
      /\ \A i \in 1..Len(db.vehicles) : new.vehicles[i] = db.vehicles[i]
      /\ new.vehicles[Len(db.vehicles) + 1] = vin
  BY <1>0, <1>1, AppendProperties, LenProperties
<1>3. new \in Databases
  BY <1>2 DEF Databases
<1> HIDE DEF new
<1>4. Kept(db, new)
  BY <1>0, <1>1, Tables, PrefixOfItself, PrefixOfAppend DEF Kept
<1>5. ~Duplicates(new.vehicles)
  <2>1. SUFFICES ASSUME NEW i \in DOMAIN new.vehicles, new.vehicles[i] # Nobody,
                        NEW j \in Same(new.vehicles, Normal[new.vehicles[i]]), j # i
                 PROVE  FALSE
    <3>1. \A i \in DOMAIN new.vehicles :
            new.vehicles[i] # Nobody => i \in Same(new.vehicles, Normal[new.vehicles[i]])
      BY DEF Same
    <3> QED
      BY <3>1 DEF Duplicates
  <2>2. /\ j \in DOMAIN new.vehicles /\ new.vehicles[j] # Nobody
        /\ Normal[new.vehicles[j]] = Normal[new.vehicles[i]]
    BY <2>1 DEF Same
  <2>3. \A k \in DOMAIN new.vehicles : k \in 1..Len(db.vehicles) \/ k = Len(db.vehicles) + 1
    BY <1>0, <1>2
  <2>4. ASSUME NEW k \in 1..Len(db.vehicles), db.vehicles[k] # Nobody,
               vin # Nobody, Normal[db.vehicles[k]] = Normal[vin]
        PROVE  FALSE
    <3>1. vin \in Vins /\ Normal[vin] = vin
      BY <2>4
    <3> QED
      BY <1>0, <2>4, <3>1 DEF Same
  <2>5. CASE i \in 1..Len(db.vehicles) /\ j \in 1..Len(db.vehicles)
    <3>1. j \in Same(db.vehicles, Normal[db.vehicles[i]]) /\ db.vehicles[i] # Nobody
      BY <1>0, <1>2, <2>1, <2>2, <2>5 DEF Same
    <3>2. Same(db.vehicles, Normal[db.vehicles[i]]) # {i}
      BY <2>1, <3>1
    <3>3. i \in DOMAIN db.vehicles
      BY <1>0, <2>5
    <3> QED
      BY <3>1, <3>2, <3>3 DEF Sound, Duplicates
  <2>6. CASE i \in 1..Len(db.vehicles) /\ j = Len(db.vehicles) + 1
    BY <1>2, <2>1, <2>2, <2>4, <2>6
  <2>7. CASE i = Len(db.vehicles) + 1 /\ j \in 1..Len(db.vehicles)
    BY <1>2, <2>1, <2>2, <2>4, <2>7
  <2> QED
    BY <2>1, <2>2, <2>3, <2>5, <2>6, <2>7
<1>6. SessionsAreWhole(new) /\ ClearsHaveLineage(new)
  BY <1>1, <1>3, <1>4, SessionsStay, ClearsStay DEF Sound
<1> QED
  BY <1>1, <1>3, <1>4, <1>5, <1>6 DEF Extends, Sound, new
WithCase(db, customer, vehicle) ==
  [db EXCEPT !.cases = Append(@, [customer |-> customer, vehicle |-> vehicle])]

WithSession(db, customer, vehicle) ==
  [WithCase(db, customer, vehicle) EXCEPT !.sessions = Append(@, Len(db.cases) + 1)]

LEMMA FiledSession ==
  ASSUME NEW db \in Databases, Sound(db), NEW customer \in 1..db.customers,
         NEW vehicle \in DOMAIN db.vehicles
  PROVE  Extends(db, WithSession(db, customer, vehicle))
<1> DEFINE case == [customer |-> customer, vehicle |-> vehicle]
           new == WithSession(db, customer, vehicle)
<1>1. /\ db.cases \in Seq([customer : Nat, vehicle : Nat]) /\ db.sessions \in Seq(Nat)
      /\ Len(db.cases) \in Nat /\ DOMAIN db.cases = 1..Len(db.cases)
      /\ DOMAIN db.sessions = 1..Len(db.sessions) /\ Len(db.sessions) = Len(db.cases)
  BY Tables DEF Sound, SessionsAreWhole
<1>2. /\ case \in [customer : Nat, vehicle : Nat] /\ case.customer = customer
      /\ case.vehicle = vehicle
  <2>1. customer \in Nat
    BY Tables
  <2>2. vehicle \in Nat
    BY Tables
  <2> QED
    BY <2>1, <2>2
<1>3. /\ new.version = db.version /\ new.parts = db.parts /\ new.customers = db.customers
      /\ new.vehicles = db.vehicles /\ new.cases = Append(db.cases, case)
      /\ new.sessions = Append(db.sessions, Len(db.cases) + 1)
      /\ new.connections = db.connections /\ new.snapshots = db.snapshots
      /\ new.clears = db.clears
  BY DEF Databases, WithSession, WithCase
<1> HIDE DEF case
<1>4. /\ Append(db.cases, case) \in Seq([customer : Nat, vehicle : Nat])
      /\ Len(new.cases) = Len(db.cases) + 1
      /\ \A i \in 1..Len(db.cases) : new.cases[i] = db.cases[i]
      /\ new.cases[Len(db.cases) + 1] = case
  BY <1>1, <1>2, <1>3, AppendProperties
<1>5. Len(db.cases) + 1 \in Nat
  BY <1>1
<1>6. /\ Append(db.sessions, Len(db.cases) + 1) \in Seq(Nat)
      /\ Len(new.sessions) = Len(db.cases) + 1
      /\ DOMAIN new.sessions = 1..Len(new.sessions)
      /\ \A i \in 1..Len(db.cases) : new.sessions[i] = db.sessions[i]
      /\ new.sessions[Len(db.cases) + 1] = Len(db.cases) + 1
  BY <1>1, <1>3, <1>5, AppendProperties, LenProperties
<1>7. new \in Databases
  BY <1>3, <1>4, <1>6 DEF Databases, WithSession, WithCase
<1> HIDE DEF new
<1>8. Kept(db, new)
  <2>1. IsPrefix(db.cases, new.cases)
    BY <1>1, <1>2, <1>3, PrefixOfAppend
  <2>2. IsPrefix(db.sessions, new.sessions)
    BY <1>1, <1>3, <1>5, PrefixOfAppend
  <2> QED
    BY <1>3, <2>1, <2>2, TablesStay DEF Kept
<1>9. SessionsAreWhole(new)
  <2>1. ASSUME NEW s \in DOMAIN new.sessions
        PROVE  /\ new.sessions[s] = s
               /\ new.cases[s].customer \in 1..new.customers
               /\ new.cases[s].vehicle \in DOMAIN new.vehicles
    <3>1. s \in 1..Len(db.cases) \/ s = Len(db.cases) + 1
      BY <1>1, <1>6, <2>1
    <3>2. CASE s \in 1..Len(db.cases)
      BY <1>1, <1>3, <1>4, <1>6, <3>2 DEF Sound, SessionsAreWhole
    <3>3. CASE s = Len(db.cases) + 1
      BY <1>2, <1>3, <1>4, <1>6, <3>3
    <3> QED
      BY <3>1, <3>2, <3>3
  <2> QED
    BY <1>4, <1>6, <2>1 DEF SessionsAreWhole
<1>10. ClearsHaveLineage(new) /\ ~Duplicates(new.vehicles)
  BY <1>3, <1>7, <1>8, ClearsStay DEF Sound
<1> QED
  BY <1>3, <1>7, <1>8, <1>9, <1>10 DEF Extends, Sound, new, case

LEMMA FiledConnection ==
  ASSUME NEW db \in Databases, Sound(db), NEW session \in Nat
  PROVE  Extends(db, [db EXCEPT !.connections = Append(@, [session |-> session, open |-> TRUE])])
<1> DEFINE row == [session |-> session, open |-> TRUE]
           new == [db EXCEPT !.connections = Append(@, row)]
<1>1. /\ db.connections \in Seq([session : Nat, open : BOOLEAN])
      /\ Len(db.connections) \in Nat /\ DOMAIN db.connections = 1..Len(db.connections)
  BY Tables
<1>2. row \in [session : Nat, open : BOOLEAN]
  OBVIOUS
<1> HIDE DEF row
<1>3. /\ new.version = db.version /\ new.parts = db.parts /\ new.customers = db.customers
      /\ new.vehicles = db.vehicles /\ new.cases = db.cases /\ new.sessions = db.sessions
      /\ new.connections = Append(db.connections, row) /\ new.snapshots = db.snapshots
      /\ new.clears = db.clears
  BY DEF Databases
<1>4. Append(db.connections, row) \in Seq([session : Nat, open : BOOLEAN])
  BY <1>1, <1>2, AppendProperties
<1>5. new \in Databases
  BY <1>4 DEF Databases
<1> HIDE DEF new
<1>6. \A c \in DOMAIN db.connections : c \in DOMAIN new.connections
                                       /\ new.connections[c] = db.connections[c]
  BY <1>1, <1>2, <1>3, <1>4, PrefixOfAppend, RowsOfPrefix
<1>7. Kept(db, new)
  BY <1>3, <1>6, Tables, PrefixOfItself DEF Kept
<1>8. SessionsAreWhole(new) /\ ClearsHaveLineage(new) /\ ~Duplicates(new.vehicles)
  BY <1>3, <1>5, <1>7, SessionsStay, ClearsStay DEF Sound
<1> QED
  BY <1>3, <1>5, <1>7, <1>8 DEF Extends, Sound, new, row

LEMMA FiledSnapshot ==
  ASSUME NEW db \in Databases, Sound(db), NEW session \in Nat, NEW connection \in Nat
  PROVE  Extends(db, [db EXCEPT !.snapshots =
                        Append(@, [session |-> session, connection |-> connection])])
<1> DEFINE row == [session |-> session, connection |-> connection]
           new == [db EXCEPT !.snapshots = Append(@, row)]
<1>1. db.snapshots \in Seq([session : Nat, connection : Nat])
  BY Tables
<1>2. row \in [session : Nat, connection : Nat]
  OBVIOUS
<1> HIDE DEF row
<1>3. /\ new.version = db.version /\ new.parts = db.parts /\ new.customers = db.customers
      /\ new.vehicles = db.vehicles /\ new.cases = db.cases /\ new.sessions = db.sessions
      /\ new.connections = db.connections /\ new.snapshots = Append(db.snapshots, row)
      /\ new.clears = db.clears
  BY DEF Databases
<1>4. Append(db.snapshots, row) \in Seq([session : Nat, connection : Nat])
  BY <1>1, <1>2, AppendProperties
<1>5. new \in Databases
  BY <1>4 DEF Databases
<1> HIDE DEF new
<1>6. Kept(db, new)
  <2>1. IsPrefix(db.snapshots, new.snapshots)
    BY <1>1, <1>2, <1>3, PrefixOfAppend
  <2> QED
    BY <1>3, <2>1, TablesStay DEF Kept
<1>7. SessionsAreWhole(new) /\ ClearsHaveLineage(new) /\ ~Duplicates(new.vehicles)
  BY <1>3, <1>5, <1>6, SessionsStay, ClearsStay DEF Sound
<1> QED
  BY <1>3, <1>5, <1>6, <1>7 DEF Extends, Sound, new, row

LEMMA FiledClear ==
  ASSUME NEW db \in Databases, Sound(db), NEW session \in Nat, NEW connection \in Nat,
         NEW before \in Nat,
         Lineage(db, [session |-> session, connection |-> connection, before |-> before])
  PROVE  Extends(db, [db EXCEPT !.clears =
           Append(@, [session |-> session, connection |-> connection, before |-> before])])
<1> DEFINE row == [session |-> session, connection |-> connection, before |-> before]
           new == [db EXCEPT !.clears = Append(@, row)]
           Clears == [session : Nat, connection : Nat, before : Nat]
<1>1. /\ db.clears \in Seq(Clears) /\ Len(db.clears) \in Nat
      /\ DOMAIN db.clears = 1..Len(db.clears)
  BY Tables
<1>2. row \in Clears /\ Lineage(db, row)
  OBVIOUS
<1> HIDE DEF row
<1>3. /\ new.version = db.version /\ new.parts = db.parts /\ new.customers = db.customers
      /\ new.vehicles = db.vehicles /\ new.cases = db.cases /\ new.sessions = db.sessions
      /\ new.connections = db.connections /\ new.snapshots = db.snapshots
      /\ new.clears = Append(db.clears, row)
  BY DEF Databases
<1> HIDE DEF Clears
<1>4. /\ Append(db.clears, row) \in Seq(Clears)
      /\ Len(new.clears) = Len(db.clears) + 1 /\ DOMAIN new.clears = 1..Len(new.clears)
      /\ \A i \in 1..Len(db.clears) : new.clears[i] = db.clears[i]
      /\ new.clears[Len(db.clears) + 1] = row
  BY <1>1, <1>2, <1>3, AppendProperties, LenProperties
<1>5. new \in Databases
  BY <1>4 DEF Databases, Clears
<1> HIDE DEF new
<1>6. Kept(db, new)
  BY <1>1, <1>2, <1>3, Tables, PrefixOfItself, PrefixOfAppend DEF Kept
<1>7. ClearsHaveLineage(new)
  <2>1. ASSUME NEW i \in DOMAIN new.clears
        PROVE  Lineage(db, new.clears[i])
    <3>1. i \in 1..Len(db.clears) \/ i = Len(db.clears) + 1
      BY <1>1, <1>4, <2>1
    <3> QED
      BY <1>1, <1>2, <1>4, <3>1 DEF Sound, ClearsHaveLineage
  <2> QED
    BY <1>5, <1>6, <2>1, LineageStays DEF ClearsHaveLineage
<1>8. SessionsAreWhole(new) /\ ~Duplicates(new.vehicles)
  BY <1>3, <1>5, <1>6, SessionsStay DEF Sound
<1> QED
  BY <1>3, <1>5, <1>6, <1>7, <1>8 DEF Extends, Sound, new, row
(* Whatever is asked: a request whose look-ups hold extends a database     *)
(* that accepts its rows.                                                  *)
LEMMA FiledExtends ==
  ASSUME NEW db \in Databases, Sound(db), NEW a \in Requests, Known(db, a), Accepts(db, a)
  PROVE  Extends(db, Filed(db, a))
<1>1. CASE a \in [kind : {"customer"}]
  <2>1. a.kind = "customer"
    BY <1>1
  <2>2. Filed(db, a) = [db EXCEPT !.customers = @ + 1]
    BY <2>1 DEF Filed, Row
  <2> QED
    BY <2>2, FiledCustomer
<1>2. CASE a \in [kind : {"vehicle"}, vin : Vins \cup {Nobody}]
  <2>1. a.kind = "vehicle" /\ a.vin \in Vins \cup {Nobody}
    BY <1>2
  <2>2. a.vin = Nobody \/ Same(db.vehicles, a.vin) = {}
    BY <2>1 DEF Accepts
  <2>3. Filed(db, a) = [db EXCEPT !.vehicles = Append(@, a.vin)]
    BY <2>1 DEF Filed, Row
  <2> QED
    BY <2>1, <2>2, <2>3, FiledVehicle
<1>3. CASE a \in [kind : {"session"}, customer : Nat, vehicle : Nat]
  <2>1. a.kind = "session"
    BY <1>3
  <2>2. a.customer \in 1..db.customers /\ a.vehicle \in DOMAIN db.vehicles
    BY <2>1 DEF Known
  <2> DEFINE case == [customer |-> a.customer, vehicle |-> a.vehicle]
             first == WithCase(db, a.customer, a.vehicle)
  <2>3. Row(db, a) = first
    BY <2>1 DEF Row, WithCase
  <2>4. Len(first.cases) = Len(db.cases) + 1
    <3>1. db.cases \in Seq([customer : Nat, vehicle : Nat])
      BY Tables
    <3>2. case \in [customer : Nat, vehicle : Nat]
      BY <1>3
    <3>3. first.cases = Append(db.cases, case)
      BY DEF Databases, WithCase
    <3> HIDE DEF case, first
    <3> QED
      BY <3>1, <3>2, <3>3, AppendProperties
  <2>5. Filed(db, a) = WithSession(db, a.customer, a.vehicle)
    BY <2>1, <2>3, <2>4 DEF Filed, WithSession
  <2> QED
    BY <2>2, <2>5, FiledSession
<1>4. CASE a \in [kind : {"connection"}, session : Nat]
  <2>1. a.kind = "connection" /\ a.session \in Nat
    BY <1>4
  <2>2. Filed(db, a)
          = [db EXCEPT !.connections = Append(@, [session |-> a.session, open |-> TRUE])]
    BY <2>1 DEF Filed, Row
  <2> QED
    BY <2>1, <2>2, FiledConnection
<1>5. CASE a \in [kind : {"snapshot"}, session : Nat, connection : Nat]
  <2>1. a.kind = "snapshot" /\ a.session \in Nat /\ a.connection \in Nat
    BY <1>5
  <2>2. Filed(db, a) = [db EXCEPT !.snapshots =
                          Append(@, [session |-> a.session, connection |-> a.connection])]
    BY <2>1 DEF Filed, Row
  <2> QED
    BY <2>1, <2>2, FiledSnapshot
<1>6. CASE a \in [kind : {"clear"}, session : Nat, connection : Nat, before : Nat]
  <2>1. a.kind = "clear" /\ a.session \in Nat /\ a.connection \in Nat /\ a.before \in Nat
    BY <1>6
  <2>2. Lineage(db, [session |-> a.session, connection |-> a.connection, before |-> a.before])
    BY <2>1 DEF Known, Lineage
  <2>3. Filed(db, a) = [db EXCEPT !.clears =
          Append(@, [session |-> a.session, connection |-> a.connection, before |-> a.before])]
    BY <2>1 DEF Filed, Row
  <2> QED
    BY <2>1, <2>2, <2>3, FiledClear
<1> QED
  BY <1>1, <1>2, <1>3, <1>4, <1>5, <1>6 DEF Requests
--------------------------------------------------------------------------------
Steps == {"idle", "insert", "insert session", "commit"}

(* The parts of the schema. *)
LEMMA TheParts ==
  /\ Baseline \in Seq(AllParts) /\ Additions \in Seq(AllParts)
  /\ Range(Baseline \o Additions) = AllParts
  /\ Range(Baseline) \cup Range(Additions) = AllParts
<1>1. Baseline \in Seq({"assets", "cases", "sessions", "captures"})
  BY DEF Baseline
<1>2. Additions \in Seq({"customers", "case customer", "vin index", "obd", "clear triggers"})
  BY DEF Additions
<1>3. Baseline \in Seq(Range(Baseline)) /\ Additions \in Seq(Range(Additions))
  BY <1>1, <1>2, SeqOfRange
<1>4. Baseline \in Seq(AllParts) /\ Additions \in Seq(AllParts)
  BY <1>3, SeqMonotonic DEF AllParts
<1> QED
  BY <1>4, RangeConcatenation DEF AllParts

(* Any database that init starts from is sound. *)
LEMMA InitIInv == Init => IInv
<1> SUFFICES ASSUME Init PROVE IInv
  OBVIOUS
<1> USE RecordsAssumption
<1>1. Empty \in Databases
  BY EmptySeq DEF Empty, Databases, Current
<1>2. ASSUME NEW vehicles \in OldFleets, NEW orphans \in BOOLEAN,
             disk = [Empty EXCEPT !.version = 1, !.parts = Range(Baseline),
                                  !.vehicles = vehicles, !.orphans = orphans]
      PROVE  /\ disk \in Databases /\ disk.version = 1 /\ disk.parts = Range(Baseline)
             /\ disk.cases = <<>> /\ disk.sessions = <<>> /\ disk.clears = <<>>
  <2>1. Range(Baseline) \subseteq AllParts /\ vehicles \in Seq(Forms \cup {Nobody})
    BY DEF AllParts
  <2>2. /\ disk = [version |-> 1, parts |-> Range(Baseline), vehicles |-> vehicles,
                   customers |-> 0, cases |-> <<>>, sessions |-> <<>>, connections |-> <<>>,
                   snapshots |-> <<>>, clears |-> <<>>, orphans |-> orphans]
    BY <1>2 DEF Empty
  <2> QED
    BY <2>1, <2>2, EmptySeq DEF Databases, Current
<1>3. /\ disk \in Databases /\ AlwaysStartable(disk) /\ VinsAreUnique(disk)
      /\ disk.cases = <<>> /\ disk.sessions = <<>> /\ disk.clears = <<>>
      /\ disk.version = 0 => disk = Empty
  <2>1. CASE disk = Empty
    <3>1. /\ disk.version = 0 /\ disk.parts = {} /\ disk.cases = <<>>
          /\ disk.sessions = <<>> /\ disk.clears = <<>>
      BY <2>1 DEF Empty
    <3> QED
      BY <1>1, <2>1, <3>1 DEF AlwaysStartable, VinsAreUnique, Current
  <2>2. CASE disk \in Legacy
    <3>1. /\ disk \in Databases /\ disk.version = 1 /\ disk.parts = Range(Baseline)
          /\ disk.cases = <<>> /\ disk.sessions = <<>> /\ disk.clears = <<>>
      <4> DEFINE Old(vehicles, orphans) ==
                   [Empty EXCEPT !.version = 1, !.parts = Range(Baseline),
                                 !.vehicles = vehicles, !.orphans = orphans]
      <4>1. Legacy = {Old(vehicles, orphans) : vehicles \in OldFleets, orphans \in BOOLEAN}
        BY DEF Legacy
      <4>2. \A vehicles \in OldFleets, orphans \in BOOLEAN :
              disk = Old(vehicles, orphans) =>
                /\ disk \in Databases /\ disk.version = 1 /\ disk.parts = Range(Baseline)
                /\ disk.cases = <<>> /\ disk.sessions = <<>> /\ disk.clears = <<>>
        BY <1>2
      <4> HIDE DEF Old
      <4> QED
        BY <2>2, <4>1, <4>2
    <3> QED
      BY <3>1 DEF AlwaysStartable, VinsAreUnique, Current
  <2> QED
    BY <2>1, <2>2 DEF Init
<1>4. SessionsAreWhole(disk) /\ ClearsHaveLineage(disk)
  BY <1>3, EmptySeq DEF SessionsAreWhole, ClearsHaveLineage
<1>5. TypeOK
  BY <1>1, <1>3 DEF Init, TypeOK
<1>6. Phases /\ Migrating /\ \A t \in Threads : Asking(t) /\ Writing(t)
  BY DEF Init, Phases, Migrating, Asking, Writing
<1> QED
  BY <1>3, <1>4, <1>5, <1>6 DEF IInv, DiskIsWhole

(* What the invariant says of the state, by its parts. *)
LEMMA Parts ==
  ASSUME IInv
  PROVE  /\ disk \in Databases /\ work \in Databases
         /\ writer \in Threads \cup {"start", Nobody}
         /\ service \in {"down", "begin", "migrate", "check", "up"}
         /\ pc \in [Threads -> Steps] /\ asked \in [Threads -> Requests \cup {Nobody}]
         /\ \A t \in Threads : pc[t] \in {"insert session", "commit"} <=> writer = t
         /\ AlwaysStartable(disk) /\ VinsAreUnique(disk)
         /\ SessionsAreWhole(disk) /\ ClearsHaveLineage(disk)
         /\ disk.version = 0 => disk = Empty
         /\ Phases /\ Migrating
         /\ \A t \in Threads : Asking(t) /\ Writing(t)
         /\ disk.version \in 0..2
BY Tables DEF IInv, TypeOK, DiskIsWhole, Steps

(* A service that is not up serves nobody. *)
LEMMA NobodyServed ==
  ASSUME IInv, service # "up"
  PROVE  writer \notin Threads
BY Parts DEF Phases

LEMMA EmptyTyped == Empty \in Databases
BY EmptySeq DEF Empty, Databases, Current
--------------------------------------------------------------------------------
(* The start of the service up to its migration. *)
LEMMA StartStep == ASSUME IInv, Start PROVE IInv'
<1> USE RecordsAssumption
<1>1. /\ disk' = disk /\ work' = work /\ writer' = writer /\ pc' = pc /\ asked' = asked
      /\ service = "down" /\ service' = IF disk.version < Current THEN "begin" ELSE "check"
      /\ ~(disk.version = 1 /\ Duplicates(disk.vehicles))
  BY DEF Start, requests
<1>2. writer = Nobody
  BY <1>1, Parts DEF Phases
<1>3. TypeOK' /\ DiskIsWhole' /\ (disk.version = 0 => disk = Empty)'
  <2>1. TypeOK /\ DiskIsWhole /\ (disk.version = 0 => disk = Empty)
    BY DEF IInv
  <2> QED
    BY <1>1, <2>1 DEF TypeOK, DiskIsWhole
<1>4. \A t \in Threads : Asking(t)' /\ Writing(t)'
  BY <1>1, Parts DEF Asking, Writing
<1>5. Phases'
  <2>1. /\ \A t \in Threads : pc[t] = "idle"
        /\ disk.version \in 0..2
    BY <1>1, Parts DEF Phases
  <2>2. service' \in {"begin", "check"} /\ (service' = "check" => disk.version = Current)
    BY <1>1, <2>1 DEF Current
  <2> QED
    BY <1>1, <1>2, <2>1, <2>2 DEF Phases
<1>6. Migrating'
  <2>1. disk.version = 0 => ~Duplicates(disk.vehicles)
    <3>1. disk.version = 0 => disk.vehicles = <<>>
      <4>1. disk.version = 0 => disk = Empty
        BY Parts
      <4>2. Empty.vehicles = <<>>
        BY DEF Empty
      <4> QED
        BY <4>1, <4>2
    <3>2. ~Duplicates(<<>>)
      BY EmptySeq DEF Duplicates
    <3> QED
      BY <3>1, <3>2
  <2>2. disk.version \in 0..2
    BY Parts
  <2> QED
    BY <1>1, <1>2, <2>1, <2>2 DEF Migrating, Current
<1> QED
  BY <1>3, <1>4, <1>5, <1>6 DEF IInv

(* A migration, one part after another. *)
LEMMA MigrateStep == ASSUME IInv, Migrate PROVE IInv'
<1> USE RecordsAssumption
<1>1. disk' = disk /\ pc' = pc /\ asked' = asked /\ service \in {"begin", "migrate"}
  BY DEF Migrate, requests
<1>2. /\ writer \notin Threads /\ disk.version < Current /\ ~Duplicates(disk.vehicles)
      /\ \A t \in Threads : pc[t] = "idle"
  BY <1>1, Parts, NobodyServed DEF Migrating, Phases
<1>3. writer' = "start"
  BY Parts DEF Migrate, Begin, Phases
<1>4. /\ work' \in Databases /\ disk.parts \subseteq work'.parts
      /\ work' = [disk EXCEPT !.parts = work'.parts, !.version = work'.version]
      /\ service' \in {"migrate", "check"}
      /\ service' = "check" => work'.version = Current /\ work'.parts = AllParts
  <2>1. CASE service = "begin"
    <3>1. work' = disk /\ service' = "migrate"
      BY <2>1 DEF Migrate, Begin
    <3> QED
      BY <3>1, Parts DEF Databases
  <2>2. CASE service = "migrate"
    <3>1. /\ disk.parts \subseteq work.parts /\ work \in Databases /\ disk \in Databases
          /\ work = [disk EXCEPT !.parts = work.parts, !.version = work.version]
      BY <2>2, Parts DEF Migrating, Phases
    <3>2. Script(disk.version) \in Seq(AllParts)
      BY TheParts, ConcatProperties DEF Script
    <3>3. CASE /\ Missing(Script(disk.version), work) = {}
               /\ work' = [work EXCEPT !.version = Current] /\ service' = "check"
      <4>1. Range(Script(disk.version)) \subseteq work.parts
        BY <3>3 DEF Missing, Range
      <4>2. AllParts \subseteq work.parts
        <5>1. CASE disk.version = 0
          BY <4>1, <5>1, TheParts DEF Script
        <5>2. CASE disk.version # 0
          <6>1. disk.version = 1
            <7>1. disk.version \in 0..2
              BY Parts
            <7> QED
              BY <1>2, <5>2, <7>1 DEF Current
          <6>2. Range(Baseline) \subseteq work.parts
            BY <3>1, <6>1, Parts DEF AlwaysStartable
          <6> QED
            BY <4>1, <5>2, <6>2, TheParts DEF Script
        <5> QED
          BY <5>1, <5>2
      <4>3. work.parts \subseteq AllParts
        BY <3>1, Tables
      <4>4. /\ work' \in Databases /\ work'.parts = work.parts /\ work'.version = Current
            /\ work' = [disk EXCEPT !.parts = work'.parts, !.version = work'.version]
        <5>1. work' \in Databases /\ work'.parts = work.parts /\ work'.version = Current
          <6>1. work \in Databases /\ Current \in 0..Current
            BY <3>1 DEF Current
          <6>2. \A db \in Databases : \A v \in 0..Current :
                  /\ [db EXCEPT !.version = v] \in Databases
                  /\ [db EXCEPT !.version = v].parts = db.parts
                  /\ [db EXCEPT !.version = v].version = v
            BY DEF Databases
          <6> QED
            BY <3>3, <6>1, <6>2
        <5>2. work' = [[disk EXCEPT !.parts = work.parts, !.version = work.version]
                         EXCEPT !.version = Current]
          BY <3>1, <3>3
        <5>3. work' = [disk EXCEPT !.parts = work.parts, !.version = Current]
          BY <3>1, <5>2 DEF Databases
        <5> QED
          BY <5>1, <5>3
      <4> QED
        BY <3>1, <3>3, <4>2, <4>3, <4>4
    <3>4. CASE work' \in WithNext(Script(disk.version), work) /\ service' = service
      <4>1. PICK i \in DOMAIN Script(disk.version) :
              work' = [work EXCEPT !.parts = @ \cup {Script(disk.version)[i]}]
        BY <3>4 DEF WithNext, Missing
      <4>2. Script(disk.version)[i] \in AllParts
        BY <3>2, LenProperties, ElementOfSeq
      <4>3. /\ work' \in Databases /\ work'.parts = work.parts \cup {Script(disk.version)[i]}
            /\ work'.version = work.version
            /\ work' = [disk EXCEPT !.parts = work'.parts, !.version = work'.version]
        BY <3>1, <4>1, <4>2 DEF Databases
      <4> QED
        BY <2>2, <3>1, <3>4, <4>3
    <3> QED
      BY <2>2, <3>3, <3>4 DEF Migrate
  <2> QED
    BY <1>1, <2>1, <2>2
<1>5. TypeOK' /\ DiskIsWhole' /\ (disk.version = 0 => disk = Empty)'
  <2>1. TypeOK /\ DiskIsWhole /\ (disk.version = 0 => disk = Empty)
    BY DEF IInv
  <2> QED
    BY <1>1, <1>2, <1>3, <1>4, <2>1 DEF TypeOK, DiskIsWhole
<1>6. \A t \in Threads : Asking(t)' /\ Writing(t)'
  BY <1>1, <1>2, <1>3, Parts DEF Asking, Writing
<1>7. Phases' /\ Migrating'
  BY <1>1, <1>2, <1>3, <1>4 DEF Phases, Migrating
<1> QED
  BY <1>5, <1>6, <1>7 DEF IInv
--------------------------------------------------------------------------------
(* The checks at the start, and what they leave of the migration.          *)
LEMMA ReconciledIs ==
  ASSUME NEW db \in Databases
  PROVE  /\ Reconciled(db) \in Databases /\ Kept(db, Reconciled(db))
         /\ Reconciled(db).version = db.version /\ Reconciled(db).parts = db.parts
         /\ Reconciled(db).vehicles = db.vehicles /\ Reconciled(db).cases = db.cases
         /\ Reconciled(db).sessions = db.sessions /\ Reconciled(db).clears = db.clears
<1> DEFINE Ended(c) == [c EXCEPT !.open = FALSE]
           connections == [i \in DOMAIN db.connections |-> Ended(db.connections[i])]
           new == Reconciled(db)
           Connections == [session : Nat, open : BOOLEAN]
<1>1. \A c \in Connections : /\ Ended(c) \in Connections /\ Ended(c).session = c.session
                             /\ c.open \/ Ended(c) = c
  OBVIOUS
<1>2. /\ db.connections \in Seq(Connections) /\ Len(db.connections) \in Nat
      /\ DOMAIN db.connections = 1..Len(db.connections)
      /\ \A i \in DOMAIN db.connections : db.connections[i] \in Connections
  BY Tables, ElementOfSeq
<1>3. new = [db EXCEPT !.connections = connections]
  BY DEF Reconciled
<1> HIDE DEF Ended, Connections, new
<1>4. /\ connections \in Seq(Connections) /\ DOMAIN connections = DOMAIN db.connections
      /\ \A i \in DOMAIN db.connections : connections[i] = Ended(db.connections[i])
  <2>1. connections \in [1..Len(db.connections) -> Connections]
    BY <1>1, <1>2
  <2> QED
    BY <1>2, <2>1
<1> HIDE DEF connections
<1>5. /\ new \in Databases /\ new.version = db.version /\ new.parts = db.parts
      /\ new.vehicles = db.vehicles /\ new.cases = db.cases /\ new.customers = db.customers
      /\ new.sessions = db.sessions /\ new.clears = db.clears
      /\ new.snapshots = db.snapshots /\ new.connections = connections
  BY <1>3, <1>4 DEF Databases, Connections
<1>6. Kept(db, new)
  BY <1>1, <1>2, <1>4, <1>5, TablesStay DEF Kept
<1> QED
  BY <1>5, <1>6 DEF new

LEMMA CheckStep == ASSUME IInv, Check PROVE IInv' /\ Kept(disk, disk')
<1> USE RecordsAssumption
<1> DEFINE db == IF writer = "start" THEN work ELSE disk
<1>1. /\ service = "check" /\ writer' = Nobody /\ work' = Empty /\ pc' = pc /\ asked' = asked
      /\ writer \notin Threads /\ \A t \in Threads : pc[t] = "idle"
  BY Parts, NobodyServed DEF Check, Rollback, requests, Phases
<1>2. CASE service' = "down" /\ disk' = disk
  <2>1. TypeOK /\ DiskIsWhole /\ (disk.version = 0 => disk = Empty)
    BY DEF IInv
  <2>2. TypeOK' /\ DiskIsWhole' /\ (disk.version = 0 => disk = Empty)'
    BY <1>1, <1>2, <2>1, EmptyTyped DEF TypeOK, DiskIsWhole
  <2>3. Phases' /\ Migrating' /\ \A t \in Threads : Asking(t)' /\ Writing(t)'
    BY <1>1, <1>2 DEF Phases, Migrating, Asking, Writing
  <2> QED
    BY <1>2, <2>2, <2>3, Parts, KeptSame DEF IInv
<1>3. CASE service' = "up" /\ disk' = Reconciled(db)
  <2>1. /\ db \in Databases /\ db.version = Current /\ db.parts = AllParts
        /\ Kept(disk, db) /\ SessionsAreWhole(db) /\ ClearsHaveLineage(db)
        /\ ~Duplicates(db.vehicles)
    <3>1. CASE writer = "start"
      <4>1. /\ work.version = Current /\ work.parts = AllParts /\ ~Duplicates(disk.vehicles)
            /\ work = [disk EXCEPT !.parts = work.parts, !.version = work.version]
            /\ work \in Databases /\ disk \in Databases
            /\ SessionsAreWhole(disk) /\ ClearsHaveLineage(disk)
        BY <1>1, <3>1, Parts DEF Migrating
      <4>2. /\ work.vehicles = disk.vehicles /\ work.customers = disk.customers
            /\ work.cases = disk.cases /\ work.sessions = disk.sessions
            /\ work.snapshots = disk.snapshots /\ work.clears = disk.clears
            /\ work.connections = disk.connections
        BY <4>1 DEF Databases
      <4>3. Kept(disk, work)
        BY <4>1, <4>2, KeptSame
      <4> QED
        BY <3>1, <4>1, <4>2, <4>3, SessionsStay, ClearsStay
    <3>2. CASE writer # "start"
      <4>1. /\ disk.version = Current /\ disk \in Databases
            /\ SessionsAreWhole(disk) /\ ClearsHaveLineage(disk)
            /\ AlwaysStartable(disk) /\ VinsAreUnique(disk)
        BY <1>1, <3>2, Parts DEF Phases
      <4>2. Kept(disk, disk)
        BY <4>1, KeptSame
      <4> QED
        BY <3>2, <4>1, <4>2 DEF AlwaysStartable, VinsAreUnique
    <3> QED
      BY <3>1, <3>2
  <2> HIDE DEF db
  <2>2. /\ disk' \in Databases /\ Kept(db, disk') /\ disk'.version = Current
        /\ disk'.parts = AllParts /\ disk'.vehicles = db.vehicles /\ disk'.cases = db.cases
        /\ disk'.sessions = db.sessions /\ disk'.clears = db.clears
    BY <1>3, <2>1, ReconciledIs
  <2>3. SessionsAreWhole(disk') /\ ClearsHaveLineage(disk') /\ ~Duplicates(disk'.vehicles)
    BY <2>1, <2>2, SessionsStay, ClearsStay
  <2>4. DiskIsWhole'
    BY <2>2, <2>3 DEF DiskIsWhole, AlwaysStartable, VinsAreUnique, Current
  <2>5. TypeOK'
    BY <1>1, <1>3, <2>2, EmptyTyped, Parts DEF TypeOK, Steps
  <2>6. Phases' /\ Migrating' /\ \A t \in Threads : Asking(t)' /\ Writing(t)'
    BY <1>1, <1>3, <2>2 DEF Phases, Migrating, Asking, Writing
  <2>7. Kept(disk, disk')
    BY <2>1, <2>2, Parts, KeptTransitive
  <2> QED
    BY <2>2, <2>4, <2>5, <2>6, <2>7 DEF IInv, Current
<1> QED
  BY <1>2, <1>3 DEF Check

(* The service dies. *)
LEMMA CrashStep == ASSUME IInv, Crash PROVE IInv' /\ disk' = disk
<1> USE RecordsAssumption
<1>1. /\ disk' = disk /\ service' = "down" /\ writer' = Nobody /\ work' = Empty
      /\ pc' = [t \in Threads |-> "idle"] /\ asked' = [t \in Threads |-> Nobody]
  BY DEF Crash, Rollback
<1>2. TypeOK /\ DiskIsWhole /\ (disk.version = 0 => disk = Empty)
  BY DEF IInv
<1>3. TypeOK' /\ DiskIsWhole' /\ (disk.version = 0 => disk = Empty)'
  BY <1>1, <1>2, EmptyTyped DEF TypeOK, DiskIsWhole
<1>4. Phases' /\ Migrating' /\ \A t \in Threads : Asking(t)' /\ Writing(t)'
  BY <1>1 DEF Phases, Migrating, Asking, Writing
<1> QED
  BY <1>1, <1>3, <1>4 DEF IInv

(* Another version with other parts is a database with the same rows.      *)
Stamped(db, version, parts) == [db EXCEPT !.version = version, !.parts = parts]

LEMMA Restamped ==
  ASSUME NEW db \in Databases, NEW version \in 0..Current, NEW parts \in SUBSET AllParts,
         NEW new, new = Stamped(db, version, parts)
  PROVE  /\ new \in Databases /\ new.version = version /\ new.parts = parts
         /\ new.vehicles = db.vehicles /\ new.customers = db.customers
         /\ new.cases = db.cases /\ new.sessions = db.sessions
         /\ new.snapshots = db.snapshots /\ new.clears = db.clears
         /\ new.connections = db.connections
<1> DEFINE first == [db EXCEPT !.version = version]
<1>1. /\ first \in Databases /\ first.version = version
      /\ first.vehicles = db.vehicles /\ first.customers = db.customers
      /\ first.cases = db.cases /\ first.sessions = db.sessions
      /\ first.snapshots = db.snapshots /\ first.clears = db.clears
      /\ first.connections = db.connections
  BY DEF Databases
<1>2. new = [first EXCEPT !.parts = parts]
  BY DEF Stamped
<1> HIDE DEF first
<1>3. new \in Databases /\ new.version = first.version /\ new.parts = parts
  BY <1>1, <1>2 DEF Databases
<1>4. /\ new.vehicles = first.vehicles /\ new.customers = first.customers
      /\ new.cases = first.cases /\ new.sessions = first.sessions
      /\ new.snapshots = first.snapshots /\ new.clears = first.clears
      /\ new.connections = first.connections
  BY <1>1, <1>2 DEF Databases
<1> QED
  BY <1>1, <1>3, <1>4

(* The release before this one starts on the database. *)
LEMMA OldReleaseStep == ASSUME IInv, OldRelease PROVE IInv' /\ Kept(disk, disk')
<1> USE RecordsAssumption
<1>1. /\ service = "down" /\ disk' = [disk EXCEPT !.version = 1, !.parts = @ \cup Range(Baseline)]
      /\ work' = work /\ writer' = writer /\ service' = service /\ pc' = pc /\ asked' = asked
  BY DEF OldRelease
<1>2. disk \in Databases /\ disk.parts \cup Range(Baseline) \subseteq AllParts
  BY Parts, Tables DEF AllParts
<1>3. /\ disk' \in Databases /\ disk'.version = 1 /\ Range(Baseline) \subseteq disk'.parts
      /\ disk'.vehicles = disk.vehicles /\ disk'.customers = disk.customers
      /\ disk'.cases = disk.cases /\ disk'.sessions = disk.sessions
      /\ disk'.snapshots = disk.snapshots /\ disk'.clears = disk.clears
      /\ disk'.connections = disk.connections
  <2> DEFINE parts == disk.parts \cup Range(Baseline)
  <2>1. disk' = Stamped(disk, 1, parts)
    BY <1>1 DEF Stamped
  <2>2. 1 \in 0..Current /\ parts \in SUBSET AllParts /\ Range(Baseline) \subseteq parts
    BY <1>2 DEF Current
  <2>3. disk \in Databases
    BY <1>2
  <2> HIDE DEF parts
  <2> QED
    BY <2>1, <2>2, <2>3, Restamped
<1>4. Kept(disk, disk')
  BY <1>2, <1>3, KeptSame
<1>5. SessionsAreWhole(disk') /\ ClearsHaveLineage(disk')
  BY <1>2, <1>3, <1>4, Parts, SessionsStay, ClearsStay
<1>6. DiskIsWhole'
  BY <1>3, <1>5 DEF DiskIsWhole, AlwaysStartable, VinsAreUnique, Current
<1>7. writer = Nobody /\ \A t \in Threads : pc[t] = "idle"
  BY <1>1, Parts DEF Phases
<1>8. TypeOK'
  BY <1>1, <1>3, Parts DEF TypeOK, Steps
<1>9. Phases' /\ Migrating' /\ \A t \in Threads : Asking(t)' /\ Writing(t)'
  BY <1>1, <1>7 DEF Phases, Migrating, Asking, Writing
<1> QED
  BY <1>3, <1>4, <1>6, <1>8, <1>9 DEF IInv
--------------------------------------------------------------------------------
(* Requests.  Who writes may only be disturbed by the end of the service.  *)
LEMMA Bystanders ==
  ASSUME IInv, NEW t \in Threads, service' = service,
         disk' \in Databases, Kept(disk, disk'), disk' = disk \/ writer \notin Threads \ {t},
         writer' \in {writer, Nobody, t}, writer' = writer \/ writer \in {t, Nobody},
         work' = work \/ writer \in {t, Nobody},
         pc' = [pc EXCEPT ![t] = pc'[t]], asked' = [asked EXCEPT ![t] = asked'[t]]
  PROVE  \A u \in Threads \ {t} : /\ Asking(u)' /\ Writing(u)'
                                  /\ pc'[u] \in {"insert session", "commit"} <=> writer' = u
<1> USE RecordsAssumption
<1> SUFFICES ASSUME NEW u \in Threads \ {t}
             PROVE  /\ Asking(u)' /\ Writing(u)'
                    /\ pc'[u] \in {"insert session", "commit"} <=> writer' = u
  OBVIOUS
<1>1. /\ pc'[u] = pc[u] /\ pc \in [Threads -> Steps] /\ disk \in Databases
      /\ Asking(u) /\ Writing(u) /\ (pc[u] \in {"insert session", "commit"} <=> writer = u)
  BY Parts
<1>2. asked'[u] = asked[u]
  BY Parts
<1>3. Asking(u)'
  BY <1>1, <1>2, StillKnown DEF Asking
<1>4. writer' = u <=> writer = u
  OBVIOUS
<1>5. Writing(u)'
  BY <1>1, <1>2, <1>4 DEF Writing
<1> QED
  BY <1>1, <1>3, <1>4, <1>5

(* What is asked for passed its look-ups. *)
LEMMA AskStep ==
  ASSUME NEW t \in Threads, IInv, NEW what \in Requests, Known(disk, what), Ask(t, what)
  PROVE  IInv' /\ disk' = disk
<1> USE RecordsAssumption
<1>1. /\ disk' = disk /\ work' = work /\ writer' = writer /\ service' = service
      /\ service = "up" /\ pc[t] = "idle"
      /\ pc' = [pc EXCEPT ![t] = "insert"] /\ asked' = [asked EXCEPT ![t] = what]
  BY DEF Ask, Goto
<1>2. /\ pc \in [Threads -> Steps] /\ DOMAIN asked = Threads
      /\ TypeOK /\ DiskIsWhole /\ (disk.version = 0 => disk = Empty)
      /\ Phases /\ Migrating /\ disk \in Databases
      /\ (pc[t] \in {"insert session", "commit"} <=> writer = t)
  BY Parts DEF IInv
<1>3. pc'[t] = "insert" /\ asked'[t] = what
  BY <1>1, <1>2
<1>4. pc' = [pc EXCEPT ![t] = pc'[t]] /\ asked' = [asked EXCEPT ![t] = asked'[t]]
  BY <1>1, <1>3
<1>5. \A u \in Threads \ {t} : /\ Asking(u)' /\ Writing(u)'
                               /\ pc'[u] \in {"insert session", "commit"} <=> writer' = u
  BY <1>1, <1>2, <1>4, KeptSame, Bystanders
<1>6. Asking(t)' /\ Writing(t)' /\ writer' # t
  BY <1>1, <1>2, <1>3 DEF Asking, Writing
<1>7. TypeOK'
  BY <1>1, <1>2, <1>3, <1>4, <1>5, <1>6 DEF TypeOK, Steps
<1>8. Phases' /\ Migrating' /\ DiskIsWhole'
  BY <1>1, <1>2 DEF Phases, Migrating, DiskIsWhole
<1> QED
  BY <1>1, <1>2, <1>5, <1>6, <1>7, <1>8 DEF IInv

LEMMA AsksStep == ASSUME NEW t \in Threads, IInv, Asks(t) PROVE IInv' /\ disk' = disk
<1> USE RecordsAssumption
<1>1. disk \in Databases
  BY Parts
<1>2. CASE AskCustomer(t)
  <2>1. [kind |-> "customer"] \in Requests /\ Known(disk, [kind |-> "customer"])
    BY DEF Requests, Known
  <2> QED
    BY <1>2, <2>1, AskStep DEF AskCustomer
<1>3. ASSUME NEW form \in Forms \cup {Nobody}, AskVehicle(t, form)
      PROVE  IInv' /\ disk' = disk
  <2> DEFINE what == [kind |-> "vehicle", vin |-> IF form = Nobody THEN Nobody ELSE Normal[form]]
  <2>1. what \in Requests /\ Known(disk, what)
    BY DEF Requests, Known
  <2> QED
    BY <1>3, <2>1, AskStep DEF AskVehicle
<1>4. ASSUME NEW v \in DOMAIN disk.vehicles, AskSession(t, v)
      PROVE  IInv' /\ disk' = disk
  <2> DEFINE what == [kind |-> "session", customer |-> 1, vehicle |-> v]
  <2>1. v \in Nat /\ 1 <= disk.customers
    BY <1>1, <1>4, Tables DEF AskSession, Ask, Allowed
  <2>2. 1 \in 1..disk.customers
    BY <1>1, <2>1, Tables
  <2>3. what \in Requests /\ Known(disk, what)
    BY <2>1, <2>2 DEF Requests, Known
  <2> QED
    BY <1>4, <2>3, AskStep DEF AskSession
<1>5. ASSUME NEW s \in {0} \cup DOMAIN disk.sessions, AskConnection(t, s)
      PROVE  IInv' /\ disk' = disk
  <2> DEFINE what == [kind |-> "connection", session |-> s]
  <2>1. s \in Nat
    BY <1>1, Tables
  <2>2. what \in Requests /\ Known(disk, what)
    BY <2>1 DEF Requests, Known
  <2> QED
    BY <1>5, <2>2, AskStep DEF AskConnection
<1>6. ASSUME NEW s \in DOMAIN disk.sessions, NEW c \in DOMAIN disk.connections,
             AskSnapshot(t, s, c)
      PROVE  IInv' /\ disk' = disk
  <2> DEFINE what == [kind |-> "snapshot", session |-> s, connection |-> c]
  <2>1. s \in Nat /\ c \in Nat
    BY <1>1, Tables
  <2>2. what \in Requests /\ Known(disk, what)
    BY <2>1 DEF Requests, Known
  <2> QED
    BY <1>6, <2>2, AskStep DEF AskSnapshot
<1>7. ASSUME NEW s \in DOMAIN disk.sessions, NEW c \in DOMAIN disk.connections,
             NEW before \in {0} \cup DOMAIN disk.snapshots, AskClear(t, s, c, before)
      PROVE  IInv' /\ disk' = disk
  <2> DEFINE what == [kind |-> "clear", session |-> s, connection |-> c, before |-> before]
  <2>1. s \in Nat /\ c \in Nat /\ before \in Nat
    <3>1. DOMAIN disk.sessions \subseteq Nat /\ DOMAIN disk.connections \subseteq Nat
      BY <1>1, Tables
    <3>2. DOMAIN disk.snapshots \subseteq Nat
      BY <1>1, Tables
    <3> QED
      BY <1>7, <3>1, <3>2
  <2>2. Lineage(disk, what)
    BY <1>7 DEF AskClear, Ask, Allowed
  <2>3. what \in Requests /\ Known(disk, what)
    BY <2>1, <2>2 DEF Requests, Known
  <2> QED
    BY <1>7, <2>3, AskStep DEF AskClear
<1> QED
  BY <1>2, <1>3, <1>4, <1>5, <1>6, <1>7 DEF Asks

LEMMA CurrentIsNew == Current # 0
BY DEF Current

(* A step of one thread, while the service is up.                          *)
LEMMA ThreadStep ==
  ASSUME IInv, NEW t \in Threads, service = "up", service' = service,
         disk' \in Databases, work' \in Databases, Kept(disk, disk'), DiskIsWhole',
         disk'.version = Current, disk' = disk \/ writer \notin Threads \ {t},
         writer' \in {Nobody, t} \/ writer' = writer,
         writer' = writer \/ writer \in {t, Nobody},
         work' = work \/ writer \in {t, Nobody},
         pc' = [pc EXCEPT ![t] = pc'[t]], asked' = [asked EXCEPT ![t] = asked'[t]],
         pc'[t] \in Steps, asked'[t] \in Requests \cup {Nobody},
         pc'[t] \in {"insert session", "commit"} <=> writer' = t,
         Asking(t)', Writing(t)'
  PROVE  IInv'
<1> USE RecordsAssumption
<1>1. /\ pc \in [Threads -> Steps] /\ asked \in [Threads -> Requests \cup {Nobody}]
      /\ writer \in Threads \cup {Nobody}
  BY Parts DEF Phases
<1>2. writer' \in {writer, Nobody, t}
  OBVIOUS
<1>3. \A u \in Threads \ {t} : /\ Asking(u)' /\ Writing(u)'
                               /\ pc'[u] \in {"insert session", "commit"} <=> writer' = u
  BY <1>2, Bystanders
<1>4. pc' \in [Threads -> Steps] /\ asked' \in [Threads -> Requests \cup {Nobody}]
  BY <1>1
<1>5. writer' \in Threads \cup {Nobody}
  BY <1>1, <1>2
<1>6. TypeOK'
  BY <1>3, <1>4, <1>5 DEF TypeOK, Steps
<1>7. Phases' /\ Migrating'
  BY <1>5 DEF Phases, Migrating
<1>8. \A u \in Threads : Asking(u)' /\ Writing(u)'
  BY <1>3
<1>9. (disk.version = 0 => disk = Empty)'
  BY CurrentIsNew
<1> QED
  BY <1>6, <1>7, <1>8, <1>9 DEF IInv

(* What a request that is at work knows. *)
LEMMA AtWork ==
  ASSUME IInv, NEW t \in Threads, pc[t] # "idle"
  PROVE  /\ service = "up" /\ disk \in Databases /\ disk.version = Current /\ Sound(disk)
         /\ asked[t] \in Requests /\ Known(disk, asked[t]) /\ DiskIsWhole
         /\ Kept(disk, disk)
<1>1. /\ service = "up" /\ disk \in Databases /\ DiskIsWhole
      /\ asked[t] \in Requests /\ Known(disk, asked[t])
  BY Parts DEF Phases, Asking, IInv
<1>2. disk.version = Current
  BY <1>1, Parts DEF Phases
<1>3. Sound(disk)
  BY <1>1, <1>2 DEF DiskIsWhole, VinsAreUnique, Sound
<1> QED
  BY <1>1, <1>2, <1>3, KeptSame

(* A transaction holds a database. *)
LEMMA RowTyped ==
  ASSUME NEW db \in Databases, Sound(db), NEW a \in Requests, Known(db, a), Accepts(db, a)
  PROVE  Row(db, a) \in Databases
<1>1. CASE a.kind # "session"
  BY <1>1, FiledExtends DEF Filed, Extends
<1>2. CASE a.kind = "session"
  <2> DEFINE case == [customer |-> a.customer, vehicle |-> a.vehicle]
  <2>1. /\ a.customer \in 1..db.customers /\ a.vehicle \in DOMAIN db.vehicles
        /\ db.cases \in Seq([customer : Nat, vehicle : Nat])
    BY <1>2, Tables DEF Known
  <2>2. a.customer \in Nat /\ a.vehicle \in Nat
    BY <2>1, Tables
  <2>3. case \in [customer : Nat, vehicle : Nat]
    BY <2>2
  <2>4. Row(db, a) = [db EXCEPT !.cases = Append(@, case)]
    BY <1>2 DEF Row
  <2> HIDE DEF case
  <2>5. Append(db.cases, case) \in Seq([customer : Nat, vehicle : Nat])
    BY <2>1, <2>3, AppendProperties
  <2> QED
    BY <2>4, <2>5 DEF Databases
<1> QED
  BY <1>1, <1>2

(* The first INSERT. *)
LEMMA InsertStep == ASSUME NEW t \in Threads, IInv, Insert(t) PROVE IInv' /\ disk' = disk
<1> USE RecordsAssumption
<1>1. /\ pc[t] = "insert" /\ writer = Nobody /\ disk' = disk /\ service' = service
      /\ pc \in [Threads -> Steps] /\ asked \in [Threads -> Requests \cup {Nobody}]
      /\ work \in Databases
  BY Parts DEF Insert
<1>2. /\ service = "up" /\ disk \in Databases /\ disk.version = Current /\ Sound(disk)
      /\ asked[t] \in Requests /\ Known(disk, asked[t]) /\ DiskIsWhole /\ Kept(disk, disk)
  BY <1>1, AtWork
<1>3. CASE Accepts(disk, asked[t])
  <2>1. /\ writer' = t /\ work' = Row(disk, asked[t]) /\ asked' = asked
        /\ pc' = [pc EXCEPT ![t] =
                    IF asked[t].kind = "session" THEN "insert session" ELSE "commit"]
    BY <1>3 DEF Insert, Goto
  <2>2. /\ pc'[t] = IF asked[t].kind = "session" THEN "insert session" ELSE "commit"
        /\ pc' = [pc EXCEPT ![t] = pc'[t]] /\ asked' = [asked EXCEPT ![t] = asked'[t]]
    BY <1>1, <2>1
  <2>3. work' \in Databases
    BY <1>2, <1>3, <2>1, RowTyped
  <2>4. Writing(t)'
    BY <1>1, <1>3, <2>1, <2>2 DEF Writing, Filed
  <2>5. Asking(t)'
    BY <1>1, <1>2, <2>1 DEF Asking
  <2>6. DiskIsWhole'
    BY <1>1, <1>2 DEF DiskIsWhole
  <2>7. pc'[t] \in Steps /\ pc'[t] \in {"insert session", "commit"}
    BY <2>2 DEF Steps
  <2> QED
    BY <1>1, <1>2, <2>1, <2>2, <2>3, <2>4, <2>5, <2>6, <2>7, ThreadStep
<1>4. CASE ~Accepts(disk, asked[t])
  <2>1. /\ writer' = writer /\ work' = work
        /\ asked' = [asked EXCEPT ![t] = Nobody] /\ pc' = [pc EXCEPT ![t] = "idle"]
    BY <1>4 DEF Insert, Refuse, Goto
  <2>2. /\ pc'[t] = "idle" /\ asked'[t] = Nobody
        /\ pc' = [pc EXCEPT ![t] = pc'[t]] /\ asked' = [asked EXCEPT ![t] = asked'[t]]
    BY <1>1, <2>1
  <2>3. Writing(t)' /\ Asking(t)' /\ writer' # t
    BY <1>1, <2>1, <2>2 DEF Writing, Asking
  <2>4. DiskIsWhole'
    BY <1>1, <1>2 DEF DiskIsWhole
  <2> QED
    BY <1>1, <1>2, <2>1, <2>2, <2>3, <2>4, ThreadStep DEF Steps
<1> QED
  BY <1>1, <1>3, <1>4

(* The second of a diagnostic session. *)
LEMMA InsertSessionStep ==
  ASSUME NEW t \in Threads, IInv, InsertSession(t) PROVE IInv' /\ disk' = disk
<1> USE RecordsAssumption
<1>1. /\ pc[t] = "insert session" /\ disk' = disk /\ service' = service
      /\ pc' = [pc EXCEPT ![t] = "commit"] /\ asked' = asked /\ writer' = writer
      /\ pc \in [Threads -> Steps] /\ asked \in [Threads -> Requests \cup {Nobody}]
      /\ writer = t
  BY Parts DEF InsertSession, Goto
<1>2. /\ service = "up" /\ disk \in Databases /\ disk.version = Current /\ Sound(disk)
      /\ asked[t] \in Requests /\ Known(disk, asked[t]) /\ DiskIsWhole /\ Kept(disk, disk)
  BY <1>1, AtWork
<1>3. /\ Accepts(disk, asked[t]) /\ asked[t].kind = "session" /\ work = Row(disk, asked[t])
  BY <1>1, Parts DEF Writing
<1>4. work' = Filed(disk, asked[t])
  BY <1>3 DEF InsertSession, Filed
<1>5. work' \in Databases
  BY <1>2, <1>3, <1>4, FiledExtends DEF Extends
<1>6. /\ pc'[t] = "commit"
      /\ pc' = [pc EXCEPT ![t] = pc'[t]] /\ asked' = [asked EXCEPT ![t] = asked'[t]]
  BY <1>1
<1>7. Writing(t)' /\ Asking(t)' /\ DiskIsWhole'
  BY <1>1, <1>2, <1>3, <1>4, <1>6 DEF Writing, Asking, DiskIsWhole
<1> QED
  BY <1>1, <1>2, <1>5, <1>6, <1>7, ThreadStep DEF Steps

(* The commit. *)
LEMMA FinishStep ==
  ASSUME NEW t \in Threads, IInv, Finish(t) PROVE IInv' /\ Kept(disk, disk')
<1> USE RecordsAssumption
<1>1. /\ pc[t] = "commit" /\ disk' = work /\ writer' = Nobody /\ work' = Empty
      /\ service' = service /\ pc' = [pc EXCEPT ![t] = "idle"]
      /\ asked' = [asked EXCEPT ![t] = Nobody]
      /\ pc \in [Threads -> Steps] /\ asked \in [Threads -> Requests \cup {Nobody}]
      /\ writer = t
  BY Parts DEF Finish, Commit, Refuse, Goto
<1>2. /\ service = "up" /\ disk \in Databases /\ disk.version = Current /\ Sound(disk)
      /\ asked[t] \in Requests /\ Known(disk, asked[t]) /\ DiskIsWhole
  BY <1>1, AtWork
<1>3. /\ Accepts(disk, asked[t]) /\ disk' = Filed(disk, asked[t])
  BY <1>1, Parts DEF Writing
<1>4. Extends(disk, disk')
  BY <1>2, <1>3, FiledExtends
<1>5. /\ disk' \in Databases /\ Kept(disk, disk') /\ disk'.version = Current /\ Sound(disk')
      /\ disk'.parts = disk.parts
  BY <1>2, <1>4 DEF Extends
<1>6. DiskIsWhole'
  BY <1>2, <1>5 DEF DiskIsWhole, AlwaysStartable, VinsAreUnique, Sound, Current
<1>7. /\ pc'[t] = "idle" /\ asked'[t] = Nobody
      /\ pc' = [pc EXCEPT ![t] = pc'[t]] /\ asked' = [asked EXCEPT ![t] = asked'[t]]
  BY <1>1
<1>8. Writing(t)' /\ Asking(t)' /\ writer' # t
  BY <1>1, <1>7 DEF Writing, Asking
<1> QED
  BY <1>1, <1>2, <1>5, <1>6, <1>7, <1>8, EmptyTyped, ThreadStep DEF Steps

(* An error. *)
LEMMA FailStep == ASSUME NEW t \in Threads, IInv, Fail(t) PROVE IInv' /\ disk' = disk
<1> USE RecordsAssumption
<1>1. /\ pc[t] # "idle" /\ disk' = disk /\ service' = service
      /\ pc' = [pc EXCEPT ![t] = "idle"] /\ asked' = [asked EXCEPT ![t] = Nobody]
      /\ pc \in [Threads -> Steps] /\ asked \in [Threads -> Requests \cup {Nobody}]
      /\ work \in Databases
  BY Parts DEF Fail, Refuse, Goto
<1>2. /\ service = "up" /\ disk \in Databases /\ disk.version = Current /\ DiskIsWhole
      /\ Kept(disk, disk)
  BY <1>1, AtWork
<1>3. \/ writer = t /\ writer' = Nobody /\ work' = Empty
      \/ writer # t /\ writer' = writer /\ work' = work
  BY DEF Fail, Rollback
<1>4. /\ pc'[t] = "idle" /\ asked'[t] = Nobody
      /\ pc' = [pc EXCEPT ![t] = pc'[t]] /\ asked' = [asked EXCEPT ![t] = asked'[t]]
  BY <1>1
<1>5. writer' # t
  BY <1>3
<1>6. Writing(t)' /\ Asking(t)' /\ DiskIsWhole' /\ work' \in Databases
  BY <1>1, <1>2, <1>3, <1>4, <1>5, EmptyTyped DEF Writing, Asking, DiskIsWhole
<1> QED
  BY <1>1, <1>2, <1>3, <1>4, <1>5, <1>6, ThreadStep DEF Steps

(* The end of a connection, when nobody writes. *)
LEMMA CloseStep ==
  ASSUME NEW t \in Threads, NEW c \in DOMAIN disk.connections, IInv, Close(t, c)
  PROVE  IInv' /\ Kept(disk, disk')
<1> USE RecordsAssumption
<1> DEFINE Connections == [session : Nat, open : BOOLEAN]
           row == [disk.connections[c] EXCEPT !.open = FALSE]
           connections == [disk.connections EXCEPT ![c] = row]
<1>1. /\ service = "up" /\ pc[t] = "idle" /\ writer = Nobody /\ disk.connections[c].open
      /\ disk' = [disk EXCEPT !.connections[c].open = FALSE]
      /\ work' = work /\ writer' = writer /\ service' = service /\ pc' = pc /\ asked' = asked
  BY DEF Close, requests
<1>2. /\ disk \in Databases /\ work \in Databases /\ disk.version = Current
      /\ SessionsAreWhole(disk) /\ ClearsHaveLineage(disk)
      /\ AlwaysStartable(disk) /\ VinsAreUnique(disk)
      /\ pc \in [Threads -> Steps] /\ asked \in [Threads -> Requests \cup {Nobody}]
  BY <1>1, Parts DEF Phases
<1>3. /\ disk.connections \in Seq(Connections) /\ Len(disk.connections) \in Nat
      /\ DOMAIN disk.connections = 1..Len(disk.connections)
  BY <1>2, Tables
<1>4. disk.connections[c] \in Connections
  BY <1>3, ElementOfSeq
<1>5. row \in Connections /\ row.session = disk.connections[c].session
  BY <1>4
<1>6. disk' = [disk EXCEPT !.connections = connections]
  BY <1>1
<1> HIDE DEF row, Connections
<1>7. /\ connections \in Seq(Connections) /\ DOMAIN connections = DOMAIN disk.connections
      /\ \A i \in DOMAIN disk.connections :
           connections[i] = IF i = c THEN row ELSE disk.connections[i]
  BY <1>3, <1>5, ExceptSeq
<1> HIDE DEF connections
<1>8. /\ disk' \in Databases /\ disk'.version = disk.version /\ disk'.parts = disk.parts
      /\ disk'.vehicles = disk.vehicles /\ disk'.customers = disk.customers
      /\ disk'.cases = disk.cases /\ disk'.sessions = disk.sessions
      /\ disk'.snapshots = disk.snapshots /\ disk'.clears = disk.clears
      /\ disk'.connections = connections
  BY <1>2, <1>6, <1>7 DEF Databases, Connections
<1>9. Kept(disk, disk')
  <2>1. \A i \in DOMAIN disk.connections :
          /\ i \in DOMAIN disk'.connections
          /\ disk'.connections[i].session = disk.connections[i].session
          /\ disk.connections[i].open \/ disk'.connections[i] = disk.connections[i]
    BY <1>1, <1>5, <1>7, <1>8
  <2> QED
    BY <1>2, <1>8, <2>1, TablesStay DEF Kept
<1>10. SessionsAreWhole(disk') /\ ClearsHaveLineage(disk')
  BY <1>2, <1>8, <1>9, SessionsStay, ClearsStay
<1>11. DiskIsWhole'
  BY <1>2, <1>8, <1>10 DEF DiskIsWhole, AlwaysStartable, VinsAreUnique
<1>12. /\ pc' = [pc EXCEPT ![t] = pc'[t]] /\ asked' = [asked EXCEPT ![t] = asked'[t]]
       /\ pc'[t] = "idle" /\ asked'[t] \in Requests \cup {Nobody} /\ writer' # t
  BY <1>1, <1>2
<1>13. Writing(t)' /\ Asking(t)'
  BY <1>12 DEF Writing, Asking
<1> QED
  BY <1>1, <1>2, <1>8, <1>9, <1>11, <1>12, <1>13, ThreadStep DEF Steps
--------------------------------------------------------------------------------
LEMMA NextIInv == IInv /\ [Next]_vars => IInv' /\ Kept(disk, disk')
<1> SUFFICES ASSUME IInv, [Next]_vars PROVE IInv' /\ Kept(disk, disk')
  OBVIOUS
<1>0. disk' = disk => Kept(disk, disk')
  BY Parts, KeptSame
<1>1. CASE Start
  BY <1>0, <1>1, StartStep DEF Start
<1>2. CASE Migrate
  BY <1>0, <1>2, MigrateStep DEF Migrate
<1>3. CASE Check
  BY <1>3, CheckStep
<1>4. CASE Crash
  BY <1>0, <1>4, CrashStep
<1>5. CASE OldRelease
  BY <1>5, OldReleaseStep
<1>6. ASSUME NEW t \in Threads, Asks(t) \/ Serve(t) \/ Fail(t)
      PROVE  IInv' /\ Kept(disk, disk')
  BY <1>0, <1>6, AsksStep, InsertStep, InsertSessionStep, FinishStep, FailStep DEF Serve
<1>7. ASSUME NEW t \in Threads, NEW c \in DOMAIN disk.connections, Close(t, c)
      PROVE  IInv' /\ Kept(disk, disk')
  BY <1>7, CloseStep
<1>8. CASE UNCHANGED vars
  <2>1. /\ disk' = disk /\ work' = work /\ writer' = writer /\ service' = service
        /\ pc' = pc /\ asked' = asked
    BY <1>8 DEF vars
  <2>2. IInv'
    BY <2>1 DEF IInv, TypeOK, DiskIsWhole, Phases, Migrating, Asking, Writing
  <2> QED
    BY <1>0, <2>1, <2>2
<1> QED
  BY <1>1, <1>2, <1>3, <1>4, <1>5, <1>6, <1>7, <1>8 DEF Next

(* The inductive invariant: who writes in which phase of the service, what *)
(* a request still knows when it writes, and what its transaction holds.   *)
THEOREM RecordsInvariance == Spec => []IInv
<1>1. IInv /\ [Next]_vars => IInv'
  BY NextIInv
<1> QED
  BY InitIInv, <1>1, PTL DEF Spec

(* Type correctness: every table stays typed, the write lock is held just  *)
(* by the request that writes, whatever fails or dies.                     *)
THEOREM RecordsTypes == Spec => []TypeOK
<1>1. IInv => TypeOK
  BY DEF IInv
<1> QED
  BY RecordsInvariance, <1>1, PTL

(* The committed database is whole: the next start understands it, no VIN  *)
(* is there twice, sessions have their cases, clear events their lineage.  *)
THEOREM RecordsAreWhole == Spec => []DiskIsWhole
<1>1. IInv => DiskIsWhole
  BY DEF IInv
<1> QED
  BY RecordsInvariance, <1>1, PTL

(* No migration, restart, failure or older release loses or changes what   *)
(* was committed.                                                          *)
THEOREM RecordsAreKept == Spec => RecordsStay
<1>1. IInv /\ [Next]_vars => [Kept(disk, disk')]_vars
  BY NextIInv
<1> QED
  BY RecordsInvariance, <1>1, PTL DEF Spec, RecordsStay
================================================================================
