------------------------------ MODULE ModbusAnswer -------------------------------
(***************************************************************************)
(* What a Modbus probe makes of the bytes a host sends back, and which     *)
(* networks may be scanned (modbus_discovery.py).  An answer is a sequence *)
(* of bytes; it ends when the host closes, resets or falls silent.         *)
(***************************************************************************)
EXTENDS Integers, Sequences, FiniteSets, FiniteSetsExt, SequencesExt

CONSTANTS Refused,   \* what does not parse
          Width      \* bits of an address: 32

ValidExceptions == {1, 2, 3, 4, 5, 6, 8, 10, 11}

Word(bytes, i) == 256 * bytes[i] + bytes[i + 1]
Header(id, length, unit) ==
  <<id \div 256, id % 256, 0, 0, length \div 256, length % 256, unit>>

(* build_device_id_request. *)
Request(id, unit) == Header(id, 5, unit) \o <<43, 14, 1, 0>>

(* The objects of an identity, one after the other, in ascending order.    *)
Object(s, pdu) ==
  LET at == s.index
      length == pdu[at + 1]
  IN  IF ~s.ok \/ at + 1 > Len(pdu) THEN [s EXCEPT !.ok = FALSE]
      ELSE IF \/ s.objects # <<>> /\ pdu[at] <= Last(s.objects)[1]
              \/ at + 1 + length > Len(pdu)
             THEN [s EXCEPT !.ok = FALSE]
      ELSE [s EXCEPT !.index = at + 2 + length,
                     !.objects = Append(@, <<pdu[at], SubSeq(pdu, at + 2, at + 1 + length)>>)]

Objects(pdu) ==
  LET after[n \in 0..pdu[7]] ==
        IF n = 0 THEN [ok |-> TRUE, index |-> 8, objects |-> <<>>] ELSE Object(after[n - 1], pdu)
  IN  after[pdu[7]]

(* Mutant: what follows the last object is not looked at.                  *)
IdentityOpen(pdu) ==
  LET read == Objects(pdu)
  IN  IF ~(Len(pdu) >= 7 /\ pdu[1] = 43 /\ pdu[2] = 14 /\ pdu[3] = 1) THEN Refused
      ELSE IF ~(pdu[5] \in {0, 255} /\ pdu[7] \in 1..3 /\ read.ok) THEN Refused
      ELSE [level |-> pdu[4], more |-> pdu[5] = 255, next |-> pdu[6], objects |-> read.objects]

(* A basic identity: one to three objects that fill the answer, the vendor *)
(* first, and a continuation that makes sense.                             *)
Identity(pdu) ==
  LET read == Objects(pdu)
  IN  IF ~(Len(pdu) >= 7 /\ pdu[1] = 43 /\ pdu[2] = 14 /\ pdu[3] = 1) THEN Refused
      ELSE IF ~(/\ pdu[4] \in {1, 2, 3, 129, 130, 131} /\ pdu[5] \in {0, 255}
                /\ pdu[7] \in 1..3) THEN Refused
      ELSE IF ~(read.ok /\ read.index = Len(pdu) + 1) THEN Refused
      ELSE IF \/ read.objects[1][1] # 0
              \/ pdu[5] = 0 /\ pdu[6] # 0
              \/ pdu[5] = 255 /\ pdu[6] <= Last(read.objects)[1]
             THEN Refused
      ELSE [level |-> pdu[4], more |-> pdu[5] = 255, next |-> pdu[6], objects |-> read.objects]

(* parse_device_id_response: an exception, an identity, or an error.       *)
DeviceId(response, id, unit) ==
  LET pdu == SubSeq(response, 8, Len(response))
  IN  IF \/ Len(response) < 9
         \/ Word(response, 1) # id \/ Word(response, 3) # 0 \/ response[7] # unit
         \/ Word(response, 5) \notin 3..254 \/ Len(response) # 6 + Word(response, 5)
        THEN Refused
      ELSE IF pdu[1] # 171 THEN Identity(pdu)
      ELSE IF Len(pdu) = 2 /\ pdu[2] \in ValidExceptions THEN [exception |-> pdu[2]]
      ELSE Refused

(* probe_modbus_device on a connection: the header is read, then as many   *)
(* bytes as it says; "ended" says how the bytes end: "eof", "reset" or     *)
(* "response_timeout".                                                     *)
Probe(bytes, ended, id, unit) ==
  LET length == Word(bytes, 5)
      parsed == DeviceId(SubSeq(bytes, 1, 6 + length), id, unit)
  IN  IF Len(bytes) < 7 THEN [outcome |-> ended, parsed |-> Refused]
      ELSE IF length \notin 3..254 THEN [outcome |-> "malformed", parsed |-> Refused]
      ELSE IF Len(bytes) < 6 + length THEN [outcome |-> ended, parsed |-> Refused]
      ELSE [outcome |-> IF parsed = Refused THEN "malformed"
                        ELSE IF "exception" \in DOMAIN parsed THEN "confirmed_exception"
                        ELSE "confirmed_identity",
            parsed |-> parsed]

(* The text that is left when blanks are stripped; the first three objects *)
(* make an identity complete.                                              *)
Blank == {0, 10, 13, 32}
Named(objects, id) == \E i \in DOMAIN objects : objects[i][1] = id /\ Range(objects[i][2]) \ Blank # {}

DeviceState(probe) ==
  CASE probe.outcome = "confirmed_exception" -> "modbus_confirmed_exception"
    [] probe.outcome = "confirmed_identity" ->
         IF \A id \in 0..2 : Named(probe.parsed.objects, id) THEN "identity_confirmed"
         ELSE "modbus_confirmed_identity_partial"
    [] OTHER -> "tcp_502_candidate"
--------------------------------------------------------------------------------
(* What a server sends (external). *)
ObjectBytes(object) == <<object[1], Len(object[2])>> \o object[2]

Answer(identity, id, unit) ==
  LET pdu == <<43, 14, 1, identity.level, IF identity.more THEN 255 ELSE 0, identity.next,
               Len(identity.objects)>>
             \o FlattenSeq([i \in DOMAIN identity.objects |-> ObjectBytes(identity.objects[i])])
  IN  Header(id, Len(pdu) + 1, unit) \o pdu

Exception(code, id, unit) == Header(id, 3, unit) \o <<171, code>>
--------------------------------------------------------------------------------
(* Networks: the length of the prefix and the first address. *)

Size(prefix) ==
  LET power[n \in 0..Width] == IF n = 0 THEN 1 ELSE 2 * power[n - 1] IN power[Width - prefix]
NetworkOf(address, prefix) == [base |-> address - (address % Size(prefix)), prefix |-> prefix]
AddressesOf(network) == network.base..(network.base + Size(network.prefix) - 1)
Within(network, other) == AddressesOf(network) \subseteq AddressesOf(other)

(* _usable_host_count *)
UsableHosts(prefix) ==
  IF prefix >= Width - 1 THEN Size(prefix) ELSE Max({Size(prefix) - 2, 0})

(* bounded_scan_networks: an interface's network, narrowed bit by bit      *)
(* around its address until it satisfies the cap.                          *)
BoundedScope(address, prefix, maxHosts) ==
  NetworkOf(address, Min({q \in prefix..Width : UsableHosts(q) <= maxHosts}))

(* validate_scan_subnet, of a network the caller knows to be private. *)
Scannable(network, connected, maxHosts) ==
  /\ network.prefix < Width - 1
  /\ UsableHosts(network.prefix) <= maxHosts
  /\ \E other \in connected : Within(network, other)
================================================================================
