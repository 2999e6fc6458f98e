# Remote Dan Lite: TLA+ models, model checking and proofs

Remote Dan Lite (`src/remote_dan`) is the service of a diagnostic appliance. A
technician's browser asks it to capture waveforms, survey buses, receive serial
traffic, discover Modbus devices, decode CAN, and save OBD evidence; it files
every result as a directory of artifacts plus rows in SQLite, and it hands USB
devices to a VirtualHere server through a small root helper. This directory
models the parts of it that are hard to test: evidence publication under
failures and crashes, OBD evidence against a connection that changes, USB
routing across two processes, the Modbus scan pool against its deadline, the
ownership of the OBD adapter and its late answers, the database's migration and
records, and the decoders: CAN frames, multi-frame OBD answers, serial markers,
the Pico's streaming buffer and Modbus answers.

Everything is plain TLA+. `tlc -config X.cfg MCModule` runs a model;
`tlapm Module.tla` checks proofs.

## 1. Inventory

Handlers are synchronous functions that FastAPI runs in a thread pool of one
process, so every pair of requests may interleave at every blocking call.

| Component | State | Operations | Interacts with | What is hard | What makes it correct |
|---|---|---|---|---|---|
| Evidence lanes: `capture.py`, `bus_survey.py`, `serial_capture.py`, `modbus_scan.py`, `can_decode.py` | manager lock, staging and published directories | acquire, stage, write, row, manifest, rename, register, complete, clean up | database; the Pico lock is shared by scope and survey; decode reads other lanes' runs | a failure or crash at each step, cleanup that fails, the survey publishing without its lock, power cuts on files never synced | readers only see whole runs; nothing stray stays behind; visible evidence is immutable; lineage resolves |
| Evidence database: `database.py` | tables for customers, vehicles, sessions, captures, artifacts, OBD | one short transaction per call; OBD evidence publishes files inside one | all writers, by SQLite's write lock | check in autocommit then write; busy timeout; startup reconciliation | a row is never ahead of its files |
| OBD evidence: `obd_evidence.py` | save lock, partial and final directory per operation id | save, replay, startup sweep | OBD service, database | connection changes mid-save, retries, orphans after a crash | exactly one answer per operation id, durable, filed under the right connection |
| OBD service and providers: `obd_service.py`, `obd_provider.py`, `obd_protocol.py` | one provider, its connection row | connect, disconnect, status, reads | database, adapter | cleanup of several failing resources, late adapter answers | open rows are live connections |
| Hardware arbitration: `app.py` | `usb_routing_obd_lock`, `pico_lock`, lazily created managers | OBD connect, hardware capture, routing apply | helper, OBD service, lanes | states read before a slow call; check-then-create | routing and local hardware exclude each other |
| USB routing: `routing_socket.py`, `routing_helper_service.py`, `virtualhere_*.py`, `usb_routing.py` | allowlist file, VirtualHere's exports, audit log, socket queue | status, apply | app by socket, systemd | client timeouts, rollback that fails, helper death, stale inventory | allowlist, exports, audit and answer agree |
| Modbus discovery: `modbus_scan.py`, `modbus_discovery.py` | manager locks, process-wide lock, cooldown, futures | HICP listening, bounded probing, report | thread pool, network | deadline between any two steps, cancel against start, two managers | one scan at a time, a truthful report |
| Serial receive: `serial_capture.py`, `serial_analysis.py` | marker decoder state | decode, fingerprint | lane | markers split between reads | decoding independent of chunks |
| CAN analysis: `can_analysis.py` | none (pure) | destuff, CRC, accept frames | decode lane | bit-level boundaries | only complete frames accepted |
| Bus sniffer: `bus_sniffer.py` | none (pure) | classify waveforms | survey lane | floating point | conservative classification |
| Pico driver: `pico.py` | streaming state | stream a capture | scope, survey | callback into a ring buffer, limits | every sample once, in order |
| Load bank: `loadbank_client.py` | none | proxy | Windows collector | remote | status mapping |
| Web console: `static/` | request generations | render | HTTP API | superseded answers | late answers dropped |
| USB inventory, hardware probe, deployment | none | read sysfs, configuration | helper, systemd | devices change | - |

`PROJECT.json` lists each part with its status, and under `hazards` every place
in the code where something above bites.

## 2. Modules

| Module | Models | Kind |
|---|---|---|
| `EvidenceStore` | what readers are promised: a run appears whole, in one step, and stays | abstract specification |
| `CapturePublication` | the five evidence lanes and their rows | implements `EvidenceStore` |
| `ObdEvidence` | OBD evidence manager, OBD connection rows, startup | implements `EvidenceStore` with `MayLose = FALSE` |
| `UsbRouting` | handler threads, socket, root helper, VirtualHere, audit | component composition |
| `ModbusScan` | lazy managers, scan lock, cooldown, HICP, worker pool, report | component |
| `ElmAdapter` | lock file, serial port, the script of a connection, live reads, an adapter that answers late or never | component |
| `EvidenceRecords` | migration and start-up; customers, vehicles, sessions, connections, snapshots, clear events | component |
| `CanFrames` | a trace of bits to frames, and what a sender puts on the wire | algorithm |
| `CanTraffic` | summaries, occupancy, heatmap and comparison of decoded frames | algorithm |
| `IsoTp` | reassembly of several ECUs' answers; fault codes, PIDs and VINs with their status | algorithm |
| `ParityMarks`, `PicoStream` | the PARMRK decoder over reads; the streaming callback over segments | algorithms |
| `ModbusAnswer` | the parser of device identification, the scopes that may be scanned | algorithm |
| `MCDecoders` | the inputs a device can deliver to each of the algorithms, and what is made of them | composition, model checking |
| `MC*` | symmetry sets and small constants for TLC | model checking |
| `CapturePublicationProofs`, `ObdEvidenceProofs`, `UsbRoutingProofs`, `ModbusScanProofs`, `ElmAdapterProofs`, `EvidenceRecordsProofs` | theorems about the component, for all constants | proofs |
| `AcquisitionProofs`, `AnswerProofs` | theorems about the algorithms and their part of `MCDecoders` | proofs |

Each action is one step between two points at which another thread, a failure
or a crash can be observed; `PROJECT.json` `map` names the lines of each.
Definitions commented "Mutant" are not part of any specification: each is a
plausible bug in the definition that follows it, kept to show that a property
can fail.

### CapturePublication

A worker is a request thread inside a manager's `run`. `rows`, `dirs` and `held`
are the captures table with its artifact records, the run's directory and the
manager locks; `pc` walks through `_run_locked`/`_package`. The lanes share the
shape and differ where the code does: `decode` inserts its row before its files
and completes it in one transaction (`AfterStage`, `AfterRow`, `AfterWrite`,
`AfterRename`), `survey` gives the Pico back before packaging (`KeepsLock`),
`scope` and `survey` share one lock (`LockOf`). The exception handler is three
steps (`RemoveStaging`, `RemovePublished`, `DeleteRow`), each of which can fail.
`Crash` ends every request; there is no startup repair in the code for these
lanes, so what a death leaves stays (`abandoned`). `PowerCut` tears or removes
files the kernel has not written back (`synced`): these lanes never call fsync.
`Offered` is `read_authoritative_artifact`, which checks size and digest.
`Visible` is what listings, manifests and decodes go by; asked for by its number,
a row is shown whatever its status (`app.py:1905`), as metadata without files.
Over HTTP the hardware captures also hold the app's `usb_routing_obd_lock`
around `run`, so the managers here overlap more than the service lets them.

Fresh run ids are an assumption: a run id holds a microsecond time stamp and the
lane's suffix, the lanes with one manager are serialised by its lock, and the
clock is assumed not to step back onto a used value. The serial and Modbus lanes
have exactly the scope's sequence with a lock of their own; `Lanes` in the
configurations therefore names scope, survey and decode only, and the proofs
hold for any subset.

### ObdEvidence

`look` to `release` is `OBDEvidenceManager.save`. The service lock is taken
three separate times (status, read, status), so `Connect` and `Disconnect` come
between. `writing` is SQLite's write lock: it is taken by the first INSERT
(`Insert`), not by the SELECT before it (`CheckOwner`), and is held while the
files are synced and renamed. A power cut uses `synced`: nothing, files, or name
(both parent directories). After a death, `Reconcile`, `Sweep` and `Boot` are
the steps of `create_app` in their order; requests wait for `phase = "up"`.
A commit is taken to be durable and atomic, as SQLite promises in the
configuration the code leaves it in.

`shutil.rmtree` unlinks file by file. Of a partial directory that is one step,
since startup removes whatever is left of one. A published directory goes in
three: `RemoveFinal` unlinks its manifest (`torn`), `RemoveDir` the rest
(`removed`), `SyncRemoval` syncs that; each can fail, and between any two the
process can die or the power go, after which the directory may be back, with its
manifest or without (`Survivors`). `debris` records where a cleanup failed, and
where a death left a directory without its manifest: `Sweep` passes such a one
over and `Look` refuses every retry. `RetryStartsClean` says that nothing else
stands in a retry's way. A removal whose sync raised is forgotten when a retry
makes the directory anew.

### UsbRouting

`pc`, `lock` and `obd` belong to the app process; `queue` to systemd's socket;
`step`, `cur`, `before`, `outcome` to the helper process; `config`, `served`,
`audited` to the file, VirtualHere and the audit log. `Timeout` is the client's
five seconds: it may come at any time, and the request stays queued or in
progress without anybody waiting (`by = NoThread`). Captures and connects may
then run while the helper still restarts VirtualHere: `RoutingExcludesHardware`
is about an apply that is waited for, which is all the lock can promise. `Reply` to nobody raises
outside the helper's try and kills it. Devices are plugged at any time, and what
the operator saw and chose is arbitrary. History variables `stale` and
`unaudited` record that a restart of VirtualHere or an audit record failed; the
properties promise nothing where the code has already reported such a failure.
Status requests only read and are left out.

### ModbusScan

`manager` is the lazily created manager, read, created and re-read in separate
steps; `busy` the manager locks; `scanning` the class-level scan lock. `late`
turns TRUE at any point of a scan. `probe` is the future of each host: queued,
running, done, cancelled. Hosts are taken in any order, which includes the
code's. HICP gateways answer any number of times with any source and address.
The only scopes are on_link and conflict: the code's third, foreign_address, is
assigned to a device inside the subnet whose advertised address is outside and
whose scope is on_link, but on_link means both addresses are equal.
Replies from outside the subnet are dropped there and have no effect here, since
`Foreign` is no host. The parser of an answer is `ModbusAnswer`; a gateway
found in conflict is not in `Excluded`, since the code probes its address like
any other, although the README says such addresses are retained without
follow-up. Not modelled: the HICP parser, the cap on HICP devices, a
thread pool that cannot start a thread, and process death (all of this state is
volatile).

### ElmAdapter

`lock` is the flock on the adapter's lock file, `port` the exclusive serial port,
`connected` whether a process' service has a provider. A connection is a script
of commands (`Connecting`), one for each group the code treats alike; a live
read is `Live`, one exchange for each PID; a disconnect sends `Goodbye`. An
exchange is `Send` (which clears the input first) and then `Read` or `Timeout`.
The adapter is the environment: `owed` is what it took and has not answered,
and `Answer` delivers the next answer, an error, or nothing, at any time while
the port is open. What arrives late is in `input` for whatever is asked next.
`Failing` is where each failing operation goes on: the provider's own cleanup,
the service's, or, for a live read, nothing.

`ValuesAreOurs` says what the code can promise: a value answers the PID it is
filed under and was never asked over an earlier connection. The second half
rests on a count: each command of a connection's script that was answered took
at least one of the answers still due to an earlier connection, so after the
n-th only the first `Backlog - n` places of `input` and `owed` can hold one
(`OldWithin`), and none is left after the eight commands of `Connecting` as long
as the adapter keeps no more than eight (`Backlog <= Len(Connecting)`; the run
has four). An adapter that keeps more is not excluded by the code, and for it
nothing is claimed. A late answer to the same
PID over the same connection cannot be told from a fresh one and passes. An
answer arrives at once here, not in pieces; the simulator provider has no port.
The digit of the protocol is not mistaken for a late set-up answer, although the
code only looks at its last character.

### EvidenceRecords

`disk` is the committed database, `work` the transaction of the one writer
SQLite admits. `Start`, `Migrate` and `Check` are `initialize`, one created
table or index at a time; a release before this one may be started in between
(`OldRelease`). A request looks up in autocommit (`Ask`, `Allowed`) and writes
later (`Insert`), when the world may have changed: what still holds then is what
the schema enforces (`Accepts`). Vehicles are the VINs as written, so that the
index over `upper(trim(vin))` matters. Any statement may fail and the service
may die at any step. Snapshots and clear events are written through the
database's own interface, since the application refuses to clear faults. Every
snapshot is one of faults and an event quotes the one before it: the checks of
the snapshot's kind and of the one after (`database.py:1008`) are left out.
`Normal` is both Python's `strip().upper()` and SQLite's `upper(trim())`, which
differ on letters outside ASCII and on white space other than blanks; the code
does not refuse those in a VIN, and nothing is claimed for them.

### The decoders

`CanFrames`, `CanTraffic`, `IsoTp`, `ParityMarks`, `PicoStream` and
`ModbusAnswer` are pure functions, written with recursive functions and folds;
those a theorem speaks of (`Own`, `Heard`, `Decoded`, `After`, `Objects`, `Size`)
are recursive functions over the number of lines, reads, polls, objects or bits.
`MCDecoders` takes one of them (`subject`) and grows or damages its input a step
at a time; the invariants compare what is decoded with what was sent. The
senders (a CAN controller's stuffing, an ECU's segmentation, the tty's marking,
the driver's writes, a Modbus server) are external. `CanFrames` works on one
value per bit time; samples, thresholds and bit rates are below it. It holds
both of the code's parsers, the survey's and the decoder's, and the simulator's
encoder. `IsoTp` works on lines that are frames; text errors are a kind of line.
An exception is a value (`Failed`).

| Subject | Input | Compared with |
|---|---|---|
| `can` | up to two frames of seven kinds, four wirings, a gap or none; one bit inverted or one end cut off | the frames sent, the wiring, the survey's parser |
| `free` | any `MaxLines` = 5 lines of two ECUs, out of order, repeated, with errors | the messages and fault codes of each ECU |
| `kept` | a message of `LongMessage` = 125 bytes and VINs, with up to `MaxFaults` = 2 lines lost, repeated or exchanged | the messages, VINs and mismatch |
| `pids` | two ECUs with any PIDs out of nine | the PIDs that can be reached |
| `marks` | up to `MaxChars` = 3 characters out of `MarkedBytes` (0, 65, 255), sound, bad or breaks, received and read a piece of any size at a time | the characters sent |
| `pico` | up to `MaxPolls` = 5 polls for `StreamTotal` = 6 samples over a buffer of `StreamBuffer` = 3: segments, overflows, stops, errors, a deadline | the samples in order |
| `traffic`, `compare` | four frames of two identifiers; two decodes of four | counts, changes, occupied samples, what a limit leaves out |
| `device` | an identity or exception, one byte changed, lost or doubled, or cut | the answer, byte for byte |
| `scopes` | addresses of five bits, prefixes, four caps | the widest scope that may be asked for |

## 3. Runs

| Run | Bounds | Shows |
|---|---|---|
| `capture` | 2 workers, 2 runs, 2 files, scope/survey/decode, fair | all safety and the refinement under failures and crashes; every request settles and frees its lock |
| `capture_power` | 2 workers, 2 runs, scope/decode, power cuts | a visible run never changes, but for files a power cut took unsynced |
| `obd` | 2 savers, 1 operation id, 2 kinds, 2 connections, fair | durability, provenance, idempotence, startup, refinement; the save lock comes free |
| `routing` | 2 threads, 2 twin devices, queue of 1 | exclusion, audit, answer and allowlist agree |
| `routing_lock` | 2 threads, 1 device, fair | the client timeout frees the lock |
| `routing_rollback` (violation) | 1 thread | a restart that raises is not rolled back |
| `modbus` | 2 threads, 2 hosts, 1 gateway, 1 worker, fair | one scan, no stray probes, a true report, a scan that always ends |
| `modbus_truncated` (violation) | 1 thread, 2 hosts, 1 worker | a scan can leave hosts out and not say so |
| `decoders` | the subjects above | what is decoded is what was sent |
| `can_fd` (violation) | one CAN FD frame with a 29-bit identifier | it is not counted as unsupported |
| `records` | 2 threads, 2 vehicles, 1 VIN written in 2 ways, 1 session, 2 connections, 1 snapshot, 1 clear event | no half migration, no second VIN, whole sessions, true lineage, nothing lost |
| `adapter` | 2 processes, 4 unanswered commands, fair | one owner, no answer of another command, every operation ends |

Why the bounds are enough. Two workers are the least that can interleave, and
two runs let a decode have a source; a run's life is independent of how many
others there are, and the safety properties are proved for any number of them. Two files
separate the manifest, which is written last, from the rest. Two connections allow a
reconnect between two status calls, and two savers of one operation id a retry
that overlaps or follows the first, with the same kind or another; two
different operations share only the locks and never each other's rows or
directories. One twin pair is the smallest bench on which an allowlist by
VID:PID exports more than was chosen; a queue of one already lets a request wait
while another is served. Two hosts over one worker give a host
that is running and one that is queued, or that the loop has still to submit.
One VIN in two spellings is what the index must keep apart, and two connections
of one session what a clear event could confuse. Symmetry is
used in safety runs only, over values no definition tells apart.

The violations are documented in `PROJECT.json` under `findings`; each property
quotes the sentence, docstring or test it formalises:

1. `ErrorRestoresConfig`: the promised rollback does not happen when the restart
   itself raises, and a retry then succeeds without a restart.
2. `UntruncatedReportIsFull`: a scan can leave hosts out without `truncated`.
3. `FdIsUnsupported`: in a CAN FD frame with a 29-bit identifier the FDF bit is
   looked for one place too late, so the frame is a rejected classical candidate.

Seen in the models and not made runs of their own: evidence can be filed under a
connection that was closed after the ownership check, which is outside the
transaction (`database.py:730`); HICP addresses in conflict are probed
(`modbus_discovery.py:634`); a probe under way at the deadline has no outcome in
the report; a death in the middle of `rmtree(final)` (`obd_evidence.py:330`),
once `manifest.json` is unlinked, leaves a directory that the startup sweep
skips (`obd_evidence.py:87`), so that every retry of that operation id is
refused (`obd_evidence.py:142`) until somebody removes it by hand.

Several properties are conjunctions of named parts (`CanDecodesWhatWasSent`,
`ReportsAreTheirs`, `TrafficIsAccounted`, `DiskIsWhole`, ...): a run checks the
conjunction, and each part says one thing.

## 4. Fairness

Fairness is weak, and per thread. A request thread keeps running, and its
blocking calls return or raise (file and SQLite calls, adapter reads with
timeouts, Pico streaming with a deadline): `Work \/ FailEarly \/ Fail`,
`Save \/ FailEarly \/ Fail`, `Handle`, `Serve`. `Start`, `Request` and the
taking of the routing lock are not fair: nobody has to send requests. The
routing helper gets no fairness at all, since `systemctl` may hang;
`RoutingLockComesFree` rests on the client's timeout alone. Workers of the
Modbus pool finish probes that run (each socket operation has a timeout and an
answer a bounded length) but need not start any: the scan ends by its deadline.
In `ElmAdapter` each process that has begun an operation goes on (`Step`); the
adapter has no fairness, so that it may stay silent for ever, and the exchange's
deadline is what ends every operation. `EvidenceRecords` and `MCDecoders` state
no liveness.

## 5. Proofs

For every value of the constants, from the named assumptions of the modules
alone: they say that the null values (`NoWorker`, `NoSaver`, `NoThread`,
`Nobody`, ...) are no members of the sets they are missing from, that bounds
are positive, that hosts are finitely many, that `Normal` maps every way to
write a VIN to one that stands for itself, that serial bytes are bytes, that a
message has the twelve bits of length its first frame can tell, that the width of
an address is a natural number. The
bounds of the instances (`MaxVehicles`, `MaxChars`, `MaxLines`, ...) are
arbitrary in the proofs, but for `MaxFaults`, which is at most seven (see
`AnswerProofs`). One theorem about a component has a hypothesis of its own, named below;
those about the algorithms quantify over their arguments.

The proofs of a component share a form: `IInv`, the conjunction of the type
invariant, the properties and what they need to be inductive, holds initially
and is preserved by each action (one lemma for an action or a group of them);
the theorems follow by temporal logic. For `ObdEvidence`, `ModbusScan`,
`ElmAdapter`, `EvidenceRecords` and the streams of `MCDecoders` the parts of
`IInv` stand at the end of the component's own module, under "Why the
invariants hold", so that TLC could check them before they were proved.

* `CapturePublicationProofs`: `TypeCorrect`, `VisibleRunsAreWhole`,
  `NothingStrays`, `LineageHolds`, `AcquisitionIsExclusive`,
  `EvidenceIsImmutable`, and `LanesImplementStore` (the refinement of
  `EvidenceStore`). None of the four invariants is inductive. `IInv` adds what
  each worker knows of its own row and directory at each step (`RunAt`), how far
  its cleanup got (`CleanedTo`), that no two workers share a run (`Owners`), and
  that only a power cut tears a file (`Intact`). A step of one worker leaves
  every other worker's run and all visible evidence alone (`StepOf`,
  `OthersUndisturbed`), which reduces each action to its own run.
* `ObdEvidenceProofs`: `TypeCorrect`, `FiledCorrectly`, `CommitsAreDurable`,
  `RetriesStartClean`, `OpenRowsAreKnown`, `CommittedForever` (the action
  property that no step, a power cut included, changes committed evidence) and
  `LaneImplementsStore`, which refines `EvidenceStore` with `MayLose = FALSE`.
  `IInv` adds which lock a saver holds at which step (`LocksAt`), that data read
  between two status calls with one answer came through that connection, since
  ids never come back (`SeenAt`), what it knows of its row and directory
  (`RowAt`, `DirAt`), that names are synced after files (`SyncedInOrder`: this is
  what makes a commit durable) and how far startup has cleaned (`StartupOK`,
  which also says that a directory without its manifest is always in `debris`).
  In the refinement a run becomes visible by `Commit`; every other step, every
  crash and power cut stutters.
* `UsbRoutingProofs`: `RoutingTypes`, `HardwareIsExcluded`, `AuditIsTrue`,
  `AnswersHold`, `ExportsAreConfirmed`. `IInv` adds
  that between `Lock` and `Release` a thread holds the lock (`LockHeld`), that a
  request nobody gave up belongs to the one thread that waits (`OneWaits`; it is
  what makes a late answer harmless), and what the helper knows of file, exports
  and audit at each step (`HelperKnows`).
* `ModbusScanProofs`: `ScanTypes`, `OneScanAtATime`, `ReportsAreTrue`,
  `GatewaysAreLeftAlone`. `IInv` adds that the thread at a step of a scan is the
  one that holds the class-level lock, whichever manager it uses (`ThreadOK`),
  that hosts to submit, pending and reported are all the candidates there are
  until the deadline or a cancel (`Accounted`, `ScanAt`), that futures agree with
  these sets (`PoolOK`), and that nothing is left of a scan once it is over
  (`Fresh`).
* `ElmAdapterProofs`: `AdapterTypes`, `OneOwner`, `LateAnswersAreDrained`. `IInv`
  adds that the port is only open under the lock file (`Holder`), which script a
  process is in and how far (`ScriptAt`), and `OldWithin` (see section 2).
  `LateAnswersAreDrained` has the hypothesis `Backlog <= Len(Connecting)`.
* `EvidenceRecordsProofs`: `RecordsTypes`, `RecordsAreWhole`, `RecordsAreKept`.
  `IInv` adds that what a request looked up in autocommit is still true when it
  writes, but for what the schema compares again (`Known`, `Asking`), what a
  transaction holds at each of its steps (`Writing`), that a migration changes
  the version and the parts only (`Migrating`), and who is at work in which phase
  of the service (`Phases`). What another thread commits only adds rows (`Kept`),
  which is why look-ups stay true.
* `AcquisitionProofs`: `CapturesAreWhole` and `MarksSurvive` are the two halves
  of `AcquisitionLosesNothing`, the run's property `AcquisitionIsWhole`, for
  captures, buffers and streams of any size. Each is an invariant of the
  stream's actions (`StreamKnown`, `MarksKnown`), which rests on one step of the
  loop: `PollsAreCopiedOnce`, `MarksAreTakenWhole`, `CutMarksWait`.
* `AcquisitionProofs`, discovery: `DiscoveryIsProved` is the run's property
  `DiscoveryIsSound`. Its invariants, beside the properties in `MCDecoders`, are
  `DevicesKnown` (an undamaged answer is the one that was meant; of a damaged one
  only that it is bytes) and `ScopesKnown`, and it rests on three theorems about
  the code's functions for any arguments. `ConfirmedAnswersAreSaid`: whatever
  bytes a host answers, if an identity is reported, the bytes begin with its
  encoding, likewise with an exception, and a device called identified has said
  three objects; the loop over objects keeps that what was read so far flattens
  to what was passed over (`ReadTo`). `IdentitiesAreRead`: an
  identity a device may send (`Sendable`: one to three objects with ascending
  numbers from the vendor's on, no more than 246 bytes, a continuation that makes
  sense) is read as it was meant. `ScopesAreOffered`: for addresses of any width,
  any address, any prefix that leaves four addresses or more and any cap of two
  hosts or more, the scope offered holds the address, is accepted when it is
  asked for, and the next wider one is refused unless the interface's network
  is no wider. Sizes of networks are powers of two by induction (`Size`), so
  that one network lies within another.
* `AnswerProofs`: `LinesKeepResponderSane` and `MessagesGrow` are about one line
  of an ECU; `WholeAnswersAreRead` says that a message of any length up to 4095
  bytes, sent in frames that arrive once and in order, is read as it was sent;
  `NothingIsMisassembled` that whichever of its frames arrive, in whatever order
  and number, a payload accepted is the message, for messages of at most sixteen
  consecutive frames (118 bytes): in longer ones the four-bit sequence numbers
  repeat. `NearbyLinesAreNotMistaken` says the same of a message of any length
  whose successive lines jump by less than sixteen. `AnswersAreRead` is the run's
  property `PayloadsAreSent`. Its invariant `AnswersKnown` says which lines an
  answer is made of and, of a damaged one, that each line stands no further from
  its place in the whole answer than there were faults (`Displaced`). With up to
  seven faults the line that follows another is then at most fourteen places from
  the one that should, so a long message's sequence numbers tell them apart; with
  eight faults this argument no longer does, which is why `AnswersAssumption`
  bounds `MaxFaults` (the code itself may stand more). That an ECU whose
  lines all arrive is read, whatever the others' do, is `WholeAnswersAreRead`.

The existence of a recursive function and what it computes are proved from the
library's well-foundedness of the naturals by way of sets: the set of numbers
for which a fact holds contains 0 and every successor, so it contains all
(`Induction` in `AcquisitionProofs`; the library's own induction theorems take
operators as parameters, which the provers cannot instantiate).

Every property proved is checked by TLC on the small instances too, so that no
proof rests on a hypothesis no state satisfies. Only model-checked are the
properties of the other decoders. `CanDecodesWhatWasSent` and
`SurveyAgreesWithDecoder` are about destuffing, checksums and grouping at once,
which are folds over bits with exclusive or; `ReportsAreTheirs` and
`TrafficIsAccounted` are about summaries built by selecting, sorting and folding
with an operator as an argument: `SelectSeq`, `SortSeq`, `FoldLeft` and `FoldSet`
take operators the provers cannot instantiate. And every liveness
property, since fairness and ENABLED are out of the prover's reach:
`RequestsSettle`, `SaveLockComesFree`, `RoutingLockComesFree`,
`ScanLockComesFree`, `OperationsEnd`.

## 6. Plan

Done: the modules above, in the order publication, OBD evidence, routing, Modbus,
decoders, database records, adapter; the proofs of all components; of the
decoders' properties, those of acquisition, of the ECUs' answers and of Modbus
discovery.

What could still be proved, in the order of what a wrong result costs, and what
stands in the way of each:

1. `CanFrames`: destuffing undoes stuffing; a frame alone on the bus is decoded
   as it was sent. It needs the stuffing, the checksum and the grouping as
   recursive functions, each with an invariant of its own over bits.
2. `IsoTp`: stored codes called complete are all codes (`CompleteIsComplete`)
   and VINs are those sent (`VinsAreTheirs`). What an ECU said is settled by
   `WholeAnswersAreRead` and `NothingIsMisassembled`; what is missing is the
   step from payloads to the sorted and deduplicated lists of codes.
3. `CanTraffic`: occupied samples are the union of the frames'
   (`OccupancyIsUnion`), which needs sorting as a recursive function.

## 7. Not modelled, and why

Waveform processing, plots and reports (floating point and layout; they affect
what a file contains, never whether it is published): sampling and bit-rate
inference, voltages, the bus sniffer's classification, the fingerprints of
higher-layer and serial protocols, ADC scaling, the scaling of live values. The
load bank proxy (stateless). The web console: one page whose late answers are
dropped by a generation counter; observed there, and not modelled, a filter
change during a decode leaves the decode button disabled (`static/app.js:1505`).
The kernel's serial error counters (which replace the decoder's count of breaks
where the driver has them, `serial_capture.py:278`), two first requests that each
create a scope, survey or serial manager (`app.py:1777`), answers of the adapter that arrive in pieces,
the simulator provider. The listings of the database, which only read, the rows
inside one snapshot, and the interface that only tests call. HTTP validation and
presentation; the managers' mode without a database, which the service never
uses; systemd's start limit; the fsync inside the audit log; power cuts between
the helper's write of the allowlist and the disk.
