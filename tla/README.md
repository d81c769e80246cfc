# Device manager: a TLA+ verification project

This directory models the Linux Embedded Device Manager: the `devmgrd` reactor
with its session and upgrade machines and its validation worker, its start and
end, the exchange of `devctl` with it, the byte stream with its parser and codecs,
and the two device sides that answer it. TLC checks the models on small
instances; TLAPS proves all of the safety properties but one, the refinements and the time
bound of a request for every value of the constants. Paths below are relative to the
repository.

## The system

| Part | State it keeps | Operations | Modelled in |
| --- | --- | --- | --- |
| Device session, `src/device/session.c` | connection state, next sequence, the one pending request and its retries | transition, begin, accept response, tick, cancel | `Session` |
| Upgrade machine, `src/upgrade/upgrade.c` | state, borrowed image, device session id, acknowledged offset, recovery cycles | start, build request, accept response, begin recovery | `Upgrade` |
| Validation worker, `src/worker/worker.c`, `src/upgrade/firmware.c` | single-job mailbox under a mutex, condition variable, eventfd, mapped images | submit, take result, destroy; the thread | `Worker` |
| Reactor, `apps/devmgrd/daemon.c` | 16 client slots, `active_client`, output buffer, latest telemetry, upgrade operation | one handler per descriptor, start, cleanup | `Daemon` |
| Simulator, `simulator/device/simulator.c` | bootloader flags, flash buffer, offset, session id, versions | one case per request type | `Simulator` |
| STM32 update core, `firmware/stm32f103/bootloader/update.c` | update state, offset, session id, flash behind callbacks | one case per request type | `Stm32` |
| Parser and ring buffer, `src/protocol/parser.c`, `src/common/ring_buffer.c` | byte ring, statistics | feed, drain; write, peek, discard | `RingBuffer`, `Parser` |
| Codecs, `src/protocol/frame.c`, `src/ipc/codec.c`, `src/common/crc32.c`, `firmware/stm32f103/common/protocol.c` | none | encode, decode | `Crc32`, `Wire` |
| Start and end of the daemon, `daemon.c`, `worker.c`, `src/transport/serial.c` | descriptors, thread, socket path | `setup_context`, `cleanup_context`, restart | `Startup` |
| `devctl`, `apps/devctl/main.c` | one exchange | connect, write, read, give up | `Exchange` |
| Telemetry | session state, the device's stream | start, stop, emit | `Telemetry` |
| Time | deadlines, timer, injected outage | | `Deadline`, `Timing` |
| Argument parsing, logging, packaging | none that outlives a call | | not modelled |

Interactions. Clients connect to a Unix socket and send one request each. The
reactor answers local commands itself, forwards device commands as the single
pending request of the session, and starts at most one upgrade. An upgrade first
submits the file to the worker; the worker opens, maps and checksums it outside
the mutex, posts the result and writes the eventfd. The reactor then adopts the
image and drives the device through `ENTER_BOOTLOADER`, `FW_BEGIN`, `FW_DATA`...,
`FW_END`, `FW_VERIFY`, `FW_ACTIVATE` and `REBOOT`. A `timerfd` of 100 ms drives
retries, expiry and recovery by `FW_STATUS`.

What is hard. (1) The reactor handles a *snapshot* of ready descriptors in any
order while clients leave, the worker runs and deadlines pass: a flag can be stale
and a request can belong to nobody. (2) The mapped image changes owner three
times (thread, mailbox, reactor) across two threads and several error paths.
(3) Requests are repeated after a timeout, so the device sees copies and the host
sees answers it no longer waits for, also from an earlier upgrade. (4) A failed
upgrade may be resumed by a later one with the same or with different metadata.
(5) Everything must end although the device may never answer. (6) Bytes are read
and written in pieces of any size, damaged and lost. (7) Setup is a dozen calls,
each of which may fail, and a kill may fall between any two. `PROJECT.json`
lists these as hazards, each at its line.

## Modules

* `Session`, `Upgrade`: operators on records; a call of the C function is an
  operator from the record before it to the record after it. The owner decides
  when the call happens. Guards that make the C function return an error are
  separate operators (`CanBegin`, `CanBuild`, `CanRecover`, `Matches`).
* `Worker`: a state machine of two threads. One action per critical section of
  the mutex; opening the image and writing the eventfd are outside of it and are
  actions of their own. `live` is the set of jobs whose image is mapped. The
  reactor appears only through the calls it may make.
* `Daemon`: composes the three. `pc` is where the reactor thread is, `batch` the
  events of the last `epoll_wait` that are not handled yet. Each handler, error
  path and early return of `devmgr_daemon_run` and the functions it calls is an
  action; a handler that fails ends the loop through `StopWith`, as the variable
  `result` of the C function does. `tx` is the sequence of the frame still in
  `transport_output`. The actions under "The world" are the clients; the device
  is arbitrary, except that it cannot answer a request it has not received.
* `Simulator`, `Stm32`: the outcomes of handling one frame. Of the checks of
  `FW_BEGIN` the lower limits are modelled; the upper ones (sizes of buffers) are
  those the host's own firmware file respects. A flash callback of the STM32 may
  fail and is then taken to leave the flash as it was: what a half-done erase leaves
  is the board's business and not in the repository.
* `Transfer`: host, line and device together, for the firmware transfer alone.
  Each direction of the line is a FIFO that may lose frames; copies come from
  retries, never from the line.
* `Install`: what an upgrade promises, four actions. `Transfer` implements it.
* `Operations`: what the daemon promises about operation ids and outcomes.
  `Daemon` implements it (`OutcomesStay`).
* `Deadline`: the deadlines of one request as integers, with the lateness of the
  timer.
* `Timing`: `Transfer` with those clocks and the outage that
  `device-sim --disconnect-at-percent` injects; it implements `Deadline`.
* `Telemetry`: the session, a line that loses frames, and `simulator_run` step by
  step (test of `stop_requested`, `poll`, emit, read), for the stream commands. Bytes
  that make no frame wake `poll` like any others (`Noise`). The two ends of the daemon
  that `Daemon` has, a timeout nobody waits for and `BUSY`, are left out here.
* `RingBuffer`: the ring as operators on a record, with its two copies per call.
  `Parser`: `devmgr_parser_feed` and `parser_drain`, one action per way through
  the loop. A byte in the model is its position in the stream, so the properties
  can say which bytes a delivered frame was made of. `delivered`, `handed` and
  `dropped` are history.
* `Crc32`, `Wire`: the bitwise CRC and the layouts of host and STM32, on real
  bytes. The words of the CRC are sets of bits; the 32-bit fields of an IPC message
  are numbers, negative ones in two's complement.
* `Startup`: every system call of `setup_context` and `cleanup_context`, what the
  process holds and what `daemon_context` knows of, the socket path, kills and
  `Restart=on-failure`. Every call may fail, the two `unlink` whose result is ignored
  (`UnlinkIgnored`) too.
* `Exchange`: `write_all` and `read_all` of `devctl` against the partial reads and
  writes of the daemon.
* `MC...`: values of the constants, and views.
* `DaemonProofs`, `DeadlineProofs`, `TransferProofs`, `TelemetryProofs`,
  `ParserProofs`, `WireProofs`, `StartupProofs`, `ExchangeProofs`: the theorems about
  the module each is named after; those about `Worker` are in `DaemonProofs`, those
  about `Timing` in `TransferProofs`.

Abstractions. A 32-bit field of a payload is one element of a sequence; images
are short sequences of small numbers; a CRC is an operator. Time is a choice: a
deadline passes at any moment after the request was begun (`Daemon` keeps which
request the expired deadline belongs to, because a request begun after the
snapshot cannot be due in it). Logging and log-only status
differences are left out. In `Daemon` a request of a client arrives in one piece
(partial input is the subject of `Exchange`), and in `Daemon`, `Transfer` and
`Telemetry` a frame arrives whole or not at all (that is what `Parser` and `Wire`
show of a damaged one). `Parser` has a header of four units and a CRC of one; no
two bodies have the same CRC there, what CRC32 detects is checked in `Wire`.

## Runs

| Run | Instance | Shows |
| --- | --- | --- |
| `requests` | 2 slots, telemetry commands, one retry, clients that leave, sequences 1 and 2 | the inductive invariant `DaemonInv`; answers and timeouts reach the client that asked, only once, also when slots and sequences are reused |
| `upgrade` | 1 slot, `GET_INFO` and `UPGRADE`, 2-byte image in 1-byte chunks, one retry, one recovery, clients that leave | the mailbox protocol between reactor and worker thread, image ownership, the reactor always waits for the right thing, consistent outcome; `Daemon` implements `WorkerSpec` and `Operations` |
| `shutdown` | every local command, signals, hangups and I/O errors | nothing is left mapped, every command is answered |
| `live` | no retries, one recovery, signals and hangups, fairness | `RequestsEnd`, `UpgradesEnd`; `DestroyReturns` with the thread asleep, opening an image, posting a result or about to notify when stop is set; clients that wait cannot stop the daemon |
| `leaving` | the instance of `live`, with clients that leave instead of signals and hangups | expected violation: clients that close early stop the daemon |
| `transfer` | both devices, 3 upgrades that differ in one byte or in the version only, 2 operations, 2 retries, 2 recoveries, 3 frames in flight per direction, flash failures | flash contents, resume offsets, no uninitialised read, retries harmless on the simulator, refinement of `Install` |
| `timing` | the policy of `queue_upgrade_request` in units of 50 ms, 3 one-byte chunks, outage of 6 s at 0, 42 or 100 percent | refinement of `Deadline`; the outage forces a recovery and never fails the upgrade |
| `telemetry` | two commands, one retry, two frames per direction, losses, noise, clients that leave | host and device agree on the stream; samples arrive on an idle line and on one that is never silent; the signal ends the simulator |
| `parser` | frames up to 10 units, ring of 20, every single damage of a frame before two others, three failing callbacks | no intact frame is lost, nothing else is delivered, in time; every byte is accounted for and the ring has room |
| `wire` | frames of both codecs, up to two damaged bits, any of them, truncation; statuses 0, positive, negative and at both ends of `int32_t` | round trips, damage is detected, CRC against polynomial division |
| `startup` | one daemon, six faults (failing calls, kills, signals), files of users | nothing leaks, no path leads to a process that has ended, that of a running daemon leads to it, restarts succeed |
| `exchange` | two clients, one slot, buffers of three units, clients that stop waiting | one whole answer; a client that waits is served |

Bounds. Two operations are the smallest number with leftovers of an earlier one;
three frames in flight are an original, a copy and a later request; a chunk size
of 2 with an image of 3 has a full and a short chunk. Two slots and two sequence
numbers are enough for reuse of both, and make wraparound at 0 part of every
daemon run. `Modulus = 2` (one sequence number) in `shutdown` and `live` makes
late answers *more* confusable than in the program. `MaxBacklog = 1` bounds
connections waiting for `accept4`. `transfer` uses a modulus larger than any
reachable sequence, because with two numbers an old answer would match a new
request, which takes 2^32 requests in the program. In `parser` the ring is twice
the largest frame, as in the program; reads of 1 to 10 units (`MaxRead`, the caller's
buffer, is as long as a frame here and half as long in the program, which makes a
failed call cost more) cut it everywhere, and seven short frames make it wrap. In
`exchange` an answer is longer than the socket buffer, so that writes have to wait for
reads. In `startup` six faults allow
several failed starts in a row.

Views. `MCDaemon!View` identifies states that differ only in what is never read
again: progress of an upgrade outside the states that read it, the reason of an
`ERROR`, a sleeping worker and one about to sleep (a wakeup may be spurious), and
the reactor's records after the loop has ended. `MCTransfer!View` replaces
sequence numbers by their distance from the next one. `MCDaemon!LiveView`, for
`live`, keeps the sleeping thread apart, because fairness tells it from one that is
awake, and the state of session and upgrade after the loop. It only drops values
that are never read again; a step of the reactor that changes anything changes `pc`,
`batch` or a record of the request in flight, and a step of the thread its `pc`, so no
step becomes a stuttering one. Without hangups the
run also passes with no view (350,000 states).

Deadlock is checked where the system should never stop; a daemon that has ended
is the explicit `Ended` step. The other models may really stop: a host with no
further operation, an exhausted stream, a finished exchange, a daemon told to end.

Fairness. `live`: weak fairness of the reactor and of the thread (the scheduler),
strong fairness of a snapshot whose timer finds the pending deadline passed
(`timerfd` is periodic and `CLOCK_MONOTONIC` advances) and of writing an answer (at
most 4108 bytes, which a local socket takes as soon as its buffer is empty).
Spurious wakeups are not assumed; nothing is assumed of clients, device, line or
signals. `telemetry`: the loop of the simulator and the reading of the daemon are
scheduled, and the next sample falls due; `SampleArrives` is about a line that
from some moment on loses no sample. `timing`: some step is always taken, with
time bounded by the deadlines. `startup`: processes run and the service manager
restarts them; faults are finite. `exchange`: each process is scheduled; the
device answers or the session gives up, which `live` shows. `GiveUp` is never
forced.

### Disagreements with the documents

Run `leaving` is expected to be violated: a client that closes between
`epoll_wait` and the write of its answer kills the daemon by `SIGPIPE`, and a
client that leaves while the device is silent leaves exhausted retries to nobody,
so that `TIMEOUT` ends the event loop (docs/architecture.md, "closing the CLI does
not cancel or orphan the device state machine"). With clients that wait the same
property holds (`live`).

The models show more places where code and documents differ. They have no run of
their own; TLC finds each when the formula is added to the run.

| Document | What the code does | Formula, run |
| --- | --- | --- |
| docs/reliability.md: the session repeats its request and "stops at the policy limit" | a retry that falls due, or a late answer of an upgrade, while the first copy is still in the output buffer gets `BUSY` from `queue_frame`, which ends the event loop | `result # "BUSY"`, `requests` |
| docs/firmware-update.md: "Every response is sequence-correlated ... before it can advance upgrade state" | the answer to a request of a client that left is handed to an upgrade in `VALIDATING` and fails it | `[][upgrade.state = "VALIDATING" /\ upgrade'.state = "ERROR" => ~mailbox'.result_pending /\ mailbox.result_pending]_vars`, `upgrade` |
| docs/protocol.md: "a lost ACK does not repeat a flash write"; README.md: "Lost-ACK idempotency" | the STM32 core refuses the repeat of `FW_END` or `FW_VERIFY` and the upgrade ends with `PROTOCOL` | `upgrade_result # "PROTOCOL"`, `transfer` |
| docs/state-machines.md: "READY --> STREAMING: start telemetry" | `on_device_frame` moves the session only if a client waits: a `START_TELEMETRY` whose client left streams while the session is `READY`, and `STOP_TELEMETRY` is refused | `session.state = "READY" /\ ~session.pending.active => ~device.telemetry`, `telemetry` |
| docs/protocol.md: "START_TELEMETRY accepts an interval from 100 to 60000 ms" | the simulator stores the interval before it checks it, so a refused request changes the pace of a stream | `device.telemetry => device.interval \in IntervalRange`, `telemetry` |
| docs/debugging.md: "After SIGTERM, confirm the process and socket disappear" | the result of the `unlink` in `cleanup_context` is ignored: when it fails the daemon exits with status 0 and leaves a dead socket, which the next start replaces | `\A d \in Daemons : pc[d] = "exited" => node[Socket[d]] # "dead"`, `startup` |
| docs/interview-guide.zh-CN.md: a regular file at the path is never deleted | `cleanup_context` unlinks the path after a start that failed because of the file | `[][\A p \in Paths : node[p] = "file" /\ pc' # pc => node'[p] = "file"]_vars`, `startup` |
| docs/architecture.md: "Malformed clients receive an error response and close" | a request followed by more bytes than announced is never complete and never answered | `ExchangeCompletes` with `total` above the announced length, `exchange` |
| docs/adr/0004-ipc.md: clients "must handle ... peer closure" | `devctl` writes with `SIGPIPE` at its default and is killed when the daemon has closed | `\A c \in Clients : client[c].pc # "killed"`, `exchange` |

Two more follow from the code without a run: `devmgr_transport_open` takes neither
`TIOCEXCL` nor a lock, so two daemons with different sockets can share a terminal
(docs/adr/0004-ipc.md: "The daemon must be the sole serial owner"); and the daemon
keeps one operation, so the outcome of an id is gone when the next `UPGRADE` is
accepted (docs/firmware-update.md: "its status remains queryable by ID").

## Proofs

The worker first. `DaemonProofs` proves, for every set `JobIds` of nonzero ids (the assumption
`JobIdsAssumption` of `Worker`), that `WorkerSpec` keeps

* `WorkerTypeOK` (`WorkerTypes`),
* `NoImageLost` (`ImagesHaveOwners`),
* `NotificationHasResult` (`NotificationsAreTrue`),
* `SingleJob` (`OneJobAtATime`).

None of the last three is inductive alone. `NoImageLost` says that the mapped
images are those held by the thread, the mailbox or the reactor; that an adopted
image does not overwrite one already held, and that a closed image is not also
held elsewhere, needs `OneOwner`: while a job is anywhere in the worker the
reactor holds no image. `NotificationHasResult` needs to know that the thread has
not yet written the eventfd when it is about to (`thread.pc = "notify"`), and
that a new job cannot be posted before the old result was taken, which is
`SingleJob`. Their conjunction with the types is `WorkerInv`, proved inductive by
one lemma per part with one step per action (`WorkerInvariance`); TLC checks it
in run `upgrade`. `ResultsMatchJobs` adds that a result is that of the job submitted
last.

`DeadlineProofs` proves, for every retry policy that
`devmgr_session_begin_request` accepts and every timer period (`GoodPolicy`), that
a request is answered or given up within `Allowance`: the timeout, the retry
intervals, and the lateness of the timer at each of them (`RequestsEndInTime`).
`EndsInTime` is not inductive, it does not say how much time is still granted. The
invariant `Budget` adds that age and remaining time together do not exceed the
timeout and the retries spent, and that the timer is never later than its period.
`ClientsWaitLongEnough` puts in the numbers of `start_request`: a request takes at
most 2.3 of the 5 seconds that `devctl` waits.

The reactor. `DaemonProofs` proves `DaemonInv` of `DaemonSpec` for any number of clients, any
width of sequence numbers, any retry limits, images, payloads and commands
(`DaemonAssumption`, `CommandsAssumption`), and from it every invariant that the
daemon runs check. The properties lean on each other. That `active_client` names a
client that waits for the request in flight (`AddresseeIsAsking`) survives a
departing client only because a closed slot has nothing left in it
(`SlotsAreClean`), and an answer only because a command that was read and not
answered is the active one (`UnansweredIsActive`). That an upgrade is waited for
needs to know, for each state of the upgrade, the state of the session
(`SessionPhases`), that a validation is with the worker under the id of the
operation (`ValidatedInWorker`), which images the reactor may hold
(`ImageOfOperation`) and that the states after the transfer have the last byte
acknowledged (`SentToTheEnd`). `ReactorDrivesWorker` ties the place of the reactor
in shutdown to that of the thread; `WorkerInv` is a conjunct, so the facts proved of
the mailbox are at hand. The proof has one lemma per group of conjuncts and handler.
Two of the theorems are refinements: `Daemon` implements `WorkerSpec`
(`ReactorFollowsWorkerProtocol`) and `Operations` (`HistoryOfOperations`), so the
theorems above speak about the worker as the daemon uses it. One has a
hypothesis: `PatientClientsCannotStopDaemon` assumes that no client leaves, and run
`leaving` shows that it must.

`TransferProofs` proves `TransferInv` of host, line and device, for both devices,
any images, chunk size, capacity of the line, retries, recoveries and number of
operations. `TransferTypeOK` is its type part, `TransferLine` the argument:

* the line is a queue, so behind a request only later ones can follow
  (`LineInOrder`), each `Fits` the device it will find, and the copies of the pending
  request are the last (`CopiesAreLast`);
* an answer with the pending sequence says what still holds of the device
  (`AnswersAreCurrent`): when it was sent, only copies of the same request were left
  to be handled, and those change nothing;
* hence in each state the host knows where the device is (`HostKnowsDevice`), and the
  device holds a beginning of an image that was asked for (`DeviceHoldsAsked`).

`FlashHoldsPrefix`, `HostKeepsPace`, `VerifyFindsImage` and the refinement of
`Install` (`UpgradeKeepsPromise`) follow. There are two hypotheses. `CrcTellsApart`:
images of one length that may be requested differ in their CRC32; length and CRC are
all that `FW_BEGIN` compares before it resumes. `SequenceIsFresh`: no frame is still
underway when its sequence number comes round again; `FreshUntilWrap` proves that it
holds until the 32-bit counter has wrapped once. `RetriesAreTolerated` adds that no
call of the device fails (`OnlyLoss`); its second invariant, `RetriesAccepted`, says of
every request on the line that the simulator will accept it. TLC confirms
`TransferLine`, `SequenceIsFresh` and `RetriesAccepted` on the instance of run
`transfer`.

The clocks of an upgrade are in `TransferProofs` too. `Timing` implements `Deadline`
(`UpgradesKeepDeadlines`), so every request of an upgrade ends within the allowance
(`UpgradeRequestsEndInTime`). `SetDeadline` knows a new request by its sequence, so
the invariant is that the next sequence is never that of the pending request, which
needs a modulus above 2 (`TimingAssumption`; the program has 2^32).
`OutageIsRecovered` then proves `OutageForcesRecovery` for every image, chunk size and
percentage. `OutageInv` is what makes it inductive, on top of `TransferInv`,
`RetriesAccepted` and `UpgradeRequestsEndInTime`:

* every upgrade meets the outage, because the device stays below the percentage until
  it is injected (`PercentNotReached`) and the last byte makes 100 percent;
* the chunk that began it is the pending request (`ChunksBelong`), none of its copies is
  answered, and outage left and age of the request together are at least the outage
  (`SilenceHolds`), so an age within the allowance means that the device is still silent;
* so until a recovery cycle begins the upgrade does not leave `TRANSFER`
  (`NotFinishing`, `HostWaits`).

Its hypotheses (`OutageOutlasts`) are those of the fault experiment: the simulator, one
upgrade, at least one recovery allowed, and an outage longer than the allowance, which is
5.5 s against 6 s with the numbers of the program; and the sequence counter does not wrap
(`NoWrap`). TLC confirms `OutageInv` on the instance of run `timing`, and with chunks of
two bytes and six percentages.

`TelemetryProofs` proves `AnsweredStreamAgrees` for any number of commands and retries
and any capacity of the line, without a hypothesis. The property speaks of moments when
the last command was answered; the invariant has to say why no copy of an earlier one can
still change the device. `LastComesLast`: in each direction what belongs to the last
stream command comes after what belongs to the kind it revokes, and once an answer to it
is underway nothing of that kind is. `SettledStays`: once the session has been told,
neither a revoked request nor an answer to one is left. No freshness of sequence numbers
is needed: an old answer with the pending sequence must also have the pending type, and
then it is about the same kind of command; a `NACK` does not move the session.

`ParserProofs` first shows that the ring is a queue for every capacity: what
`RingWrite`, `RingPeek` and `RingDiscard` do to `Contents`, through both halves of a
copy that wraps (`WriteContents`, `PeekContents`, `DiscardContents`). `ParserInv` then
says that the ring holds the bytes of the stream up to the last one written, in order,
and how much room failed calls leave (`Room`): when draining has ended without a
failure less than a frame is left, and each failed call adds at most one read.
`ParserHasRoom`, `RingIsQueue` and `ParserAccounts` (`BytesAccountedFor`: each byte
received was handed over in a frame, was discarded or is in the ring, and the ring is in
order) need no hypothesis. What is delivered depends on what looks like a frame;
`OnlyFramesLookLikeFrames` says that whatever does is a frame that was sent, is quoted
strictly inside one, or lies in damaged bytes, which is what the magic number and the
CRC are for, and which TLC confirms of the streams of run `parser`. Under it
`Delivering` is invariant: the oldest byte in the ring is never inside an undamaged
frame, and the frames before it were delivered. `ParserDeliversInTime` follows;
`ParserLosesNoFrame` and `ParserInventsNoFrame` also assume that what failed calls may
have read fits a frame (`FewFailures`: two failing callbacks, with the program's
numbers), because after bytes were dropped the ring may hold any mixture. The run
checks both properties beyond that point, with three failures.

`StartupProofs` proves `StartupInv` for any daemons with socket paths of their own
(`PathsApart`; `NamesAssumption` keeps their names apart from the other contents of a
path) and any number of faults. `NothingLeftBehind` is not inductive: that cleanup
releases everything needs `HeldIsRecorded`, which says for every call of setup and
cleanup that what the process holds is what `daemon_context` records, except for the
one resource in the making, and that nothing recorded is still to be made. `PathIsBound`
says when the socket path is the daemon's, and that a path leads only to a process that
holds its listening socket: so none leads to a process that has ended, although the
socket may still be there.

`ExchangeProofs` proves `ExchangeInv` for any number of clients and slots and any sizes
(`ExchangeAssumption`). For each client: what it has read and what is underway to it
are a beginning of one answer (`Carried`), what the slot has still to write continues
it (`Continues`), and an answer is queued a second time only where nothing of the first
was written (`AnsweredOnce`). `ExchangeReadsWholeAnswer` needs all of them, because
`WholeAnswer` speaks only of the end.

`WireProofs` proves `CrcIsRemainder` of every frame (`CrcRemainder`): after `k` of the
eight rounds for a byte the register holds the coefficients of the dividend from
x^(39 - k) downwards, mirrored, and a round of the C loop is one step of long division,
whether the bit shifted out is set or not. `UpdateByte`, the loop of the STM32 and
`Divide` are recursive functions, each unfolded once. It also proves `IpcSurvives`
(`IpcRoundTrip`) for every command byte, every payload of bytes up to the limit and every
`int32_t` status: `Int32Bytes` says that four bytes determine the number, `IpcHeader`
where a header keeps it and `IpcMessage` that the length in the header fits the whole
message and none of its beginnings.

What proving changed in the models. An answer of type `NACK` or `ERROR` matched two
arms of a `CASE` in `AcceptResponse`; the code tests for it first, and so does the
model now. `TimedRetry` moved the deadline of an upgrade whose loop had just ended.
`RoomForReads` said that two failures never drop a byte: true of the instance, false in
general, because it depends on the length of a read; `MaxRead` is now a constant and
the property says how many failures are harmless. `BytesAccountedFor` summed the lengths of
the frames delivered; the sum is now the history variable `handed`. The 32-bit fields of
an IPC message were read and written as sets of bits, whose value is a sum over a set;
they are now divided and multiplied as the C code shifts and masks, and the run covers
both ends of `int32_t`.

Only model-checked:

* liveness (`RequestsEnd`, `UpgradesEnd`, `DestroyReturns`, `UpgradeCompletes`,
  `SampleArrives`, `SimulatorStops`, `RestartSucceeds`, `ExchangeCompletes`): fairness
  and `ENABLED` are outside of what the prover handles;
* `FrameIntactOrRefused` of `Wire`: which damage CRC32 detects is a fact about this
  polynomial and the length of the frame (its Hamming distance) that only enumeration
  shows, and it is false of arbitrarily many damaged bits;
* `NoFrameLost` and `OnlyFramesSent` after bytes were dropped, see above.

## Not modelled

Argument parsing of the three programs, printing, logging and error names:
straight-line code without state. The polling loop of `devctl upgrade`: what it
relies on, that operations end and that an outcome stays, is shown of the daemon.
Attributes of termios, and the PTY that `device-sim` creates before it starts.
`--delay-ms` (a deadline may pass at any time). The sensor readings and counters
the simulator reports. The STM32 application, which answers from constants.
`devmgr_ring_read`, `devmgr_ring_reset` and `devmgr_parser_reset`, which no program
calls. Failures of `epoll_ctl` after setup, which changes the events of a registered
descriptor and fails only for want of kernel memory: in `queue_client_response` and
`flush_transport` it would end the loop the way `StopWith("IO")` does, in `queue_frame` it
takes the path that `BUSY` takes there, with the frame left in the buffer. `EINTR` loops, failures of `read` on the eventfd, and `accept4` errors other
than `EAGAIN`: each ends the loop the way `StopWith` does. Two daemons on one
socket path: the second takes the path over, and no document says otherwise.

## Plan

Done: the models above and the proofs above. Next, in this order:

1. `NoFrameLost` and `OnlyFramesSent` after dropped bytes, which needs an account of
   which gaps the ring can hold.
2. The first half of `FrameIntactOrRefused`, that an undamaged frame is accepted and
   decodes to itself: the bytes of a word of the CRC as a sum of powers of two.
3. `OutageForcesRecovery` for a later upgrade in the same session, which meets leftovers
   of an earlier one.
