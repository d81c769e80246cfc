------------------------------- MODULE Daemon -------------------------------
(***************************************************************************)
(* The epoll reactor of apps/devmgrd/daemon.c: one thread that multiplexes *)
(* the serial transport, the local clients, the timer, the signals and the *)
(* eventfd of the validation worker.                                       *)
(*                                                                         *)
(* epoll_wait takes a snapshot of every descriptor that is ready (there    *)
(* are at most 21, the array has room for 32); the loop then handles the   *)
(* snapshot one event at a time, in any order, while clients, the device   *)
(* and the worker thread go on.  That the flags of an event may be stale   *)
(* when the event is handled is part of the model.                         *)
(*                                                                         *)
(* The device is arbitrary: it answers requests it has received, or not,   *)
(* with any type and payload, and sends telemetry.                         *)
(***************************************************************************)
EXTENDS Session, Upgrade, Worker

CONSTANTS
  MaxClients,         \* MAX_CLIENTS, 16 in the program
  MaxBacklog,         \* bound on connections waiting in accept4
  Commands,           \* the commands the clients of this model send
  Payloads,           \* the payloads the device of this model sends
  Images,             \* the contents of valid firmware files
  Faults,             \* which of "LEAVE", "SIGNAL", "HANGUP" may happen
  HandshakeRetries, ClientRetries, UpgradeRetries  \* 3, 2 and 4

ASSUME DaemonAssumption ==
  /\ MaxClients \in Nat \ {0} /\ MaxBacklog \in Nat
  /\ HandshakeRetries \in Nat /\ ClientRetries \in Nat /\ UpgradeRetries \in Nat
  /\ JobIds = Sequences32
  /\ Images \subseteq Seq(Nat) \ {NoImage}
  /\ Payloads \subseteq Seq(Nat)

VARIABLES
  session,            \* context->session
  upgrade,            \* context->upgrade
  operation_id, upgrade_result,
  tx,                 \* sequence of the frame in transport_output, 0: flushed
  active_client,      \* the slot the pending request belongs to, 0: none
  clients,            \* the client slots and the sockets behind them
  telemetry,          \* latest_telemetry_length # 0
  running, result,    \* the loop conditions of devmgr_daemon_run
  pc,                 \* where the reactor thread is
  batch,              \* the events of the snapshot not handled yet
  backlog,            \* connections the kernel holds for accept4
  heard               \* the device has received the pending request

reactorVars == <<session, upgrade, operation_id, upgrade_result, tx,
                 active_client, clients, telemetry, running, result, pc, batch>>
worldVars == <<backlog, heard>>
daemonVars == <<reactorVars, worldVars>>
vars == <<daemonVars, workerVars>>

Slots == 1 .. MaxClients

NoInput == [command |-> "NONE", operation |-> 0]
NoOutput == [command |-> "NONE", status |-> "NONE"]

(* struct daemon_client: inbox is what the peer has sent and the daemon    *)
(* not read, command the request read from it, output the answer not yet   *)
(* written, hup that the peer has closed its end.                          *)
FreeSlot == [open |-> FALSE, inbox |-> NoInput, command |-> "NONE",
             output |-> NoOutput, hup |-> FALSE]

DeviceCommands == {"GET_INFO", "START_TELEMETRY", "STOP_TELEMETRY"}
LocalCommands == {"GET_TELEMETRY", "UPGRADE_STATUS", "UPGRADE",
                  "UPGRADE_MALFORMED", "MALFORMED"}

ASSUME CommandsAssumption == Commands \subseteq DeviceCommands \union LocalCommands

(* The timer of a snapshot: not expired, expired before any deadline, or   *)
(* the sequence of the request whose deadline has passed.                  *)
NoTimer == -1
Early == 0

EmptyBatch == [listen |-> FALSE, signal |-> FALSE, worker |-> FALSE,
               timer |-> NoTimer, transport |-> {},
               clients |-> [i \in Slots |-> {}]]

DaemonInit ==
  /\ WorkerInit
  /\ session = InitialSession
  /\ upgrade = InitialUpgrade
  /\ operation_id = 0 /\ upgrade_result = "OK"
  /\ tx = 0
  /\ active_client = 0
  /\ clients = [i \in Slots |-> FreeSlot]
  /\ telemetry = FALSE
  /\ running = TRUE /\ result = "OK"
  /\ pc = "start"
  /\ batch = EmptyBatch
  /\ backlog = 0 /\ heard = FALSE

InLoop == pc \in {"wait", "dispatch", "transport"}

(***************************************************************************)
(* Control: what follows an event                                          *)
(***************************************************************************)
(* The event is handled and rest is what remains of the snapshot. *)
Proceed(rest, run) ==
  /\ batch' = rest
  /\ running' = run
  /\ pc' = IF rest # EmptyBatch THEN "dispatch"
           ELSE IF run THEN "wait" ELSE "cleanup"
  /\ UNCHANGED result

(* The handler failed: the loop ends at once. *)
StopWith(status) ==
  /\ result' = status
  /\ pc' = "cleanup"
  /\ batch' = EmptyBatch
  /\ UNCHANGED running

(* The handler of the transport failed: a hangup flag overrides why. *)
StopTransport(status) ==
  StopWith(IF "HUP" \in batch.transport THEN "DISCONNECTED" ELSE status)

WithoutClient(i) == [batch EXCEPT !.clients[i] = {}]
WithoutTimer == [batch EXCEPT !.timer = NoTimer]
WithoutTransport == [batch EXCEPT !.transport = {}]

(***************************************************************************)
(* Output to the device.  queue_frame answers BUSY while transport_output  *)
(* holds bytes.  A request just begun has not been heard by the device.    *)
(***************************************************************************)
CanQueueFrame == tx = 0

(* queue_upgrade_request(s, u): what it leaves in the session. *)
CanQueueUpgrade(s, u) == CanBuild(u) /\ CanBegin(s) /\ CanQueueFrame

BegunUpgrade(s, u) == BeginRequest(s, RequestType(u), UpgradeRetries)

FailedUpgradeQueue(s, u) ==
  Cancel(IF CanBuild(u) /\ CanBegin(s) THEN BegunUpgrade(s, u) ELSE s)

QueueUpgradeRequest(s, u) ==
  /\ CanQueueUpgrade(s, u)
  /\ session' = BegunUpgrade(s, u)
  /\ upgrade' = Built(u)
  /\ tx' = s.next_sequence
  /\ heard' = FALSE

(* Mutant: the image stays mapped. *)
EndUpgradeUnclosed(s, u, status) ==
  /\ upgrade' = u
  /\ upgrade_result' = status
  /\ session' = Transition(s, "UPGRADE_DONE")
  /\ UNCHANGED workerVars

(* The end of an upgrade in session s: the image is released. *)
EndUpgrade(s, u, status) ==
  /\ upgrade' = u
  /\ upgrade_result' = status
  /\ session' = Transition(s, "UPGRADE_DONE")
  /\ firmware' = 0
  /\ live' = Closed(firmware)
  /\ UNCHANGED <<mailbox, thread, event_fd>>

(***************************************************************************)
(* Clients                                                                 *)
(***************************************************************************)
Answer(i, command, status) ==
  [clients EXCEPT ![i].output = [command |-> command, status |-> status]]

(* Mutant: the request stays associated with the slot. *)
CloseClientOnly(i) ==
  /\ clients' = [clients EXCEPT ![i] = FreeSlot]
  /\ UNCHANGED active_client

CloseClient(i) ==
  /\ clients' = [clients EXCEPT ![i] = FreeSlot]
  /\ active_client' = IF active_client = i THEN 0 ELSE active_client

(* queue_client_response for a request of slot i that has just been read.  *)
(* The same event closes the slot when it also carries a hangup flag.      *)
AnswerRequest(i, command, status) ==
  IF "HUP" \in batch.clients[i] THEN CloseClient(i)
  ELSE /\ clients' = [clients EXCEPT
                        ![i].inbox = NoInput,
                        ![i].command = clients[i].inbox.command,
                        ![i].output = [command |-> command, status |-> status]]
       /\ UNCHANGED active_client

(* accept_clients takes every waiting connection: the lowest free slots    *)
(* are filled, connections beyond them are closed.                         *)
FreeSlots == {i \in Slots : ~clients[i].open}

AcceptClients ==
  /\ pc = "dispatch" /\ batch.listen
  /\ LET filled == {i \in FreeSlots :
                      Cardinality({j \in FreeSlots : j < i}) < backlog}
     IN  clients' = [i \in Slots |-> IF i \in filled
                                     THEN [FreeSlot EXCEPT !.open = TRUE]
                                     ELSE clients[i]]
  /\ backlog' = 0
  /\ Proceed([batch EXCEPT !.listen = FALSE], running)
  /\ UNCHANGED <<session, upgrade, operation_id, upgrade_result, tx,
                 active_client, telemetry, heard, workerVars>>

(* A client event with readable data: handle_client_input decodes it. *)
Reading(i, commands) ==
  /\ pc = "dispatch"
  /\ "IN" \in batch.clients[i]
  /\ clients[i].inbox.command \in commands
  /\ Proceed(WithoutClient(i), running)

AnswerMalformed(i) ==
  /\ Reading(i, {"MALFORMED"})
  /\ \E status \in {"LIMIT", "PROTOCOL"} : AnswerRequest(i, "NONE", status)
  /\ UNCHANGED <<session, upgrade, operation_id, upgrade_result, tx,
                 telemetry, worldVars, workerVars>>

(* Mutant: no answer when there is no sample yet. *)
SilentGetTelemetry(i) ==
  /\ Reading(i, {"GET_TELEMETRY"})
  /\ IF telemetry THEN AnswerRequest(i, "GET_TELEMETRY", "OK")
     ELSE /\ clients' = [clients EXCEPT ![i].inbox = NoInput,
                                         ![i].command = "GET_TELEMETRY"]
          /\ UNCHANGED active_client
  /\ UNCHANGED <<session, upgrade, operation_id, upgrade_result, tx,
                 telemetry, worldVars, workerVars>>

AnswerGetTelemetry(i) ==
  /\ Reading(i, {"GET_TELEMETRY"})
  /\ AnswerRequest(i, "GET_TELEMETRY", IF telemetry THEN "OK" ELSE "NOT_FOUND")
  /\ UNCHANGED <<session, upgrade, operation_id, upgrade_result, tx,
                 telemetry, worldVars, workerVars>>

(* What UPGRADE_STATUS reports of the current operation. *)
StatusReport == [operation |-> operation_id, state |-> upgrade.state,
                 result |-> upgrade_result, offset |-> upgrade.offset,
                 total |-> Len(upgrade.image)]

AnswerUpgradeStatus(i) ==
  /\ Reading(i, {"UPGRADE_STATUS"})
  /\ AnswerRequest(i, "UPGRADE_STATUS",
       IF operation_id = 0 \/ clients[i].inbox.operation # operation_id
       THEN "NOT_FOUND" ELSE "OK")
  /\ UNCHANGED <<session, upgrade, operation_id, upgrade_result, tx,
                 telemetry, worldVars, workerVars>>

UpgradeRefused == \/ session.state # "READY"
                  \/ active_client # 0
                  \/ UpgradeActive(upgrade)

RefuseUpgrade(i) ==
  /\ Reading(i, {"UPGRADE", "UPGRADE_MALFORMED"})
  /\ \/ /\ clients[i].inbox.command = "UPGRADE_MALFORMED"
        /\ AnswerRequest(i, "UPGRADE", "INVALID")
     \/ /\ clients[i].inbox.command = "UPGRADE"
        /\ UpgradeRefused
        /\ AnswerRequest(i, "UPGRADE", "BUSY")
  /\ UNCHANGED <<session, upgrade, operation_id, upgrade_result, tx,
                 telemetry, worldVars, workerVars>>

(* Mutants: the outcome of the previous upgrade is kept; a refused         *)
(* submission is taken for an accepted one.                                *)
AcceptUpgradeUnreset(i) ==
  /\ Reading(i, {"UPGRADE"})
  /\ ~UpgradeRefused /\ CanSubmit
  /\ operation_id' = NextSequence(operation_id)
  /\ mailbox' = Submitted(NextSequence(operation_id))
  /\ thread' = Signalled
  /\ upgrade' = [upgrade EXCEPT !.state = "VALIDATING"]
  /\ AnswerRequest(i, "UPGRADE", "OK")
  /\ UNCHANGED <<session, upgrade_result, tx, telemetry, worldVars, event_fd,
                 live, firmware>>

AcceptUpgradeUnchecked(i) ==
  /\ Reading(i, {"UPGRADE"})
  /\ ~UpgradeRefused
  /\ operation_id' = NextSequence(operation_id)
  /\ IF CanSubmit
     THEN mailbox' = Submitted(NextSequence(operation_id)) /\ thread' = Signalled
     ELSE UNCHANGED <<mailbox, thread>>
  /\ upgrade_result' = "OK"
  /\ upgrade' = [upgrade EXCEPT !.state = "VALIDATING"]
  /\ AnswerRequest(i, "UPGRADE", "OK")
  /\ UNCHANGED <<session, tx, telemetry, worldVars, event_fd, live, firmware>>

(* The operation id wraps around 0 like a sequence.  The record of the     *)
(* previous upgrade is kept: only its state changes.                       *)
AcceptUpgrade(i) ==
  /\ Reading(i, {"UPGRADE"})
  /\ ~UpgradeRefused
  /\ operation_id' = NextSequence(operation_id)
  /\ \/ /\ CanSubmit
        /\ mailbox' = Submitted(NextSequence(operation_id))
        /\ thread' = Signalled
        /\ upgrade_result' = "OK"
        /\ upgrade' = [upgrade EXCEPT !.state = "VALIDATING"]
        /\ AnswerRequest(i, "UPGRADE", "OK")
     \/ /\ ~CanSubmit
        /\ upgrade_result' = "BUSY"
        /\ upgrade' = Fail(upgrade)
        /\ AnswerRequest(i, "UPGRADE", "BUSY")
        /\ UNCHANGED <<mailbox, thread>>
  /\ UNCHANGED <<session, tx, telemetry, worldVars, event_fd, live, firmware>>

(* The checks of start_request before a command is forwarded. *)
Refusal(command) ==
  IF UpgradeActive(upgrade) THEN "BUSY"
  ELSE IF \/ command = "START_TELEMETRY" /\ session.state # "READY"
          \/ command = "STOP_TELEMETRY" /\ session.state # "STREAMING"
          \/ session.state \notin {"READY", "STREAMING"} THEN "STATE"
  ELSE IF active_client # 0 \/ ~CanBegin(session) THEN "BUSY"
  ELSE "NONE"

RefuseCommand(i) ==
  /\ Reading(i, DeviceCommands)
  /\ LET command == clients[i].inbox.command
     IN  \/ /\ Refusal(command) # "NONE"
            /\ AnswerRequest(i, command, Refusal(command))
            /\ UNCHANGED <<session, heard>>
         \/ /\ Refusal(command) = "NONE" /\ ~CanQueueFrame
            /\ AnswerRequest(i, command, "BUSY")
            /\ session' = Cancel(BeginRequest(session, command, ClientRetries))
            /\ heard' = FALSE
  /\ UNCHANGED <<upgrade, operation_id, upgrade_result, tx, telemetry,
                 backlog, workerVars>>

ForwardCommand(i) ==
  /\ Reading(i, DeviceCommands)
  /\ LET command == clients[i].inbox.command
     IN  /\ Refusal(command) = "NONE" /\ CanQueueFrame
         /\ session' = BeginRequest(session, command, ClientRetries)
         /\ tx' = session.next_sequence
         /\ heard' = FALSE
         /\ IF "HUP" \in batch.clients[i]
            THEN CloseClient(i)
            ELSE /\ clients' = [clients EXCEPT ![i].inbox = NoInput,
                                               ![i].command = command]
                 /\ active_client' = i
  /\ UNCHANGED <<upgrade, operation_id, upgrade_result, telemetry,
                 backlog, workerVars>>

(* read() returns 0: the peer is gone and has left nothing to read. *)
DropClient(i) ==
  /\ pc = "dispatch"
  /\ "IN" \in batch.clients[i]
  /\ clients[i].inbox = NoInput
  /\ CloseClient(i)
  /\ Proceed(WithoutClient(i), running)
  /\ UNCHANGED <<session, upgrade, operation_id, upgrade_result, tx,
                 telemetry, worldVars, workerVars>>

(* handle_client_output: the answer is written and the connection closed,  *)
(* or the socket buffer is full and the rest waits for the next EPOLLOUT.  *)
WriteAnswer(i) ==
  /\ pc = "dispatch"
  /\ batch.clients[i] = {"OUT"}
  /\ ~clients[i].hup
  /\ \/ CloseClient(i)
     \/ UNCHANGED <<clients, active_client>>
  /\ Proceed(WithoutClient(i), running)
  /\ UNCHANGED <<session, upgrade, operation_id, upgrade_result, tx,
                 telemetry, worldVars, workerVars>>

(* The peer closed after the snapshot: write() raises SIGPIPE, which the   *)
(* program neither blocks nor ignores, and the process is gone.            *)
WriteToClosedPeer(i) ==
  /\ pc = "dispatch"
  /\ batch.clients[i] = {"OUT"}
  /\ clients[i].hup
  /\ pc' = "killed"
  /\ UNCHANGED <<session, upgrade, operation_id, upgrade_result, tx,
                 active_client, clients, telemetry, running, result, batch,
                 worldVars, workerVars>>

ClientEvent ==
  \E i \in Slots :
    \/ AnswerMalformed(i) \/ AnswerGetTelemetry(i) \/ AnswerUpgradeStatus(i)
    \/ RefuseUpgrade(i) \/ AcceptUpgrade(i)
    \/ RefuseCommand(i) \/ ForwardCommand(i)
    \/ DropClient(i) \/ WriteAnswer(i) \/ WriteToClosedPeer(i)

(***************************************************************************)
(* The validation worker's eventfd                                         *)
(***************************************************************************)
(* The eventfd is reset and the result taken.  A notification without a    *)
(* result would stop the daemon; NotificationHasResult excludes it.        *)
TakingResult ==
  /\ pc = "dispatch" /\ batch.worker
  /\ event_fd' = 0
  /\ IF CanTake
     THEN /\ mailbox' = Taken
          /\ Proceed([batch EXCEPT !.worker = FALSE], running)
     ELSE /\ UNCHANGED mailbox
          /\ StopWith("NOT_FOUND")
  /\ UNCHANGED <<operation_id, active_client, clients, telemetry, backlog,
                 thread>>

(* Mutant: the upgrade may have failed while its image was validated. *)
ResultOfThisId == /\ CanTake
                  /\ mailbox.result.job_id = operation_id

ResultExpected == /\ CanTake
                  /\ mailbox.result.job_id = operation_id
                  /\ upgrade.state = "VALIDATING"

(* Mutant: the image of an unexpected result is not closed. *)
DropResult ==
  /\ TakingResult
  /\ ~ResultExpected
  /\ UNCHANGED <<session, upgrade, upgrade_result, tx, heard, live, firmware>>

DiscardResult ==
  /\ TakingResult
  /\ ~ResultExpected
  /\ live' = Closed(ImageOf(mailbox.result))
  /\ UNCHANGED <<session, upgrade, upgrade_result, tx, heard, firmware>>

ValidationFailed ==
  /\ TakingResult
  /\ ResultExpected /\ mailbox.result.status # "OK"
  /\ upgrade_result' = mailbox.result.status
  /\ upgrade' = Fail(upgrade)
  /\ UNCHANGED <<session, tx, heard, live, firmware>>

(* The image is adopted and the first request queued ... *)
StartTransfer ==
  /\ TakingResult
  /\ ResultExpected /\ mailbox.result.status = "OK"
  /\ Accepts(session, "START_UPGRADE")
  /\ \E image \in Images :
       QueueUpgradeRequest(Transition(session, "START_UPGRADE"),
                           StartUpgrade(upgrade, image, "V"))
  /\ firmware' = mailbox.result.job_id
  /\ UNCHANGED <<upgrade_result, live>>

(* ... or a step of it is refused and the image is closed again.  A failed *)
(* queue_upgrade_request has cancelled whatever was pending.               *)
TransferRefused ==
  /\ TakingResult
  /\ ResultExpected /\ mailbox.result.status = "OK"
  /\ \E image \in Images :
       LET u == StartUpgrade(upgrade, image, "V")
           s == Transition(session, "START_UPGRADE")
           accepted == Accepts(session, "START_UPGRADE")
           t == IF accepted THEN FailedUpgradeQueue(s, u) ELSE s
       IN  /\ ~(accepted /\ CanQueueUpgrade(s, u))
           /\ upgrade' = Fail(u)
           /\ upgrade_result' = IF accepted THEN "BUSY" ELSE "STATE"
           /\ session' = Transition(t, "UPGRADE_DONE")
  /\ live' = Closed(mailbox.result.job_id)
  /\ UNCHANGED <<tx, heard, firmware>>

WorkerEvent == DiscardResult \/ ValidationFailed \/ StartTransfer \/ TransferRefused

(***************************************************************************)
(* The transport: EPOLLOUT is served first, then frames are read until the *)
(* descriptor is drained, then a hangup flag stops the daemon.             *)
(***************************************************************************)
FlushTransport ==
  /\ pc = "dispatch" /\ "OUT" \in batch.transport
  /\ \/ /\ tx' = 0
        /\ heard' = (heard \/ tx = session.pending.sequence)
     \/ UNCHANGED <<tx, heard>>            \* EAGAIN: bytes remain
  /\ batch' = [batch EXCEPT !.transport = @ \ {"OUT"}]
  /\ pc' = "transport"
  /\ UNCHANGED <<session, upgrade, operation_id, upgrade_result,
                 active_client, clients, telemetry, running, result, backlog,
                 workerVars>>

ReadingFrame == pc = "transport" /\ "IN" \in batch.transport

(* A write or a read fails with something other than EAGAIN. *)
TransportFailed ==
  /\ \/ pc = "dispatch" /\ "OUT" \in batch.transport
     \/ ReadingFrame
  /\ "HANGUP" \in Faults
  /\ StopWith("DISCONNECTED")
  /\ UNCHANGED <<session, upgrade, operation_id, upgrade_result, tx,
                 active_client, clients, telemetry, worldVars, workerVars>>

ReadTransport ==
  /\ pc = "dispatch"
  /\ batch.transport # {} /\ "OUT" \notin batch.transport
  /\ pc' = "transport"
  /\ UNCHANGED <<session, upgrade, operation_id, upgrade_result, tx,
                 active_client, clients, telemetry, running, result, batch,
                 worldVars, workerVars>>

TransportDrained ==
  /\ pc = "transport"
  /\ IF "HUP" \in batch.transport
     THEN StopWith("DISCONNECTED")
     ELSE Proceed(WithoutTransport, running)
  /\ UNCHANGED <<session, upgrade, operation_id, upgrade_result, tx,
                 active_client, clients, telemetry, worldVars, workerVars>>

(* The frames the parser may hand to on_device_frame now: of any sequence, *)
(* but the device cannot answer what it has not received.                  *)
DeviceFrames ==
  [type : {session.pending.type, "TELEMETRY", "GET_STATS"} \union AckTypes,
   response : BOOLEAN,
   sequence : {q \in 0 .. Modulus - 1 :
                 session.pending.active /\ q = session.pending.sequence => heard},
   payload : Payloads]

IsTelemetry(f) == f.type = "TELEMETRY" /\ f.sequence = 0

(* Only a payload of the right size is kept. *)
KeepTelemetry ==
  /\ ReadingFrame
  /\ \E f \in {g \in DeviceFrames : IsTelemetry(g)} :
       telemetry' = (telemetry \/ Len(f.payload) = 4)
  /\ UNCHANGED <<session, upgrade, operation_id, upgrade_result, tx,
                 active_client, clients, running, result, pc, batch,
                 worldVars, workerVars>>

IgnoreFrame ==
  /\ ReadingFrame
  /\ {f \in DeviceFrames : ~IsTelemetry(f) /\ ~Matches(session, f)} # {}
  /\ UNCHANGED vars

HandshakeReply(f) ==
  /\ ReadingFrame
  /\ Matches(session, f) /\ session.state = "HANDSHAKING"
  /\ IF f.type \in ErrorTypes
     THEN /\ StopTransport("PROTOCOL")
          /\ session' = Complete(session)
     ELSE /\ session' = Transition(Complete(session), "HANDSHAKE_OK")
          /\ UNCHANGED <<running, result, pc, batch>>
  /\ UNCHANGED <<upgrade, operation_id, upgrade_result, tx, active_client,
                 clients, telemetry, worldVars, workerVars>>

(* Any completed request counts as the upgrade's while one is active. *)
UpgradeReply(f) ==
  LET u == AcceptResponse(upgrade, session.pending.type, f)
      s == Complete(session)
  IN  /\ ReadingFrame
      /\ Matches(session, f) /\ session.state # "HANDSHAKING"
      /\ UpgradeActive(upgrade)
      /\ \/ /\ u.state \in {"COMPLETE", "ERROR"}
            /\ EndUpgrade(s, u, IF u.state = "COMPLETE" THEN "OK" ELSE "PROTOCOL")
            /\ UNCHANGED <<tx, heard, running, result, pc, batch>>
         \/ /\ u.state \notin {"COMPLETE", "ERROR"}
            /\ QueueUpgradeRequest(s, u)
            /\ UNCHANGED <<upgrade_result, running, result, pc, batch, workerVars>>
         \/ /\ u.state \notin {"COMPLETE", "ERROR"}
            /\ ~CanQueueUpgrade(s, u)
            /\ session' = FailedUpgradeQueue(s, u)
            /\ upgrade' = Built(u)
            /\ StopTransport("BUSY")
            /\ UNCHANGED <<tx, heard, upgrade_result, workerVars>>
      /\ UNCHANGED <<operation_id, active_client, clients, telemetry, backlog>>

(* The answer goes to the client that asked; a telemetry command that the  *)
(* device accepted also moves the session.                                 *)
ClientReply(f) ==
  LET command == session.pending.type
      event == CASE command = "START_TELEMETRY" -> "START_STREAM"
                 [] command = "STOP_TELEMETRY"  -> "STOP_STREAM"
                 [] OTHER                       -> "NONE"
      s == Complete(session)
  IN  /\ ReadingFrame
      /\ Matches(session, f) /\ session.state # "HANDSHAKING"
      /\ ~UpgradeActive(upgrade) /\ active_client # 0
      /\ session' = IF f.type \in ErrorTypes THEN s ELSE Transition(s, event)
      /\ clients' = Answer(active_client, command,
                           IF f.type \in ErrorTypes THEN "PROTOCOL" ELSE "OK")
      /\ active_client' = 0
      /\ UNCHANGED <<upgrade, operation_id, upgrade_result, tx, telemetry,
                     running, result, pc, batch, worldVars, workerVars>>

(* The client that asked has gone. *)
OrphanReply(f) ==
  /\ ReadingFrame
  /\ Matches(session, f) /\ session.state # "HANDSHAKING"
  /\ ~UpgradeActive(upgrade) /\ active_client = 0
  /\ session' = Complete(session)
  /\ UNCHANGED <<upgrade, operation_id, upgrade_result, tx, active_client,
                 clients, telemetry, running, result, pc, batch, worldVars,
                 workerVars>>

OnDeviceFrame == \E f \in {g \in DeviceFrames : Matches(session, g)} :
  HandshakeReply(f) \/ UpgradeReply(f) \/ ClientReply(f) \/ OrphanReply(f)

TransportEvent == \/ FlushTransport \/ TransportFailed \/ ReadTransport
                  \/ KeepTelemetry \/ IgnoreFrame \/ OnDeviceFrame
                  \/ TransportDrained

(***************************************************************************)
(* The timer: devmgr_session_tick and what the reactor does with it        *)
(***************************************************************************)
(* A request begun since the snapshot has its whole timeout ahead of it.   *)
TimerEvent == pc = "dispatch" /\ batch.timer # NoTimer
DeadlinePassed == /\ session.pending.active
                  /\ batch.timer = session.pending.sequence

(* Nothing is pending or its deadline has not passed. *)
TickEarly ==
  /\ TimerEvent /\ ~DeadlinePassed
  /\ Proceed(WithoutTimer, running)
  /\ UNCHANGED <<session, upgrade, operation_id, upgrade_result, tx,
                 active_client, clients, telemetry, worldVars, workerVars>>

TickRetry ==
  /\ TimerEvent /\ DeadlinePassed /\ ~Exhausted(session)
  /\ CanQueueFrame
  /\ session' = Retry(session)
  /\ tx' = session.pending.sequence
  /\ Proceed(WithoutTimer, running)
  /\ UNCHANGED <<upgrade, operation_id, upgrade_result, active_client, clients,
                 telemetry, worldVars, workerVars>>

(* The earlier copy is still in transport_output: the callback answers     *)
(* BUSY and the loop takes that for a failure.                             *)
TickRetryBusy ==
  /\ TimerEvent /\ DeadlinePassed /\ ~Exhausted(session)
  /\ ~CanQueueFrame
  /\ StopWith("BUSY")
  /\ UNCHANGED <<session, upgrade, operation_id, upgrade_result, tx,
                 active_client, clients, telemetry, worldVars, workerVars>>

TickExhausted == TimerEvent /\ DeadlinePassed /\ Exhausted(session)

TickRecover ==
  /\ TickExhausted /\ UpgradeActive(upgrade)
  /\ CanRecover(upgrade)
  /\ QueueUpgradeRequest(Expire(session), BeginRecovery(upgrade))
  /\ Proceed(WithoutTimer, running)
  /\ UNCHANGED <<operation_id, upgrade_result, active_client, clients,
                 telemetry, backlog, workerVars>>

TickUpgradeFailed ==
  LET u == IF CanRecover(upgrade) THEN BeginRecovery(upgrade) ELSE upgrade
      s == Expire(session)
      t == IF CanRecover(upgrade) THEN FailedUpgradeQueue(s, u) ELSE s
  IN  /\ TickExhausted /\ UpgradeActive(upgrade)
      /\ CanRecover(upgrade) => ~CanQueueUpgrade(s, u)
      /\ EndUpgrade(t, Fail(u), "TIMEOUT")
      /\ Proceed(WithoutTimer, running)
      /\ UNCHANGED <<operation_id, tx, active_client, clients, telemetry,
                     worldVars>>

(* Mutant: the client is not told. *)
TickClientForgotten ==
  /\ TickExhausted /\ ~UpgradeActive(upgrade) /\ active_client # 0
  /\ session' = Expire(session)
  /\ active_client' = 0
  /\ Proceed(WithoutTimer, running)
  /\ UNCHANGED <<upgrade, operation_id, upgrade_result, tx, clients, telemetry,
                 worldVars, workerVars>>

(* Mutant: the status is not set back once the client has been told. *)
TickClientFatal ==
  /\ TickExhausted /\ ~UpgradeActive(upgrade) /\ active_client # 0
  /\ session' = Expire(session)
  /\ clients' = Answer(active_client, "NONE", "TIMEOUT")
  /\ active_client' = 0
  /\ StopWith("TIMEOUT")
  /\ UNCHANGED <<upgrade, operation_id, upgrade_result, tx, telemetry,
                 worldVars, workerVars>>

TickClientTimeout ==
  /\ TickExhausted /\ ~UpgradeActive(upgrade) /\ active_client # 0
  /\ session' = Expire(session)
  /\ clients' = Answer(active_client, "NONE", "TIMEOUT")
  /\ active_client' = 0
  /\ Proceed(WithoutTimer, running)
  /\ UNCHANGED <<upgrade, operation_id, upgrade_result, tx, telemetry,
                 worldVars, workerVars>>

(* Nobody is associated with the request: the status ends the loop. *)
TickNobody ==
  /\ TickExhausted /\ ~UpgradeActive(upgrade) /\ active_client = 0
  /\ session' = Expire(session)
  /\ StopWith("TIMEOUT")
  /\ UNCHANGED <<upgrade, operation_id, upgrade_result, tx, active_client,
                 clients, telemetry, worldVars, workerVars>>

TickDue == \/ TickRetry \/ TickRetryBusy \/ TickRecover \/ TickUpgradeFailed
           \/ TickClientTimeout \/ TickNobody

(***************************************************************************)
(* The loop, its start and its end                                         *)
(***************************************************************************)
SignalEvent ==
  /\ pc = "dispatch" /\ batch.signal
  /\ Proceed([batch EXCEPT !.signal = FALSE], FALSE)
  /\ UNCHANGED <<session, upgrade, operation_id, upgrade_result, tx,
                 active_client, clients, telemetry, worldVars, workerVars>>

StartHandshake ==
  LET s == Transition(Transition(session, "CONNECT"), "TRANSPORT_CONNECTED")
  IN  /\ pc = "start"
      /\ pc' = "wait"
      /\ session' = BeginRequest(s, "PING", HandshakeRetries)
      /\ tx' = s.next_sequence
      /\ UNCHANGED <<upgrade, operation_id, upgrade_result, active_client,
                     clients, telemetry, running, result, batch, worldVars,
                     workerVars>>

SetupFailed ==
  /\ pc = "start"
  /\ StopWith("IO")
  /\ UNCHANGED <<session, upgrade, operation_id, upgrade_result, tx,
                 active_client, clients, telemetry, worldVars, workerVars>>

ClientFlags(c) == (IF c.inbox # NoInput \/ c.hup THEN {"IN"} ELSE {})
                  \union (IF c.output # NoOutput THEN {"OUT"} ELSE {})
                  \union (IF c.hup THEN {"HUP"} ELSE {})

(* The snapshot.  Whether the timer has expired, a signal has arrived, the *)
(* device has sent bytes or the line can take some is up to the world.     *)
EpollWait ==
  /\ pc = "wait"
  /\ \E signal, input, writable, hangup \in BOOLEAN,
        timer \in {NoTimer, Early, session.pending.sequence} :
       /\ signal => "SIGNAL" \in Faults
       /\ hangup => "HANGUP" \in Faults
       /\ batch' = [listen |-> backlog > 0, signal |-> signal,
                 worker |-> event_fd > 0, timer |-> timer,
                 transport |-> (IF input THEN {"IN"} ELSE {})
                   \union (IF writable /\ tx # 0 THEN {"OUT"} ELSE {})
                   \union (IF hangup THEN {"HUP"} ELSE {}),
                 clients |-> [i \in Slots |-> ClientFlags(clients[i])]]
  /\ batch' # EmptyBatch
  /\ pc' = "dispatch"
  /\ UNCHANGED <<session, upgrade, operation_id, upgrade_result, tx,
                 active_client, clients, telemetry, running, result,
                 worldVars, workerVars>>

(* cleanup_context up to the join of the worker, the join, and the rest. *)
Cleanup ==
  /\ pc = "cleanup"
  /\ clients' = [i \in Slots |-> FreeSlot]
  /\ active_client' = 0
  /\ backlog' = 0
  /\ mailbox' = Stopped
  /\ thread' = Signalled
  /\ pc' = "join"
  /\ UNCHANGED <<session, upgrade, operation_id, upgrade_result, tx, telemetry,
                 running, result, batch, heard, event_fd, live,
                 firmware>>

CleanupJoin ==
  /\ pc = "join"
  /\ JoinWorker
  /\ pc' = "release"
  /\ UNCHANGED <<session, upgrade, operation_id, upgrade_result, tx,
                 active_client, clients, telemetry, running, result, batch,
                 worldVars>>

(* Mutant: the image of an upgrade in progress is left mapped. *)
CleanupUnreleased ==
  /\ pc = "release"
  /\ pc' = "down"
  /\ UNCHANGED <<session, upgrade, operation_id, upgrade_result, tx,
                 active_client, clients, telemetry, running, result, batch,
                 worldVars, workerVars>>

CleanupRelease ==
  /\ pc = "release"
  /\ firmware' = 0
  /\ live' = Closed(firmware)
  /\ pc' = "down"
  /\ UNCHANGED <<session, upgrade, operation_id, upgrade_result, tx,
                 active_client, clients, telemetry, running, result, batch,
                 worldVars, mailbox, thread, event_fd>>

Reactor == \/ StartHandshake \/ SetupFailed \/ EpollWait
           \/ AcceptClients \/ ClientEvent \/ WorkerEvent \/ TransportEvent
           \/ TickEarly \/ TickDue \/ SignalEvent
           \/ Cleanup \/ CleanupJoin \/ CleanupRelease

(***************************************************************************)
(* The world: clients connect, send one request and may leave at any time. *)
(* What arrives while a snapshot is handled is not seen before the next    *)
(* one, so arrivals are taken between snapshots; a peer that leaves is     *)
(* seen by write() at once, so leaving is possible at every moment.        *)
(***************************************************************************)
Connect ==
  /\ pc = "wait" /\ backlog < MaxBacklog
  /\ backlog' = backlog + 1
  /\ UNCHANGED <<reactorVars, heard, workerVars>>

ClientSends(i) ==
  /\ pc = "wait"
  /\ clients[i].open /\ ~clients[i].hup
  /\ clients[i].inbox = NoInput /\ clients[i].command = "NONE"
  /\ \E command \in Commands, operation \in 0 .. Modulus - 1 :
       /\ command # "UPGRADE_STATUS" => operation = 0
       /\ clients' = [clients EXCEPT ![i].inbox =
                        [command |-> command, operation |-> operation]]
  /\ UNCHANGED <<session, upgrade, operation_id, upgrade_result, tx,
                 active_client, telemetry, running, result, pc, batch,
                 worldVars, workerVars>>

ClientLeaves(i) ==
  /\ InLoop /\ "LEAVE" \in Faults
  /\ clients[i].open /\ ~clients[i].hup
  /\ clients' = [clients EXCEPT ![i].hup = TRUE]
  /\ UNCHANGED <<session, upgrade, operation_id, upgrade_result, tx,
                 active_client, telemetry, running, result, pc, batch,
                 worldVars, workerVars>>

World == \/ Connect
         \/ \E i \in Slots : ClientSends(i) \/ ClientLeaves(i)

(* The worker thread runs until the process is gone. *)
WorkerRuns == /\ pc \notin {"down", "killed"}
              /\ ThreadStep
              /\ UNCHANGED daemonVars

(* The process has ended: nothing moves any more. *)
Ended == pc \in {"down", "killed"} /\ UNCHANGED vars

DaemonNext == Reactor \/ World \/ WorkerRuns \/ Ended

DaemonSpec == DaemonInit /\ [][DaemonNext]_vars

(***************************************************************************)
(* Fairness.  The reactor and the worker thread are scheduled; timerfd     *)
(* expires every 100 ms, so snapshots with the timer keep coming, and      *)
(* CLOCK_MONOTONIC passes every deadline; an answer of at most 4108 bytes  *)
(* fits the buffer of a local socket, so writing it is not blocked for     *)
(* ever.  Nothing is assumed of clients, device, line or signals.          *)
(***************************************************************************)
DeadlinePasses == EpollWait /\ batch'.timer \notin {NoTimer, Early}
AnswerWritten(i) == WriteAnswer(i) /\ ~clients'[i].open

DaemonFairness ==
  /\ WF_vars(Reactor)
  /\ WF_vars(pc \notin {"down", "killed"} /\ ThreadProgress /\ UNCHANGED daemonVars)
  /\ SF_vars(DeadlinePasses)
  /\ \A i \in Slots : SF_vars(AnswerWritten(i))

DaemonLiveSpec == DaemonSpec /\ DaemonFairness

(***************************************************************************)
(* Properties                                                              *)
(***************************************************************************)
Alive == pc \notin {"down", "killed"}
CommandNames == DeviceCommands \union LocalCommands \union {"NONE"}
Statuses == {"OK", "BUSY", "STATE", "INVALID", "NOT_FOUND", "PROTOCOL",
             "TIMEOUT", "LIMIT", "IO", "DISCONNECTED"}

RequestTypes == DeviceCommands \union
  {"NONE", "PING", "ENTER_BOOTLOADER", "FW_BEGIN", "FW_DATA", "FW_STATUS",
   "FW_END", "FW_VERIFY", "FW_ACTIVATE", "REBOOT"}

Requests == [active : BOOLEAN, type : RequestTypes, sequence : 0 .. Modulus - 1,
             retries_done : Nat, max_retries : Nat]

Sessions == [state : DeviceStates, next_sequence : Sequences32,
             pending : Requests]

Upgrades ==
  [state : UpgradeStates, image : Seq(Nat), version : {NoVersion, "V"},
   session_id : Nat, offset : Nat, last_chunk_end : Nat,
   recovery_attempts : 0 .. MaxRecovery]

ClientSlots ==
  [open : BOOLEAN, hup : BOOLEAN, command : CommandNames,
   inbox : [command : CommandNames, operation : 0 .. Modulus - 1],
   output : [command : CommandNames, status : Statuses \union {"NONE"}]]

Flags == {"IN", "OUT", "HUP"}

Batches ==
  [listen : BOOLEAN, signal : BOOLEAN, worker : BOOLEAN,
   timer : -1 .. Modulus - 1, transport : SUBSET Flags,
   clients : [Slots -> SUBSET Flags]]

(* The types of the reactor's state; a request has not been repeated more  *)
(* often than its limit.                                                   *)
DaemonTypeOK ==
  /\ session \in Sessions
  /\ session.pending.retries_done <= session.pending.max_retries
  /\ upgrade \in Upgrades
  /\ operation_id \in 0 .. Modulus - 1
  /\ upgrade_result \in Statuses /\ result \in Statuses
  /\ tx \in 0 .. Modulus - 1
  /\ active_client \in Slots \union {0}
  /\ clients \in [Slots -> ClientSlots]
  /\ telemetry \in BOOLEAN /\ running \in BOOLEAN /\ heard \in BOOLEAN
  /\ pc \in {"start", "wait", "dispatch", "transport", "cleanup", "join",
             "release", "down", "killed"}
  /\ batch \in Batches
  /\ backlog \in Nat

(* The client recorded in active_client is connected, has asked for        *)
(* exactly the request that is in flight and has no answer yet; outside of *)
(* that no request of a client is waited for.  So an answer or a timeout   *)
(* is never delivered to a closed or reused slot, or to the wrong client.  *)
AddresseeIsAsking ==
  active_client # 0 =>
    /\ clients[active_client].open
    /\ session.pending.active
    /\ clients[active_client].command = session.pending.type
    /\ clients[active_client].output = NoOutput
    /\ session.state \in {"READY", "STREAMING"}
    /\ ~UpgradeActive(upgrade)

(* A slot only becomes active_client together with a fresh request: while  *)
(* the request of a client that left is outstanding, no later client can   *)
(* inherit its answer.                                                     *)
NoInheritedAnswer ==
  [][active_client # active_client' /\ active_client' # 0 =>
       /\ ~session.pending.active
       /\ session'.pending.active
       /\ session'.pending.type = clients'[active_client'].command]_vars

(* A client is answered about the command it sent, and only after it sent  *)
(* one; one client never holds both a pending request and an answer.       *)
AnswersBelongToRequests ==
  \A i \in Slots :
    /\ clients[i].output # NoOutput =>
         /\ clients[i].open /\ clients[i].command # "NONE"
         /\ \/ clients[i].output.command = clients[i].command
            \/ clients[i].output.command = "NONE" /\ clients[i].output.status \in
                 {"TIMEOUT", "LIMIT", "PROTOCOL"}
            \/ clients[i].output.command = "UPGRADE"
                 /\ clients[i].command = "UPGRADE_MALFORMED"
    /\ InLoop /\ clients[i].command # "NONE" /\ clients[i].output = NoOutput =>
         active_client = i

(* The session is UPGRADING exactly while the upgrade machine talks to the *)
(* device, and exactly then the reactor holds the mapped image of the      *)
(* current operation: image_data is never read after munmap, and no end of *)
(* an upgrade (success, NACK, timeout, refused start) leaves it mapped.    *)
UpgradeHoldsImage ==
  Alive /\ pc # "release" =>
    /\ (session.state = "UPGRADING") <=>
         (UpgradeActive(upgrade) /\ upgrade.state # "VALIDATING")
    /\ (session.state = "UPGRADING") <=> (firmware # 0)
    /\ firmware # 0 => firmware = operation_id /\ firmware \in live

(* An active upgrade is never forgotten: the reactor waits either for the  *)
(* worker's result on this very operation or for the answer to the request *)
(* that belongs to the upgrade's state.                                    *)
UpgradeIsWaitedFor ==
  InLoop =>
    /\ upgrade.state = "VALIDATING" =>
         /\ ~CanSubmit /\ mailbox.job_id = operation_id
    /\ session.state = "UPGRADING" =>
         /\ session.pending.active
         /\ session.pending.type = RequestType(upgrade)

(* What UPGRADE_STATUS reports is consistent: ERROR comes with the reason, *)
(* every other state with OK, and a completed upgrade has been             *)
(* acknowledged to the last byte.                                          *)
OutcomeIsConsistent ==
  /\ (StatusReport.state = "ERROR") <=> (StatusReport.result # "OK")
  /\ StatusReport.state = "COMPLETE" => StatusReport.offset = StatusReport.total

(* When the process returns from cleanup_context every image is unmapped,  *)
(* whatever stopped the loop and whatever the worker was doing.            *)
NothingLeftMapped == pc = "down" => live = {} /\ thread.pc = "joined"

(* What makes these inductive.  A slot without a connection is empty, and  *)
(* a client is read once: its request is either unread or being handled.   *)
SlotsAreClean ==
  \A i \in Slots :
    /\ ~clients[i].open => clients[i] = FreeSlot
    /\ clients[i].command # "NONE" => clients[i].inbox = NoInput

(* A client whose command was read and is not answered is the active one,  *)
(* during cleanup too.                                                     *)
UnansweredIsActive ==
  \A i \in Slots : clients[i].command # "NONE" /\ clients[i].output = NoOutput
                    <=> active_client = i

(* The thread of the reactor and the worker: where stop and the join of    *)
(* the worker happen, and that a snapshot whose eventfd was readable still *)
(* has its notification.                                                   *)
ReactorDrivesWorker ==
  /\ pc \notin {"dispatch", "transport", "killed"} => batch = EmptyBatch
  /\ batch.worker => event_fd > 0
  /\ mailbox.stop <=> pc \in {"join", "release", "down"}
  /\ thread.pc = "joined" <=> pc \in {"release", "down"}
  /\ pc = "down" => firmware = 0

(* The session before the handshake, and the states in which a request may *)
(* be outstanding.                                                         *)
SessionPhases ==
  /\ pc = "start" => session = InitialSession
  /\ session.pending.active =>
       session.state \in {"HANDSHAKING", "READY", "STREAMING", "UPGRADING"}

(* The operation that is validated is in the worker, and the states after  *)
(* the transfer are only entered once the device has taken every byte.     *)
ValidatedInWorker ==
  upgrade.state = "VALIDATING" => InWorker /\ mailbox.job_id = operation_id

SentToTheEnd ==
  upgrade.state \in {"END", "VERIFY", "ACTIVATE", "REBOOT", "COMPLETE"} =>
    upgrade.offset = Len(upgrade.image)

(* The image the reactor holds, during cleanup too.                        *)
ImageOfOperation ==
  pc # "down" =>
    /\ (session.state = "UPGRADING") <=>
         (UpgradeActive(upgrade) /\ upgrade.state # "VALIDATING")
    /\ (session.state = "UPGRADING") <=> (firmware # 0)
    /\ firmware # 0 => firmware = operation_id

(* While every client stays: an event of a snapshot is not stale, and a    *)
(* request outside of the handshake and the upgrades has a client.         *)
StayingClientsAreServed ==
  "LEAVE" \notin Faults =>
    /\ \A i \in Slots :
         /\ ~clients[i].hup /\ "HUP" \notin batch.clients[i]
         /\ "IN" \in batch.clients[i] => clients[i].inbox # NoInput
         /\ "OUT" \in batch.clients[i] => clients[i].output # NoOutput
    /\ pc \notin {"join", "release", "down"} /\ session.pending.active
         /\ session.state \in {"READY", "STREAMING"} => active_client # 0
    /\ pc # "killed"
    /\ pc \in {"start", "wait", "dispatch", "transport"} => result = "OK"
    /\ result = "TIMEOUT" => session.state = "HANDSHAKING"

(* The inductive invariant of DaemonProofs: the reactor's record of who    *)
(* asked what, of the request in flight, of the upgrade and of the image   *)
(* it holds agree with each other and with the worker, whatever order the  *)
(* events of a snapshot are handled in.                                    *)
DaemonInv ==
  /\ DaemonTypeOK /\ WorkerInv
  /\ AddresseeIsAsking /\ AnswersBelongToRequests
  /\ SlotsAreClean /\ UnansweredIsActive
  /\ ReactorDrivesWorker /\ SessionPhases
  /\ UpgradeIsWaitedFor /\ OutcomeIsConsistent
  /\ ValidatedInWorker /\ SentToTheEnd /\ ImageOfOperation
  /\ StayingClientsAreServed

(* A request the daemon has read is answered and its connection closed,    *)
(* or the client or the daemon goes away: nothing waits for ever, even     *)
(* when the device never answers.                                          *)
RequestsEnd ==
  \A i \in Slots : clients[i].command # "NONE" ~> ~clients[i].open \/ ~Alive

(* Every upgrade operation ends, against any device: retries and recovery  *)
(* cycles are bounded and each accepted chunk is new.                      *)
UpgradesEnd == UpgradeActive(upgrade) ~> ~UpgradeActive(upgrade) \/ ~Alive

(* docs/architecture.md: "Bounded retry exhaustion is returned to the      *)
(* associated client" and "closing the CLI does not cancel or orphan the   *)
(* device state machine".  So neither a request nor a client that goes     *)
(* away ends the daemon: only the handshake, which has no client, stops it *)
(* by running out of retries, and no write to a client kills it.           *)
ClientsCannotStopDaemon ==
  /\ pc # "killed"
  /\ result = "TIMEOUT" => session.state = "HANDSHAKING"

(* The reactor uses the worker as Worker allows: it submits and adopts     *)
(* only while it holds no image and reads a result only after an eventfd   *)
(* notification.                                                           *)
WorkerProtocol == WorkerSpec

(* What UPGRADE_STATUS reports is a history of operations: an id is given  *)
(* only when no operation is in progress, an operation ends once, and      *)
(* neither a late answer nor a timeout nor a stale result of the worker    *)
(* changes an outcome that devctl may already have read.                   *)
Reported == INSTANCE Operations WITH
  IdModulus <- Modulus, id <- operation_id,
  state <- IF UpgradeActive(upgrade) THEN "WORKING" ELSE upgrade.state

OutcomesStay == Reported!OperationsSpec
=============================================================================
