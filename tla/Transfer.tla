------------------------------ MODULE Transfer ------------------------------
(***************************************************************************)
(* A firmware upgrade from end to end: the host side of daemon.c (session, *)
(* upgrade machine, output buffer), the serial line, and a device.         *)
(*                                                                         *)
(* The line is a byte stream in each direction: frames arrive in order, at *)
(* most once per transmission, or not at all (dropped, or corrupted and    *)
(* refused by the CRC of the receiver's parser).  A retry puts a second    *)
(* copy of a request on the line, so requests and answers that the host no *)
(* longer waits for keep arriving.  Deadlines pass at any time.            *)
(***************************************************************************)
EXTENDS Session, Upgrade, Stm32

CONSTANTS
  Targets,          \* which devices: "simulator", "stm32"
  Upgrades,         \* the [image, version] pairs that may be requested
  MaxOperations,    \* bound on the upgrades of one behaviour
  Capacity,         \* bound on the frames of one direction of the line
  UpgradeRetries    \* max_retries of an upgrade request, 4 in the program

ASSUME TransferAssumption ==
  /\ Targets \subseteq {"simulator", "stm32"}
  /\ \A next \in Upgrades :
       /\ next = [image |-> next.image, version |-> next.version]
       /\ next.image \in Seq(Nat) /\ next.image # NoImage
  /\ MaxOperations \in Nat /\ Capacity \in Nat \ {0} /\ UpgradeRetries \in Nat

VARIABLES
  session,          \* context->session
  upgrade,          \* context->upgrade
  upgrade_result,   \* context->upgrade_result
  operations,       \* upgrades started so far
  asked,            \* history: what they were to install
  output,           \* the frame in transport_output, or NoFrame
  stopped,          \* the reactor loop has ended with an error
  requests,         \* frames on the line to the device
  responses,        \* frames on the line to the host
  device            \* the device's record

hostVars == <<session, upgrade, upgrade_result, operations, asked, output, stopped>>
vars == <<hostVars, requests, responses, device>>

NoFrame == [type |-> "NONE", sequence |-> 0, payload |-> <<>>]

TransferInit ==
  /\ session = [InitialSession EXCEPT !.state = "READY"]
  /\ upgrade = InitialUpgrade
  /\ upgrade_result = "OK"
  /\ operations = 0 /\ asked = {}
  /\ output = NoFrame
  /\ stopped = FALSE
  /\ requests = <<>>
  /\ responses = <<>>
  /\ device \in {IF t = "simulator" THEN BootSimulator ELSE BootStm32 : t \in Targets}

IsSimulator == "bootloader_active" \in DOMAIN device

(***************************************************************************)
(* The host                                                                *)
(***************************************************************************)
(* queue_upgrade_request for session s and upgrade u. *)
CanQueue(s, u) == CanBuild(u) /\ CanBegin(s) /\ output = NoFrame

Queue(s, u) ==
  /\ CanQueue(s, u)
  /\ session' = BeginRequest(s, RequestType(u), UpgradeRetries)
  /\ upgrade' = Built(u)
  /\ output' = [type |-> RequestType(u), sequence |-> s.next_sequence,
                payload |-> RequestPayload(u)]

(* A failed queue_upgrade_request: the sequence may have been spent. *)
NotQueued(s, u) ==
  Cancel(IF CanBuild(u) /\ CanBegin(s)
         THEN BeginRequest(s, RequestType(u), UpgradeRetries) ELSE s)

Finish(s, u, status) ==
  /\ session' = Transition(s, "UPGRADE_DONE")
  /\ upgrade' = u
  /\ upgrade_result' = status

(* A validated image: handle_worker_completion starts the transfer. *)
StartTransfer ==
  /\ ~stopped /\ ~UpgradeActive(upgrade)
  /\ operations < MaxOperations
  /\ operations' = operations + 1
  /\ \E next \in Upgrades :
       /\ asked' = asked \union {next}
       /\ LET u == StartUpgrade(upgrade, next.image, next.version)
              s == Transition(session, "START_UPGRADE")
          IN  \/ Queue(s, u) /\ upgrade_result' = "OK"
              \/ /\ ~CanQueue(s, u)
                 /\ Finish(NotQueued(s, u), Fail(u), "BUSY")
                 /\ UNCHANGED output
  /\ UNCHANGED <<stopped, requests, responses, device>>

(* flush_transport: the frame reaches the line, or is damaged on it. *)
FlushTransport ==
  /\ ~stopped /\ output # NoFrame
  /\ output' = NoFrame
  /\ \/ Len(requests) < Capacity /\ requests' = Append(requests, output)
     \/ UNCHANGED requests
  /\ UNCHANGED <<session, upgrade, upgrade_result, operations, asked, stopped,
                 responses, device>>

(* on_device_frame for a frame that completes the pending request. *)
UpgradeReply(f) ==
  LET u == AcceptResponse(upgrade, session.pending.type, f)
      s == Complete(session)
  IN  /\ Matches(session, f)
      /\ \/ /\ u.state \in {"COMPLETE", "ERROR"}
            /\ Finish(s, u, IF u.state = "COMPLETE" THEN "OK" ELSE "PROTOCOL")
            /\ UNCHANGED <<output, stopped>>
         \/ /\ u.state \notin {"COMPLETE", "ERROR"}
            /\ Queue(s, u)
            /\ UNCHANGED <<upgrade_result, stopped>>
         \/ /\ u.state \notin {"COMPLETE", "ERROR"}
            /\ ~CanQueue(s, u)
            /\ session' = NotQueued(s, u)
            /\ upgrade' = Built(u)
            /\ stopped' = TRUE
            /\ UNCHANGED <<upgrade_result, output>>

IgnoreFrame(f) ==
  /\ ~Matches(session, f)
  /\ UNCHANGED <<session, upgrade, upgrade_result, output, stopped>>

ReadTransport ==
  /\ ~stopped /\ responses # <<>>
  /\ responses' = Tail(responses)
  /\ UpgradeReply(Head(responses)) \/ IgnoreFrame(Head(responses))
  /\ UNCHANGED <<operations, asked, requests, device>>

(* The timer finds the deadline of the pending request passed.  The copy   *)
(* the session keeps for a retry is what upgrade would build again.        *)
Due == ~stopped /\ session.pending.active

TickRetry ==
  /\ Due /\ ~Exhausted(session)
  /\ \/ /\ output = NoFrame
        /\ session' = Retry(session)
        /\ output' = [type |-> session.pending.type,
                      sequence |-> session.pending.sequence,
                      payload |-> RequestPayload(upgrade)]
        /\ UNCHANGED stopped
     \/ /\ output # NoFrame
        /\ stopped' = TRUE
        /\ UNCHANGED <<session, output>>
  /\ UNCHANGED <<upgrade, upgrade_result, operations, asked, requests, responses, device>>

TickExhausted ==
  LET s == Expire(session)
      u == IF CanRecover(upgrade) THEN BeginRecovery(upgrade) ELSE upgrade
  IN  /\ Due /\ Exhausted(session)
      /\ \/ /\ CanRecover(upgrade) /\ Queue(s, u)
            /\ UNCHANGED upgrade_result
         \/ /\ CanRecover(upgrade) => ~CanQueue(s, u)
            /\ Finish(IF CanRecover(upgrade) THEN NotQueued(s, u) ELSE s,
                      Fail(u), "TIMEOUT")
            /\ UNCHANGED output
      /\ UNCHANGED <<operations, asked, stopped, requests, responses, device>>

(***************************************************************************)
(* The device reads the next request and answers it; the answer may be     *)
(* dropped or damaged (write_frame).                                       *)
(***************************************************************************)
DeviceHandles ==
  /\ requests # <<>>
  /\ requests' = Tail(requests)
  /\ \E outcome \in IF IsSimulator
                    THEN SimulatorHandle(device, Head(requests))
                    ELSE Stm32Handle(device, Head(requests)) :
       /\ device' = outcome.device
       /\ \/ /\ Len(responses) < Capacity
             /\ responses' = Append(responses, outcome.frame)
          \/ UNCHANGED responses
  /\ UNCHANGED hostVars

TransferNext == \/ StartTransfer \/ FlushTransport \/ ReadTransport
                \/ TickRetry \/ TickExhausted \/ DeviceHandles

TransferSpec == TransferInit /\ [][TransferNext]_vars

(***************************************************************************)
(* Properties                                                              *)
(***************************************************************************)
Receiving == IF IsSimulator THEN device.upgrading
                           ELSE device.state = "RECEIVING"

(* The flash always holds a beginning of the image that FW_BEGIN           *)
(* announced: no chunk of another image, no chunk twice, no gap.           *)
FlashIsPrefix ==
  Receiving => \E next \in Upgrades :
    /\ Crc(next.image) = device.crc
    /\ next.version = device.pending_version
    /\ device.flash = SubSeq(next.image, 1, device.offset)

(* While the host transfers in the device's current session, the device is *)
(* never behind what the host believes acknowledged, and at most one chunk *)
(* ahead: no committed byte is sent again except as an identical copy.     *)
HostFollowsDevice ==
  upgrade.state \in {"TRANSFER", "RECOVER"} =>
    /\ device.sid = upgrade.session_id
    /\ upgrade.offset <= device.offset
    /\ device.offset <= upgrade.last_chunk_end \/ device.offset = upgrade.offset

(* The simulator's FW_VERIFY reads flash_size bytes of a malloc'ed buffer: *)
(* every FW_VERIFY that can reach it finds the whole image written.        *)
VerifyReadsWrittenFlash ==
  \A i \in 1 .. Len(requests) :
    requests[i].type = "FW_VERIFY" => Len(device.flash) = device.size

(* README.md: "Lost-ACK idempotency"; docs/firmware-update.md: "This makes *)
(* a lost FW_DATA response safe to retry."  So on the simulator losing and *)
(* repeating frames alone never makes the device refuse a step of the      *)
(* upgrade or the host misread an answer.                                  *)
SimulatorToleratesRetries == IsSimulator => upgrade_result # "PROTOCOL"

(* The upgrade keeps the promise of Install: COMPLETE is reported only     *)
(* when the device runs exactly the requested image and version, whatever  *)
(* was lost, repeated, resumed or left over from an earlier upgrade.       *)
Status == IF UpgradeActive(upgrade) THEN "RUNNING" ELSE upgrade.state

Requested == [image |-> upgrade.image, version |-> upgrade.version]

Promised == INSTANCE Install WITH
  Firmwares <- Upgrades, Factory <- FactoryFirmware,
  status <- Status, asked <- asked, installed <- device.active,
  requested <- Requested

KeepsPromise == Promised!InstallSpec
=============================================================================
