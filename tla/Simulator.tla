----------------------------- MODULE Simulator -----------------------------
(***************************************************************************)
(* The firmware side of the PTY device simulator, on_frame in              *)
(* simulator/device/simulator.c, as operators on a record.  Handling a     *)
(* frame has a set of outcomes, each the device after it and the response  *)
(* written; there is more than one where malloc may fail.                  *)
(*                                                                         *)
(* The flash buffer comes from malloc and is only ever written at          *)
(* firmware_offset, so the record keeps its initialised part: the bytes    *)
(* below firmware_offset, in order.  active is firmware_version together   *)
(* with the bytes the flash held when that version was activated.  The     *)
(* readings and counters that GET_HEALTH and GET_STATS report are left out.*)
(***************************************************************************)
EXTENDS Integers, Sequences

CONSTANTS
  SidModulus,     \* the number of values of firmware_session_id: 2^32
  SampleModulus,  \* the number of values of telemetry_samples: 2^32
  FlashCrc(_),    \* devmgr_crc32 of the flash contents
  FailVerify,     \* --fail-verify
  MallocFails     \* whether malloc may fail

ASSUME SimulatorAssumption ==
  SidModulus \in Nat /\ SidModulus > 1 /\ SampleModulus \in Nat
  /\ SampleModulus > 1 /\ FailVerify \in BOOLEAN
  /\ MallocFails \in BOOLEAN

FactoryFirmware == [image |-> <<>>, version |-> "1.0.0"]

BootSimulator ==
  [bootloader_active |-> FALSE, upgrading |-> FALSE, verified |-> FALSE,
   telemetry |-> FALSE, interval |-> 0, samples |-> 0, size |-> 0, crc |-> 0, chunk |-> 0, sid |-> 0,
   offset |-> 0, flash |-> <<>>, pending_version |-> "NONE",
   active |-> FactoryFirmware]

NextSid(sid) == IF (sid + 1) % SidModulus = 0 THEN 1 ELSE (sid + 1) % SidModulus

Respond(frame, payload) ==
  [type |-> frame.type, response |-> TRUE, sequence |-> frame.sequence,
   payload |-> payload]
Nack(frame) ==
  [type |-> "NACK", response |-> TRUE, sequence |-> frame.sequence,
   payload |-> <<>>]

Outcome(device, frame) == [device |-> device, frame |-> frame]
Accepted(d, frame, payload) == {Outcome(d, Respond(frame, payload))}
Refused(d, frame) == {Outcome(d, Nack(frame))}

(***************************************************************************)
(* The application: queries and telemetry                                  *)
(***************************************************************************)
Ping(d, f) == Accepted(d, f, f.payload)
GetInfo(d, f) == Accepted(d, f, <<d.active.version>>)

GetHealth(d, f) == Accepted(d, f, <<>>)
GetStats(d, f) == Accepted(d, f, <<>>)

IntervalRange == 100 .. 60000

(* telemetry_interval_ms is stored before its range is checked. *)
StartTelemetry(d, f) ==
  IF f.payload = <<>> THEN Refused(d, f)
  ELSE LET stored == [d EXCEPT !.interval = f.payload[1]]
       IN  IF stored.interval \notin IntervalRange THEN Refused(stored, f)
           ELSE Accepted([stored EXCEPT !.telemetry = TRUE], f, f.payload)

StopTelemetry(d, f) == Accepted([d EXCEPT !.telemetry = FALSE], f, <<>>)

(* emit_telemetry: the sample it sends and the device after it. *)
Sample(d) == [type |-> "TELEMETRY", response |-> TRUE, sequence |-> 0,
              payload |-> <<d.samples>>]
Sampled(d) == [d EXCEPT !.samples = (@ + 1) % SampleModulus]

(***************************************************************************)
(* The bootloader                                                          *)
(***************************************************************************)
EnterBootloader(d, f) ==
  Accepted([d EXCEPT !.telemetry = FALSE, !.bootloader_active = TRUE], f, <<>>)

(* Mutants: the version is not compared; the CRC is not compared; nothing  *)
(* is ever resumed.                                                        *)
SameBytes(d, p) ==
  d.upgrading /\ d.size = p.size /\ d.crc = p.crc /\ d.chunk = p.chunk
SameLength(d, p) ==
  /\ d.upgrading /\ d.size = p.size /\ d.chunk = p.chunk
  /\ d.pending_version = p.version
NeverSame(d, p) == FALSE

(* A FW_BEGIN with the metadata of the transfer in progress resumes it. *)
SameImage(d, p) == /\ d.upgrading
                   /\ d.size = p.size /\ d.crc = p.crc /\ d.chunk = p.chunk
                   /\ d.pending_version = p.version

(* Mutant: firmware_offset is not reset. *)
ErasedKeepingOffset(d, p) ==
  [d EXCEPT !.size = p.size, !.crc = p.crc, !.chunk = p.chunk,
            !.flash = <<>>, !.sid = NextSid(@),
            !.pending_version = p.version, !.upgrading = TRUE,
            !.verified = FALSE]

Erased(d, p) ==
  [d EXCEPT !.size = p.size, !.crc = p.crc, !.chunk = p.chunk,
            !.offset = 0, !.flash = <<>>, !.sid = NextSid(@),
            !.pending_version = p.version, !.upgrading = TRUE,
            !.verified = FALSE]

(* What FW_BEGIN must announce.  The upper limits of size, chunk and       *)
(* version are those the host's own firmware file and policy respect.      *)
WellFormed(p) == p.size > 0 /\ p.chunk > 0

FwBegin(d, f) ==
  LET p == f.payload
      fresh == Erased(d, p)
  IN  IF ~d.bootloader_active \/ ~WellFormed(p) THEN Refused(d, f)
      ELSE IF SameImage(d, p) THEN Accepted(d, f, <<d.sid, d.offset>>)
      ELSE Accepted(fresh, f, <<fresh.sid, fresh.offset>>)
             \union (IF MallocFails THEN Refused(d, f) ELSE {})

(* The chunk at p.offset is new, a copy of committed bytes, or neither. *)
InRange(d, p) == /\ Len(p.data) <= d.chunk
                 /\ p.offset + Len(p.data) <= d.size

(* Mutant: a repeated chunk is not recognised. *)
NoDuplicate(d, p) == FALSE

IsDuplicate(d, p) ==
  /\ p.offset < d.offset
  /\ p.offset + Len(p.data) <= d.offset
  /\ \A k \in 1 .. Len(p.data) : /\ p.offset + k <= Len(d.flash)
                                  /\ d.flash[p.offset + k] = p.data[k]

Written(d, p) == [d EXCEPT !.flash = @ \o p.data, !.offset = @ + Len(p.data)]

FwData(d, f) ==
  LET p == f.payload
  IN  IF ~d.upgrading \/ p.session_id # d.sid \/ ~InRange(d, p)
      THEN Refused(d, f)
      ELSE IF IsDuplicate(d, p) THEN Accepted(d, f, <<d.offset>>)
      ELSE IF p.offset = d.offset
      THEN Accepted(Written(d, p), f, <<Written(d, p).offset>>)
      ELSE Refused(d, f)

FwStatus(d, f) ==
  IF d.upgrading /\ f.payload.session_id = d.sid
  THEN Accepted(d, f, <<d.sid, d.offset>>) ELSE Refused(d, f)

FwEnd(d, f) ==
  IF d.upgrading /\ f.payload.session_id = d.sid /\ d.offset = d.size
  THEN Accepted(d, f, <<>>) ELSE Refused(d, f)

(* The CRC is taken over flash_size bytes, END or not: the machine that    *)
(* drives this device has to show that no uninitialised byte is among them.*)
FwVerify(d, f) ==
  IF /\ d.upgrading /\ f.payload.session_id = d.sid
     /\ ~FailVerify /\ FlashCrc(d.flash) = d.crc
  THEN Accepted([d EXCEPT !.verified = TRUE], f, <<FlashCrc(d.flash)>>)
  ELSE Refused(d, f)

Flashed(d) == [image |-> d.flash, version |-> d.pending_version]

FwActivate(d, f) ==
  IF d.verified /\ f.payload.session_id = d.sid
  THEN Accepted([d EXCEPT !.active = Flashed(d)], f, <<>>)
  ELSE Refused(d, f)

Reboot(d, f) ==
  Accepted([d EXCEPT !.bootloader_active = FALSE, !.upgrading = FALSE,
                     !.verified = FALSE], f, <<>>)

SimulatorHandle(d, f) ==
  CASE f.type = "PING"             -> Ping(d, f)
    [] f.type = "GET_INFO"         -> GetInfo(d, f)
    [] f.type = "GET_HEALTH"       -> GetHealth(d, f)
    [] f.type = "GET_STATS"        -> GetStats(d, f)
    [] f.type = "START_TELEMETRY"  -> StartTelemetry(d, f)
    [] f.type = "STOP_TELEMETRY"   -> StopTelemetry(d, f)
    [] f.type = "ENTER_BOOTLOADER" -> EnterBootloader(d, f)
    [] f.type = "FW_BEGIN"         -> FwBegin(d, f)
    [] f.type = "FW_DATA"          -> FwData(d, f)
    [] f.type = "FW_STATUS"        -> FwStatus(d, f)
    [] f.type = "FW_END"           -> FwEnd(d, f)
    [] f.type = "FW_VERIFY"        -> FwVerify(d, f)
    [] f.type = "FW_ACTIVATE"      -> FwActivate(d, f)
    [] f.type = "REBOOT"           -> Reboot(d, f)
    [] OTHER                       -> Refused(d, f)
=============================================================================
