--------------------------- MODULE TransferProofs ---------------------------
(***************************************************************************)
(* An upgrade from end to end, for every image, chunk size, number of      *)
(* retries and recoveries, capacity of the line and both devices.          *)
(***************************************************************************)
EXTENDS Timing, SequenceTheorems, TLAPS

(***************************************************************************)
(* The invariant behind these properties.  Requests travel in one file:    *)
(* the device still has to see requests[1], ..., requests[Len], output and *)
(* last what the host would send now, Ask.                                 *)
(***************************************************************************)
InFlight == {requests[i] : i \in 1 .. Len(requests)} \union ({output} \ {NoFrame})

Ask == [type |-> RequestType(upgrade), payload |-> RequestPayload(upgrade)]

Announced(next) == [size |-> Len(next.image), crc |-> Crc(next.image),
                    chunk |-> ChunkSize, version |-> next.version]

Chunk(next, offset) ==
  SubSeq(next.image, offset + 1, offset + MinOf(Len(next.image) - offset, ChunkSize))

(* What the device has: a session, for the firmware next, all of it.       *)
Loaded == IF IsSimulator THEN device.upgrading ELSE device.state # "IDLE"

Holds(next) == /\ device.size = Len(next.image) /\ device.crc = Crc(next.image)
               /\ device.chunk = ChunkSize
               /\ device.pending_version = next.version
               /\ device.offset <= Len(next.image)
               /\ device.flash = SubSeq(next.image, 1, device.offset)

Full == device.offset = device.size

Resumes(p) == IF IsSimulator THEN SameImage(device, p) ELSE Stm32SameImage(device, p)

(* The requests that belong to a session of the device, and those sent     *)
(* once all of the image is acknowledged.                                  *)
Finishing == {"FW_END", "FW_VERIFY", "FW_ACTIVATE"}
InSession == {"FW_DATA", "FW_STATUS"} \union Finishing

(* Every request that the device has not seen will find it in a state the  *)
(* request was made for.                                                   *)
Fits(f) ==
  /\ f.type = "FW_BEGIN" => \E next \in asked : f.payload = Announced(next)
  /\ f.type \in InSession => Loaded /\ f.payload.session_id = device.sid
  /\ f.type \in Finishing => Full
  /\ f.type = "FW_DATA" =>
       /\ f.payload.offset \in Nat
       /\ \E next \in asked : /\ Holds(next)
                              /\ f.payload.offset < Len(next.image)
                              /\ f.payload.data = Chunk(next, f.payload.offset)
       /\ \/ f.payload.offset = device.offset
          \/ f.payload.offset + Len(f.payload.data) <= device.offset

(* Which requests can be underway behind one of a type: the host waits for *)
(* an answer before it goes on, except to a new upgrade.                   *)
Behind(type) ==
  {type, "ENTER_BOOTLOADER"} \union
  CASE type = "ENTER_BOOTLOADER"               -> {"FW_BEGIN"}
    [] type \in {"FW_BEGIN", "FW_DATA", "FW_STATUS"} -> {"FW_DATA", "FW_STATUS", "FW_END"}
    [] type = "FW_END"                         -> {"FW_VERIFY"}
    [] type = "FW_VERIFY"                      -> {"FW_ACTIVATE"}
    [] type = "FW_ACTIVATE"                    -> {"REBOOT"}
    [] OTHER                                   -> {}

(* A repeated FW_BEGIN behind which the host has gone on changes nothing.  *)
Follows(f, g) ==
  /\ g.type \in Behind(f.type)
  /\ f.type = "FW_BEGIN" => CASE g.type = "FW_BEGIN" -> g.payload = f.payload
                              [] g.type = "ENTER_BOOTLOADER" -> TRUE
                              [] OTHER -> Resumes(f.payload)

LineInOrder ==
  /\ \A i, j \in 1 .. Len(requests) : i < j => Follows(requests[i], requests[j])
  /\ output # NoFrame => \A i \in 1 .. Len(requests) : Follows(requests[i], output)
  /\ UpgradeActive(upgrade) => \A f \in InFlight : Follows(f, Ask)

LineFits == /\ \A f \in InFlight : Fits(f)
            /\ UpgradeActive(upgrade) => Fits(Ask)

(* The copies of the pending request are the last in line, and once one    *)
(* has been answered they are all that is left there.                      *)
Pending(f) == session.pending.active /\ f.sequence = session.pending.sequence

CopiesAreLast ==
  /\ \A f \in InFlight : Pending(f) => f.type = Ask.type /\ f.payload = Ask.payload
  /\ \A i, j \in 1 .. Len(requests) :
       i < j /\ Pending(requests[i]) => Pending(requests[j])
  /\ output # NoFrame => \A i \in 1 .. Len(requests) :
                           Pending(requests[i]) => Pending(output)
  /\ \A k \in 1 .. Len(responses) :
       Pending(responses[k]) => \A f \in InFlight : Pending(f)

(* What an answer to the pending request says still holds of the device.   *)
Answers(r) ==
  /\ r.type \in {"NACK", Ask.type}
  /\ r.type = "FW_BEGIN" => /\ Resumes(Ask.payload)
                            /\ r.payload = <<device.sid, device.offset>>
  /\ r.type = "FW_DATA" => /\ r.payload = <<device.offset>>
                           /\ device.offset = upgrade.last_chunk_end
  /\ r.type = "FW_STATUS" => r.payload = <<device.sid, device.offset>>
  /\ r.type = "FW_ACTIVATE" => device.active = Requested

AnswersAreCurrent ==
  \A k \in 1 .. Len(responses) : Pending(responses[k]) => Answers(responses[k])

(* What the host knows of the device and of the requests that are underway *)
(* in each state of the upgrade.                                           *)
HostKnows(flight) ==
  /\ upgrade.state = "IDLE" => flight = {}
  /\ upgrade.state # "IDLE" => Requested \in asked
  /\ upgrade.state \in {"TRANSFER", "RECOVER", "END", "VERIFY", "ACTIVATE"} =>
       Loaded /\ Holds(Requested) /\ device.sid = upgrade.session_id
  /\ upgrade.state \in {"TRANSFER", "RECOVER"} =>
       /\ upgrade.offset < Len(upgrade.image)
       /\ upgrade.last_chunk_end = ChunkEnd(upgrade)
       /\ device.offset \in {upgrade.offset, upgrade.last_chunk_end}
       /\ \A f \in flight : f.type = "FW_DATA" =>
            \/ f.payload.offset = upgrade.offset
            \/ f.payload.offset + Len(f.payload.data) <= upgrade.offset
  /\ upgrade.state = "REBOOT" =>
       \A f \in flight : f.type = "FW_ACTIVATE" => Holds(Requested)
  /\ upgrade.state \in {"REBOOT", "COMPLETE"} => device.active = Requested
  /\ upgrade.state = "COMPLETE" => \A f \in flight : f.type = "REBOOT"

HostKnowsDevice == HostKnows(InFlight)

DeviceHoldsAsked == Loaded => \E next \in asked : Holds(next)

(* A request is pending only for the upgrade in progress. *)
PendingIsAsked == session.pending.active =>
  UpgradeActive(upgrade) /\ session.pending.type = RequestType(upgrade)

TransferLine == /\ PendingIsAsked /\ LineInOrder /\ LineFits /\ CopiesAreLast
                /\ AnswersAreCurrent /\ HostKnowsDevice /\ DeviceHoldsAsked

(* No frame stays underway until its sequence number comes round again.    *)
SequenceIsFresh ==
  /\ \A f \in InFlight : f.sequence # session.next_sequence
  /\ \A k \in 1 .. Len(responses) : responses[k].sequence # session.next_sequence

(***************************************************************************)
(* Hypotheses and types                                                    *)
(***************************************************************************)
(* Images of one length that may be requested differ in their checksum.    *)
CrcTellsApart ==
  \A a, b \in Upgrades :
    Len(a.image) = Len(b.image) /\ Crc(a.image) = Crc(b.image) => a.image = b.image

RequestTypes == {"ENTER_BOOTLOADER", "FW_BEGIN", "FW_DATA", "FW_STATUS",
                 "FW_END", "FW_VERIFY", "FW_ACTIVATE", "REBOOT"}

Sessions ==
  [state : DeviceStates, next_sequence : Sequences32,
   pending : [active : BOOLEAN, type : RequestTypes \union {"NONE"},
              sequence : 0 .. Modulus - 1, retries_done : Nat, max_retries : Nat]]

Versions == {NoVersion} \union {next.version : next \in Upgrades}
Sums == {0} \union {Crc(next.image) : next \in Upgrades}
Firmwares == {FactoryFirmware} \union Upgrades

UpgradeRecords ==
  [state : UpgradeStates \ {"VALIDATING"}, image : Seq(Nat), version : Versions,
   session_id : Nat, offset : Nat, last_chunk_end : Nat, recovery_attempts : Nat]

Payloads == {Announced(next) : next \in Upgrades}
            \union [session_id : Nat, offset : Nat, data : Seq(Nat)]
            \union [session_id : Nat]

Frames == [type : RequestTypes, sequence : 0 .. Modulus - 1, payload : Payloads]

Values == Nat \union Sums \union {FlashCrc(bytes) : bytes \in Seq(Nat)}

Replies == [type : RequestTypes \union {"NACK"}, response : BOOLEAN,
            sequence : 0 .. Modulus - 1, payload : Seq(Values)]

Simulators ==
  [bootloader_active : BOOLEAN, upgrading : BOOLEAN, verified : BOOLEAN,
   telemetry : BOOLEAN, interval : Nat, samples : Nat, size : Nat, crc : Sums,
   chunk : Nat, sid : Nat, offset : Nat, flash : Seq(Nat),
   pending_version : Versions, active : Firmwares]

Boards ==
  [state : {"IDLE", "RECEIVING", "TRANSFERRED", "VERIFIED"}, size : Nat, crc : Sums,
   chunk : Nat, sid : Nat, offset : Nat, flash : Seq(Nat),
   pending_version : Versions, active : Firmwares]

TransferTypeOK ==
  /\ session \in Sessions
  /\ upgrade \in UpgradeRecords
  /\ asked \subseteq Upgrades
  /\ output \in Frames \union {NoFrame}
  /\ requests \in Seq(Frames)
  /\ responses \in Seq(Replies)
  /\ device \in Simulators \union Boards

TransferInv == TransferTypeOK /\ TransferLine

(***************************************************************************)
(* What a device does with a request                                       *)
(***************************************************************************)
(* The effects a device of either kind may show: nothing about the image   *)
(* changes, it is erased, a chunk is written, or it is switched to.        *)
Kept == /\ device'.size = device.size /\ device'.crc = device.crc
        /\ device'.chunk = device.chunk /\ device'.sid = device.sid
        /\ device'.offset = device.offset /\ device'.flash = device.flash
        /\ device'.pending_version = device.pending_version

SameKind == /\ device' \in Simulators \union Boards
            /\ IsSimulator' <=> IsSimulator

Untouched == /\ Kept /\ device'.active = device.active
             /\ Loaded' <=> Loaded
             /\ Receiving' <=> Receiving

Erasing(p) ==
  /\ ~Resumes(p)
  /\ device'.size = p.size /\ device'.crc = p.crc /\ device'.chunk = p.chunk
  /\ device'.pending_version = p.version
  /\ device'.offset = 0 /\ device'.flash = <<>>
  /\ device'.active = device.active
  /\ Loaded' /\ Receiving'

Writing(p) ==
  /\ p.offset = device.offset
  /\ device'.offset = device.offset + Len(p.data)
  /\ device'.flash = device.flash \o p.data
  /\ device'.size = device.size /\ device'.crc = device.crc
  /\ device'.chunk = device.chunk /\ device'.sid = device.sid
  /\ device'.pending_version = device.pending_version
  /\ device'.active = device.active
  /\ Loaded' <=> Loaded
  /\ Receiving' <=> Receiving

Leaving(type) == /\ Kept /\ device'.active = device.active
                 /\ Loaded' => Loaded
                 /\ type = "FW_END" /\ Loaded => Loaded'

Switching == /\ Kept /\ device'.active = Flashed(device)
             /\ Loaded' <=> Loaded
             /\ Receiving' <=> Receiving

(* The device after request f and its answer r. *)
Effect(f, r) ==
  /\ SameKind
  /\ r \in Replies /\ r.sequence = f.sequence /\ r.type \in {"NACK", f.type}
  /\ \/ Untouched
     \/ f.type = "FW_BEGIN" /\ Erasing(f.payload)
     \/ f.type = "FW_DATA" /\ Writing(f.payload)
     \/ f.type \in {"FW_END", "REBOOT"} /\ Leaving(f.type)
     \/ f.type = "FW_ACTIVATE" /\ Switching
  /\ r.type = "FW_BEGIN" => /\ Resumes(f.payload)'
                            /\ r.payload = <<device'.sid, device'.offset>>
  /\ r.type = "FW_DATA" =>
       /\ r.payload = <<device'.offset>>
       /\ \/ Writing(f.payload)
          \/ Untouched /\ f.payload.offset + Len(f.payload.data) <= device.offset
  /\ r.type = "FW_STATUS" => r.payload = <<device'.sid, device'.offset>>
  /\ r.type = "FW_ACTIVATE" => Switching

LEMMA KindOfDevice ==
  ASSUME device \in Simulators \union Boards
  PROVE  /\ IsSimulator => device \in Simulators
         /\ ~IsSimulator => device \in Boards
<1>1. ASSUME device \in Simulators PROVE IsSimulator
  BY <1>1 DEF Simulators, IsSimulator
<1>2. ASSUME device \in Boards PROVE ~IsSimulator
  BY <1>2 DEF Boards, IsSimulator
<1> QED
  BY <1>1, <1>2

LEMMA KindOfNextDevice ==
  /\ device' \in Simulators => IsSimulator'
  /\ device' \in Boards => ~IsSimulator'
<1>1. ASSUME device' \in Simulators PROVE IsSimulator'
  BY <1>1 DEF Simulators, IsSimulator
<1>2. ASSUME device' \in Boards PROVE ~IsSimulator'
  BY <1>2 DEF Boards, IsSimulator
<1> QED
  BY <1>1, <1>2

LEMMA NextSidType ==
  ASSUME NEW sid \in Nat
  PROVE  NextSid(sid) \in Nat
<1>1. (sid + 1) % SidModulus \in Nat
  BY SimulatorAssumption
<1> QED
  BY <1>1 DEF NextSid

(* The values an answer carries. *)
LEMMA RepliesTyped ==
  ASSUME NEW f \in Frames
  PROVE  /\ Nack(f) \in Replies
         /\ \A p \in Seq(Values) : Respond(f, p) \in Replies
         /\ \A a \in Values : <<a>> \in Seq(Values)
         /\ \A a, b \in Values : <<a, b>> \in Seq(Values)
         /\ <<>> \in Seq(Values)
<1>1. <<>> \in Seq(Values)
  OBVIOUS
<1>2. \A a \in Values : <<a>> \in Seq(Values)
  OBVIOUS
<1>3. \A a, b \in Values : <<a, b>> \in Seq(Values)
  OBVIOUS
<1>4. Nack(f) \in Replies
  BY <1>1 DEF Nack, Replies, Frames
<1>5. \A p \in Seq(Values) : Respond(f, p) \in Replies
  BY DEF Respond, Replies, Frames
<1> QED
  BY <1>1, <1>2, <1>3, <1>4, <1>5

(* A chunk continues the part of the image before it. *)
LEMMA ChunkFacts ==
  ASSUME NEW next \in Upgrades, NEW offset \in Nat, offset < Len(next.image)
  PROVE  /\ Chunk(next, offset) \in Seq(Nat)
         /\ Len(Chunk(next, offset)) = MinOf(Len(next.image) - offset, ChunkSize)
         /\ Len(Chunk(next, offset)) \in 1 .. ChunkSize
         /\ offset + Len(Chunk(next, offset)) <= Len(next.image)
         /\ SubSeq(next.image, 1, offset) \o Chunk(next, offset)
              = SubSeq(next.image, 1, offset + Len(Chunk(next, offset)))
<1> DEFINE n == MinOf(Len(next.image) - offset, ChunkSize)
<1>1. next.image \in Seq(Nat) /\ Len(next.image) \in Nat
  BY TransferAssumption
<1>2. n \in 1 .. ChunkSize /\ offset + n <= Len(next.image)
  BY <1>1, UpgradeAssumption DEF MinOf
<1> HIDE DEF n
<1>3. \A i \in offset + 1 .. offset + n : next.image[i] \in Nat
  BY <1>1, <1>2, UpgradeAssumption
<1>4. /\ SubSeq(next.image, offset + 1, offset + n) \in Seq(Nat)
      /\ Len(SubSeq(next.image, offset + 1, offset + n)) = n
  <2>1. offset + 1 \in Int /\ offset + n \in Int /\ offset + 1 <= offset + n
        /\ (offset + n) - (offset + 1) + 1 = n
    BY <1>2, UpgradeAssumption
  <2> QED
    BY <1>3, <2>1, SubSeqProperties
<1>5. Chunk(next, offset) = SubSeq(next.image, offset + 1, offset + n)
  BY DEF Chunk, n
<1>6. SubSeq(next.image, 1, offset) \o SubSeq(next.image, offset + 1, offset + n)
        = SubSeq(next.image, 1, offset + n)
  <2>1. 1 \in 1 .. Len(next.image) + 1 /\ offset \in 1 - 1 .. Len(next.image)
        /\ offset + n \in offset .. Len(next.image)
    BY <1>1, <1>2, UpgradeAssumption
  <2> QED
    BY <1>1, <2>1, ConcatAdjacentSubSeq
<1> QED
  BY <1>2, <1>4, <1>5, <1>6 DEF n

(* The payloads of the requests that carry data. *)
LEMMA FittingPayloads ==
  ASSUME NEW f \in Frames, Fits(f), TransferTypeOK
  PROVE  /\ f.type = "FW_BEGIN" =>
              /\ f.payload.size \in Nat /\ f.payload.crc \in Sums
              /\ f.payload.chunk = ChunkSize /\ f.payload.version \in Versions
              /\ WellFormed(f.payload)
         /\ f.type = "FW_DATA" =>
              f.payload.offset \in Nat /\ f.payload.data \in Seq(Nat)
         /\ f.type \in {"FW_BEGIN", "FW_DATA"} =>
              \E next \in asked : next \in Upgrades
<1>1. ASSUME f.type = "FW_BEGIN"
      PROVE  /\ f.payload.size \in Nat /\ f.payload.crc \in Sums
             /\ f.payload.chunk = ChunkSize /\ f.payload.version \in Versions
             /\ WellFormed(f.payload)
             /\ \E next \in asked : next \in Upgrades
  <2> PICK next \in asked : f.payload = Announced(next)
    BY <1>1 DEF Fits
  <2>1. next \in Upgrades
    BY DEF TransferTypeOK
  <2>2. Len(next.image) \in Nat \ {0}
    BY <2>1, TransferAssumption DEF NoImage
  <2>3. WellFormed(f.payload)
    BY <2>2, UpgradeAssumption DEF Announced, WellFormed
  <2> QED
    BY <2>1, <2>2, <2>3 DEF Announced, Sums, Versions
<1>2. ASSUME f.type = "FW_DATA"
      PROVE  /\ f.payload.offset \in Nat /\ f.payload.data \in Seq(Nat)
             /\ \E next \in asked : next \in Upgrades
  <2> PICK next \in asked : /\ Holds(next) /\ f.payload.offset < Len(next.image)
                            /\ f.payload.data = Chunk(next, f.payload.offset)
    BY <1>2 DEF Fits
  <2> QED
    BY <1>2, ChunkFacts DEF Fits, TransferTypeOK
<1> QED
  BY <1>1, <1>2

(* A device that holds all of an image activates what somebody asked for. *)
LEMMA HeldFirmware ==
  ASSUME TransferTypeOK, DeviceHoldsAsked, Loaded, Full
  PROVE  /\ Flashed(device) \in asked /\ Flashed(device) \in Upgrades
         /\ \A next \in asked : Holds(next) => Flashed(device) = next
<1>1. ASSUME NEW next \in asked, Holds(next) PROVE Flashed(device) = next
  <2>1. next \in Upgrades
    BY DEF TransferTypeOK
  <2>2. next.image \in Seq(Nat) /\ next = [image |-> next.image, version |-> next.version]
    BY <2>1, TransferAssumption
  <2>3. device.flash = SubSeq(next.image, 1, Len(next.image))
    BY <1>1 DEF Holds, Full
  <2>4. device.flash = next.image
    BY <2>2, <2>3, SubSeqFull
  <2> QED
    BY <1>1, <2>2, <2>4 DEF Flashed, Holds
<1> QED
  BY <1>1 DEF DeviceHoldsAsked, TransferTypeOK

(* The simulator: on_frame. *)
LEMMA SimulatorEffect ==
  ASSUME TransferTypeOK, DeviceHoldsAsked, device \in Simulators,
         NEW f \in Frames, Fits(f),
         NEW o \in SimulatorHandle(device, f), device' = o.device
  PROVE  Effect(f, o.frame)
<1> DEFINE r == o.frame
           p == f.payload
<1>0. IsSimulator
  BY DEF Simulators, IsSimulator
<1>t. f.type \in RequestTypes
  BY DEF Frames
<1>n. Nack(f) \in Replies /\ Nack(f).type = "NACK" /\ Nack(f).sequence = f.sequence
  BY RepliesTyped DEF Nack
<1>r. ASSUME NEW q \in Seq(Values)
      PROVE  /\ Respond(f, q) \in Replies /\ Respond(f, q).type = f.type
             /\ Respond(f, q).sequence = f.sequence /\ Respond(f, q).payload = q
  BY <1>r, RepliesTyped DEF Respond
<1>v. ASSUME NEW a \in Nat, NEW b \in Nat
      PROVE  <<>> \in Seq(Values) /\ <<a>> \in Seq(Values) /\ <<a, b>> \in Seq(Values)
  <2>1. a \in Values /\ b \in Values
    BY DEF Values
  <2> QED
    BY <2>1, RepliesTyped
<1>u. ASSUME device' = device
      PROVE  SameKind /\ Untouched
  BY <1>u DEF SameKind, Untouched, Kept, IsSimulator, Loaded, Receiving
<1>x. ASSUME device' = device, r = Nack(f)
      PROVE  Effect(f, r)
  BY <1>u, <1>x, <1>n, <1>t DEF Effect, RequestTypes
<1>k. ASSUME device' \in Simulators
      PROVE  /\ SameKind /\ IsSimulator'
             /\ (Loaded' <=> device'.upgrading) /\ (Receiving' <=> device'.upgrading)
  BY <1>k, <1>0, KindOfNextDevice DEF SameKind, Loaded, Receiving
<1>l. (Loaded <=> device.upgrading) /\ (Receiving <=> device.upgrading)
  BY <1>0 DEF Loaded, Receiving
<1> HIDE DEF r, p
<1>1. CASE f.type = "ENTER_BOOTLOADER"
  <2>1. SimulatorHandle(device, f) = EnterBootloader(device, f)
    BY <1>1 DEF SimulatorHandle
  <2>2. /\ o.device = [device EXCEPT !.telemetry = FALSE, !.bootloader_active = TRUE]
        /\ r = Respond(f, <<>>)
    BY <2>1 DEF EnterBootloader, Accepted, Outcome, r
  <2>3. /\ device' \in Simulators /\ Kept /\ device'.active = device.active
        /\ device'.upgrading = device.upgrading
    BY <2>2 DEF Simulators, Kept
  <2>4. SameKind /\ Untouched
    BY <2>3, <1>k, <1>l DEF Untouched
  <2> QED
    BY <1>1, <2>2, <2>4, <1>r, <1>v DEF Effect, r
<1>2. CASE f.type = "FW_BEGIN"
  <2>1. SimulatorHandle(device, f) = FwBegin(device, f)
    BY <1>2 DEF SimulatorHandle
  <2>2. CASE o = Outcome(device, Nack(f))
    BY <2>2, <1>x DEF Outcome, r
  <2>3. CASE SameImage(device, p) /\ o = Outcome(device, Respond(f, <<device.sid, device.offset>>))
    <3>1. device' = device /\ r = Respond(f, <<device.sid, device.offset>>)
      BY <2>3 DEF Outcome, r
    <3>2. Resumes(p)'
      BY <2>3, <3>1, <1>0 DEF Resumes, IsSimulator, p
    <3>3. <<device.sid, device.offset>> \in Seq(Values)
      BY <1>v DEF Simulators
    <3> QED
      BY <1>2, <3>1, <3>2, <3>3, <1>r, <1>u DEF Effect, p, r
  <2>4. CASE /\ ~SameImage(device, p)
             /\ o = Outcome(Erased(device, p),
                            Respond(f, <<Erased(device, p).sid, Erased(device, p).offset>>))
    <3>1. /\ device' = Erased(device, p)
          /\ r = Respond(f, <<device'.sid, device'.offset>>)
      BY <2>4 DEF Outcome, r
    <3>2. p.size \in Nat /\ p.crc \in Sums /\ p.chunk \in Nat /\ p.version \in Versions
      BY <1>2, FittingPayloads, UpgradeAssumption DEF p
    <3>3. NextSid(device.sid) \in Nat
      BY NextSidType DEF Simulators
    <3>9. <<>> \in Seq(Nat) /\ 0 \in Nat
      OBVIOUS
    <3>4. device' \in Simulators
      BY <3>1, <3>2, <3>3, <3>9, ZenonT(60) DEF Erased, Simulators
    <3>5. /\ device'.size = p.size /\ device'.crc = p.crc /\ device'.chunk = p.chunk
          /\ device'.pending_version = p.version
          /\ device'.offset = 0 /\ device'.flash = <<>>
          /\ device'.active = device.active
          /\ device'.upgrading = TRUE
      BY <3>1 DEF Erased, Simulators
    <3>6. Erasing(p) /\ SameKind
      BY <3>4, <3>5, <2>4, <1>k, <1>0 DEF Erasing, Resumes
    <3>7. Resumes(p)'
      BY <3>4, <3>5, <1>k DEF Resumes, SameImage, p
    <3>8. <<device'.sid, device'.offset>> \in Seq(Values)
      BY <3>4, <1>v DEF Simulators
    <3> QED
      BY <1>2, <3>1, <3>6, <3>7, <3>8, <1>r DEF Effect, p, r
  <2> QED
    BY <2>1, <2>2, <2>3, <2>4 DEF FwBegin, Accepted, Refused, p
<1>3. CASE f.type = "FW_DATA"
  <2>1. SimulatorHandle(device, f) = FwData(device, f)
    BY <1>3 DEF SimulatorHandle
  <2>0. p.offset \in Nat /\ p.data \in Seq(Nat)
    BY <1>3, FittingPayloads DEF p
  <2>2. CASE o = Outcome(device, Nack(f))
    BY <2>2, <1>x DEF Outcome, r
  <2>3. CASE IsDuplicate(device, p) /\ o = Outcome(device, Respond(f, <<device.offset>>))
    <3>1. device' = device /\ r = Respond(f, <<device.offset>>)
      BY <2>3 DEF Outcome, r
    <3>2. p.offset + Len(p.data) <= device.offset
      BY <2>3 DEF IsDuplicate
    <3>3. <<device.offset>> \in Seq(Values)
      BY <1>v DEF Simulators
    <3> QED
      BY <1>3, <3>1, <3>2, <3>3, <1>r, <1>u DEF Effect, p, r
  <2>4. CASE p.offset = device.offset
             /\ o = Outcome(Written(device, p), Respond(f, <<Written(device, p).offset>>))
    <3>1. device' = Written(device, p) /\ r = Respond(f, <<device'.offset>>)
      BY <2>4 DEF Outcome, r
    <3>2. device.flash \o p.data \in Seq(Nat) /\ device.offset + Len(p.data) \in Nat
      BY <2>0 DEF Simulators
    <3>3. device' \in Simulators
      BY <3>1, <3>2 DEF Written, Simulators
    <3>4. /\ device'.offset = device.offset + Len(p.data)
          /\ device'.flash = device.flash \o p.data
          /\ device'.size = device.size /\ device'.crc = device.crc
          /\ device'.chunk = device.chunk /\ device'.sid = device.sid
          /\ device'.pending_version = device.pending_version
          /\ device'.active = device.active
          /\ device'.upgrading = device.upgrading
      BY <3>1 DEF Written, Simulators
    <3>5. Writing(p) /\ SameKind
      BY <2>4, <3>3, <3>4, <1>k, <1>l DEF Writing
    <3>6. <<device'.offset>> \in Seq(Values)
      BY <3>3, <1>v DEF Simulators
    <3> QED
      BY <1>3, <3>1, <3>5, <3>6, <1>r DEF Effect, p, r
  <2> QED
    BY <2>1, <2>2, <2>3, <2>4 DEF FwData, Accepted, Refused, p
<1>4. CASE f.type = "FW_STATUS"
  <2>1. SimulatorHandle(device, f) = FwStatus(device, f)
    BY <1>4 DEF SimulatorHandle
  <2>2. CASE o = Outcome(device, Nack(f))
    BY <2>2, <1>x DEF Outcome, r
  <2>3. CASE o = Outcome(device, Respond(f, <<device.sid, device.offset>>))
    <3>1. device' = device /\ r = Respond(f, <<device.sid, device.offset>>)
      BY <2>3 DEF Outcome, r
    <3>3. <<device.sid, device.offset>> \in Seq(Values)
      BY <1>v DEF Simulators
    <3> QED
      BY <1>4, <3>1, <3>3, <1>r, <1>u DEF Effect, r
  <2> QED
    BY <2>1, <2>2, <2>3 DEF FwStatus, Accepted, Refused
<1>5. CASE f.type = "FW_END"
  <2>1. SimulatorHandle(device, f) = FwEnd(device, f)
    BY <1>5 DEF SimulatorHandle
  <2>2. CASE o = Outcome(device, Nack(f))
    BY <2>2, <1>x DEF Outcome, r
  <2>3. CASE o = Outcome(device, Respond(f, <<>>))
    <3>1. device' = device /\ r = Respond(f, <<>>)
      BY <2>3 DEF Outcome, r
    <3> QED
      BY <1>5, <3>1, <1>r, <1>v, <1>u DEF Effect, r
  <2> QED
    BY <2>1, <2>2, <2>3 DEF FwEnd, Accepted, Refused
<1>6. CASE f.type = "FW_VERIFY"
  <2>1. SimulatorHandle(device, f) = FwVerify(device, f)
    BY <1>6 DEF SimulatorHandle
  <2>2. CASE o = Outcome(device, Nack(f))
    BY <2>2, <1>x DEF Outcome, r
  <2>3. CASE o = Outcome([device EXCEPT !.verified = TRUE], Respond(f, <<FlashCrc(device.flash)>>))
    <3>1. /\ device' = [device EXCEPT !.verified = TRUE]
          /\ r = Respond(f, <<FlashCrc(device.flash)>>)
      BY <2>3 DEF Outcome, r
    <3>2. /\ device' \in Simulators /\ Kept /\ device'.active = device.active
          /\ device'.upgrading = device.upgrading
      BY <3>1 DEF Simulators, Kept
    <3>3. SameKind /\ Untouched
      BY <3>2, <1>k, <1>l DEF Untouched
    <3>4. FlashCrc(device.flash) \in Values
      BY DEF Values, Simulators
    <3>5. <<FlashCrc(device.flash)>> \in Seq(Values)
      BY <3>4, RepliesTyped
    <3> QED
      BY <1>6, <3>1, <3>3, <3>5, <1>r DEF Effect, r
  <2> QED
    BY <2>1, <2>2, <2>3 DEF FwVerify, Accepted, Refused
<1>7. CASE f.type = "FW_ACTIVATE"
  <2>1. SimulatorHandle(device, f) = FwActivate(device, f)
    BY <1>7 DEF SimulatorHandle
  <2>2. CASE o = Outcome(device, Nack(f))
    BY <2>2, <1>x DEF Outcome, r
  <2>3. CASE o = Outcome([device EXCEPT !.active = Flashed(device)], Respond(f, <<>>))
    <3>1. device' = [device EXCEPT !.active = Flashed(device)] /\ r = Respond(f, <<>>)
      BY <2>3 DEF Outcome, r
    <3>2. /\ Kept /\ device'.active = Flashed(device)
          /\ device'.upgrading = device.upgrading
      BY <3>1 DEF Simulators, Kept
    <3>3. Flashed(device) \in Firmwares
      BY <1>7, HeldFirmware DEF Firmwares, Fits, InSession, Finishing
    <3>4. device' \in Simulators
      BY <3>1, <3>3 DEF Simulators
    <3>5. SameKind /\ Switching
      BY <3>2, <3>4, <1>k, <1>l DEF Switching
    <3> QED
      BY <1>7, <3>1, <3>5, <1>r, <1>v, ZenonT(60) DEF Effect, r
  <2> QED
    BY <2>1, <2>2, <2>3 DEF FwActivate, Accepted, Refused
<1>8. CASE f.type = "REBOOT"
  <2>1. SimulatorHandle(device, f) = Reboot(device, f)
    BY <1>8 DEF SimulatorHandle
  <2>2. /\ device' = [device EXCEPT !.bootloader_active = FALSE, !.upgrading = FALSE,
                                    !.verified = FALSE]
        /\ r = Respond(f, <<>>)
    BY <2>1 DEF Reboot, Accepted, Outcome, r
  <2>3. /\ device' \in Simulators /\ Kept /\ device'.active = device.active
        /\ device'.upgrading = FALSE
    BY <2>2 DEF Simulators, Kept
  <2>4. SameKind /\ Leaving(f.type)
    BY <1>8, <2>3, <1>k DEF Leaving
  <2> QED
    BY <1>8, <2>2, <2>4, <1>r, <1>v DEF Effect, r
<1> QED
  BY <1>1, <1>2, <1>3, <1>4, <1>5, <1>6, <1>7, <1>8, <1>t DEF RequestTypes, r

(* The board: stm32_update_handle. *)
LEMMA BoardEffect ==
  ASSUME TransferTypeOK, DeviceHoldsAsked, device \in Boards,
         NEW f \in Frames, Fits(f),
         NEW o \in Stm32Handle(device, f), device' = o.device
  PROVE  Effect(f, o.frame)
<1> DEFINE r == o.frame
           p == f.payload
<1>0. ~IsSimulator
  BY DEF Boards, IsSimulator
<1>t. f.type \in RequestTypes
  BY DEF Frames
<1>n. Nack(f) \in Replies /\ Nack(f).type = "NACK" /\ Nack(f).sequence = f.sequence
  BY RepliesTyped DEF Nack
<1>r. ASSUME NEW q \in Seq(Values)
      PROVE  /\ Respond(f, q) \in Replies /\ Respond(f, q).type = f.type
             /\ Respond(f, q).sequence = f.sequence /\ Respond(f, q).payload = q
  BY <1>r, RepliesTyped DEF Respond
<1>v. ASSUME NEW a \in Nat, NEW b \in Nat
      PROVE  <<>> \in Seq(Values) /\ <<a>> \in Seq(Values) /\ <<a, b>> \in Seq(Values)
  <2>1. a \in Values /\ b \in Values
    BY DEF Values
  <2> QED
    BY <2>1, RepliesTyped
<1>u. ASSUME device' = device
      PROVE  SameKind /\ Untouched
  BY <1>u DEF SameKind, Untouched, Kept, IsSimulator, Loaded, Receiving
<1>x. ASSUME device' = device, r = Nack(f)
      PROVE  Effect(f, r)
  BY <1>u, <1>x, <1>n, <1>t DEF Effect, RequestTypes
<1>k. ASSUME device' \in Boards
      PROVE  /\ SameKind /\ ~IsSimulator'
             /\ (Loaded' <=> device'.state # "IDLE")
             /\ (Receiving' <=> device'.state = "RECEIVING")
  BY <1>k, <1>0, KindOfNextDevice DEF SameKind, Loaded, Receiving
<1>l. (Loaded <=> device.state # "IDLE") /\ (Receiving <=> device.state = "RECEIVING")
  BY <1>0 DEF Loaded, Receiving
<1> HIDE DEF r, p
<1>1. CASE f.type \in {"ENTER_BOOTLOADER", "REBOOT"}
  <2>1. Stm32Handle(device, f) = Accepted(device, f, <<>>)
    BY <1>1 DEF Stm32Handle
  <2>2. device' = device /\ r = Respond(f, <<>>)
    BY <2>1 DEF Accepted, Outcome, r
  <2> QED
    BY <1>1, <2>2, <1>u, <1>r, <1>v DEF Effect, r
<1>2. CASE f.type = "FW_BEGIN"
  <2>1. Stm32Handle(device, f) = HandleBegin(device, f)
    BY <1>2 DEF Stm32Handle
  <2>2. CASE o = Outcome(device, Nack(f))
    BY <2>2, <1>x DEF Outcome, r
  <2>3. CASE Stm32SameImage(device, p)
             /\ o = Outcome(device, Respond(f, <<device.sid, device.offset>>))
    <3>1. device' = device /\ r = Respond(f, <<device.sid, device.offset>>)
      BY <2>3 DEF Outcome, r
    <3>2. Resumes(p)'
      BY <2>3, <3>1, <1>0 DEF Resumes, IsSimulator, p
    <3>3. <<device.sid, device.offset>> \in Seq(Values)
      BY <1>v DEF Boards
    <3> QED
      BY <1>2, <3>1, <3>2, <3>3, <1>r, <1>u DEF Effect, p, r
  <2>4. CASE /\ ~Stm32SameImage(device, p)
             /\ o = Outcome(Stm32Erased(device, p),
                            Respond(f, <<Stm32Erased(device, p).sid, 0>>))
    <3>1. /\ device' = Stm32Erased(device, p)
          /\ r = Respond(f, <<device'.sid, 0>>)
      BY <2>4 DEF Outcome, r
    <3>2. p.size \in Nat /\ p.crc \in Sums /\ p.chunk \in Nat /\ p.version \in Versions
      BY <1>2, FittingPayloads, UpgradeAssumption DEF p
    <3>3. NextSid(device.sid) \in Nat
      BY NextSidType DEF Boards
    <3>9. <<>> \in Seq(Nat) /\ 0 \in Nat
      OBVIOUS
    <3>4. device' \in Boards
      BY <3>1, <3>2, <3>3, <3>9, ZenonT(60) DEF Stm32Erased, Boards
    <3>5. /\ device'.size = p.size /\ device'.crc = p.crc /\ device'.chunk = p.chunk
          /\ device'.pending_version = p.version
          /\ device'.offset = 0 /\ device'.flash = <<>>
          /\ device'.active = device.active
          /\ device'.state = "RECEIVING"
      BY <3>1 DEF Stm32Erased, Boards
    <3>6. Erasing(p) /\ SameKind
      BY <3>4, <3>5, <2>4, <1>k, <1>0 DEF Erasing, Resumes
    <3>7. Resumes(p)'
      BY <3>4, <3>5, <1>k DEF Resumes, Stm32SameImage, p
    <3>8. <<device'.sid, device'.offset>> \in Seq(Values)
      BY <3>4, <1>v DEF Boards
    <3> QED
      BY <1>2, <3>1, <3>5, <3>6, <3>7, <3>8, <1>r DEF Effect, p, r
  <2> QED
    BY <2>1, <2>2, <2>3, <2>4 DEF HandleBegin, OrFlashNack, Accepted, Refused, p
<1>3. CASE f.type = "FW_DATA"
  <2>1. Stm32Handle(device, f) = HandleData(device, f)
    BY <1>3 DEF Stm32Handle
  <2>0. p.offset \in Nat /\ p.data \in Seq(Nat)
    BY <1>3, FittingPayloads DEF p
  <2>2. CASE o = Outcome(device, Nack(f))
    BY <2>2, <1>x DEF Outcome, r
  <2>3. CASE IsDuplicate(device, p) /\ o = Outcome(device, Respond(f, <<device.offset>>))
    <3>1. device' = device /\ r = Respond(f, <<device.offset>>)
      BY <2>3 DEF Outcome, r
    <3>2. p.offset + Len(p.data) <= device.offset
      BY <2>3 DEF IsDuplicate
    <3>3. <<device.offset>> \in Seq(Values)
      BY <1>v DEF Boards
    <3> QED
      BY <1>3, <3>1, <3>2, <3>3, <1>r, <1>u DEF Effect, p, r
  <2>4. CASE p.offset = device.offset
             /\ o = Outcome(Written(device, p), Respond(f, <<Written(device, p).offset>>))
    <3>1. device' = Written(device, p) /\ r = Respond(f, <<device'.offset>>)
      BY <2>4 DEF Outcome, r
    <3>2. device.flash \o p.data \in Seq(Nat) /\ device.offset + Len(p.data) \in Nat
      BY <2>0 DEF Boards
    <3>3. device' \in Boards
      BY <3>1, <3>2 DEF Written, Boards
    <3>4. /\ device'.offset = device.offset + Len(p.data)
          /\ device'.flash = device.flash \o p.data
          /\ device'.size = device.size /\ device'.crc = device.crc
          /\ device'.chunk = device.chunk /\ device'.sid = device.sid
          /\ device'.pending_version = device.pending_version
          /\ device'.active = device.active
          /\ device'.state = device.state
      BY <3>1 DEF Written, Boards
    <3>5. Writing(p) /\ SameKind
      BY <2>4, <3>3, <3>4, <1>k, <1>l DEF Writing
    <3>6. <<device'.offset>> \in Seq(Values)
      BY <3>3, <1>v DEF Boards
    <3> QED
      BY <1>3, <3>1, <3>5, <3>6, <1>r DEF Effect, p, r
  <2> QED
    BY <2>1, <2>2, <2>3, <2>4 DEF HandleData, OrFlashNack, Accepted, Refused, p
<1>4. CASE f.type = "FW_STATUS"
  <2>1. Stm32Handle(device, f) = HandleStatus(device, f)
    BY <1>4 DEF Stm32Handle
  <2>2. CASE o = Outcome(device, Nack(f))
    BY <2>2, <1>x DEF Outcome, r
  <2>3. CASE o = Outcome(device, Respond(f, <<device.sid, device.offset>>))
    <3>1. device' = device /\ r = Respond(f, <<device.sid, device.offset>>)
      BY <2>3 DEF Outcome, r
    <3>3. <<device.sid, device.offset>> \in Seq(Values)
      BY <1>v DEF Boards
    <3> QED
      BY <1>4, <3>1, <3>3, <1>r, <1>u DEF Effect, r
  <2> QED
    BY <2>1, <2>2, <2>3 DEF HandleStatus, Accepted, Refused
<1>5. CASE f.type = "FW_END"
  <2>1. Stm32Handle(device, f) = HandleEnd(device, f)
    BY <1>5 DEF Stm32Handle
  <2>2. CASE o = Outcome(device, Nack(f))
    BY <2>2, <1>x DEF Outcome, r
  <2>3. CASE /\ device.state = "RECEIVING"
             /\ o = Outcome([device EXCEPT !.state = "TRANSFERRED"], Respond(f, <<>>))
    <3>1. device' = [device EXCEPT !.state = "TRANSFERRED"] /\ r = Respond(f, <<>>)
      BY <2>3 DEF Outcome, r
    <3>2. /\ device' \in Boards /\ Kept /\ device'.active = device.active
          /\ device'.state = "TRANSFERRED"
      BY <3>1 DEF Boards, Kept
    <3>3. SameKind /\ Leaving(f.type)
      BY <2>3, <3>2, <1>k, <1>l DEF Leaving
    <3> QED
      BY <1>5, <3>1, <3>3, <1>r, <1>v DEF Effect, r
  <2> QED
    BY <2>1, <2>2, <2>3 DEF HandleEnd, Accepted, Refused
<1>6. CASE f.type = "FW_VERIFY"
  <2>1. Stm32Handle(device, f) = HandleVerify(device, f)
    BY <1>6 DEF Stm32Handle
  <2>2. CASE o = Outcome(device, Nack(f))
    BY <2>2, <1>x DEF Outcome, r
  <2>3. CASE /\ device.state = "TRANSFERRED"
             /\ o = Outcome([device EXCEPT !.state = "VERIFIED"], Respond(f, <<device.crc>>))
    <3>1. device' = [device EXCEPT !.state = "VERIFIED"] /\ r = Respond(f, <<device.crc>>)
      BY <2>3 DEF Outcome, r
    <3>2. /\ device' \in Boards /\ Kept /\ device'.active = device.active
          /\ device'.state = "VERIFIED"
      BY <3>1 DEF Boards, Kept
    <3>3. SameKind /\ Untouched
      BY <2>3, <3>2, <1>k, <1>l DEF Untouched
    <3>4. device.crc \in Values
      BY DEF Values, Boards
    <3>5. <<device.crc>> \in Seq(Values)
      BY <3>4, RepliesTyped
    <3> QED
      BY <1>6, <3>1, <3>3, <3>5, <1>r DEF Effect, r
  <2> QED
    BY <2>1, <2>2, <2>3 DEF HandleVerify, Accepted, Refused
<1>7. CASE f.type = "FW_ACTIVATE"
  <2>1. Stm32Handle(device, f) = HandleActivate(device, f)
    BY <1>7 DEF Stm32Handle
  <2>2. CASE o = Outcome(device, Nack(f))
    BY <2>2, <1>x DEF Outcome, r
  <2>3. CASE o = Outcome([device EXCEPT !.active = Flashed(device)], Respond(f, <<>>))
    <3>1. device' = [device EXCEPT !.active = Flashed(device)] /\ r = Respond(f, <<>>)
      BY <2>3 DEF Outcome, r
    <3>2. /\ Kept /\ device'.active = Flashed(device)
          /\ device'.state = device.state
      BY <3>1 DEF Boards, Kept
    <3>3. Flashed(device) \in Firmwares
      BY <1>7, HeldFirmware DEF Firmwares, Fits, InSession, Finishing
    <3>4. device' \in Boards
      BY <3>1, <3>3 DEF Boards
    <3>5. SameKind /\ Switching
      BY <3>2, <3>4, <1>k, <1>l DEF Switching
    <3> QED
      BY <1>7, <3>1, <3>5, <1>r, <1>v, ZenonT(60) DEF Effect, r
  <2> QED
    BY <2>1, <2>2, <2>3 DEF HandleActivate, OrFlashNack, Accepted, Refused
<1> QED
  BY <1>1, <1>2, <1>3, <1>4, <1>5, <1>6, <1>7, <1>t DEF RequestTypes, r

(* One step of the device: the request it takes, its effect, and whether   *)
(* the answer reaches the line.                                            *)
LEMMA DeviceEffect ==
  ASSUME TransferTypeOK, DeviceHoldsAsked, LineFits, DeviceHandles
  PROVE  \E f \in Frames, r \in Replies :
           /\ requests # <<>> /\ f = Head(requests) /\ f = requests[1]
           /\ Fits(f) /\ Effect(f, r)
           /\ responses' \in {responses, Append(responses, r)}
<1> DEFINE f == Head(requests)
<1>1. requests # <<>> /\ requests \in Seq(Frames)
  BY DEF DeviceHandles, TransferTypeOK
<1>2. f \in Frames /\ f = requests[1] /\ 1 \in 1 .. Len(requests)
  BY <1>1
<1>3. Fits(f)
  BY <1>2 DEF LineFits, InFlight
<1> HIDE DEF f
<1>4. PICK o \in IF IsSimulator THEN SimulatorHandle(device, f) ELSE Stm32Handle(device, f) :
        /\ device' = o.device
        /\ responses' \in {responses, Append(responses, o.frame)}
  BY DEF DeviceHandles, f
<1>5. Effect(f, o.frame)
  <2>1. CASE IsSimulator
    BY <2>1, <1>2, <1>3, <1>4, KindOfDevice, SimulatorEffect DEF TransferTypeOK
  <2>2. CASE ~IsSimulator
    BY <2>2, <1>2, <1>3, <1>4, KindOfDevice, BoardEffect DEF TransferTypeOK
  <2> QED
    BY <2>1, <2>2
<1>6. o.frame \in Replies
  BY <1>5 DEF Effect
<1> QED
  BY <1>1, <1>2, <1>3, <1>4, <1>5, <1>6 DEF f

(***************************************************************************)
(* The device keeps what the requests underway count on                    *)
(***************************************************************************)
(* Metadata tell the firmwares that were asked for apart. *)
LEMMA HeldIsOne ==
  ASSUME CrcTellsApart, TransferTypeOK,
         NEW a \in asked, NEW b \in asked, Holds(a), Holds(b)
  PROVE  a = b
<1>1. a \in Upgrades /\ b \in Upgrades
  BY DEF TransferTypeOK
<1>2. a.image = b.image /\ a.version = b.version
  BY <1>1 DEF CrcTellsApart, Holds
<1>3. /\ a = [image |-> a.image, version |-> a.version]
      /\ b = [image |-> b.image, version |-> b.version]
  BY <1>1, TransferAssumption
<1> QED
  BY <1>2, <1>3

DeviceNumbers == device.offset \in Nat /\ device.size \in Nat

LEMMA DeviceNumbersOK ==
  ASSUME TransferTypeOK
  PROVE  DeviceNumbers
  BY DEF TransferTypeOK, Simulators, Boards, DeviceNumbers

(* Short of a new session, the flash stays a beginning of its firmware. *)
LEMMA HoldsKept ==
  ASSUME CrcTellsApart, TransferTypeOK,
         NEW f \in Frames, NEW r, Fits(f), Effect(f, r),
         ~(f.type = "FW_BEGIN" /\ Erasing(f.payload)),
         NEW next \in asked, Holds(next)
  PROVE  /\ Holds(next)'
         /\ f.type = "FW_DATA" /\ Writing(f.payload) =>
              /\ f.payload.offset < Len(next.image)
              /\ f.payload.data = Chunk(next, f.payload.offset)
<1>0. next \in Upgrades /\ DeviceNumbers
  BY DeviceNumbersOK DEF TransferTypeOK
<1>1. CASE Kept
  <2>1. Holds(next)'
    BY <1>1 DEF Kept, Holds
  <2>2. ASSUME f.type = "FW_DATA", Writing(f.payload)
        PROVE  FALSE
    <3>1. PICK n \in asked : /\ Holds(n) /\ f.payload.offset < Len(n.image)
                             /\ f.payload.data = Chunk(n, f.payload.offset)
      BY <2>2 DEF Fits
    <3>2. f.payload.offset \in Nat /\ n \in Upgrades
      BY <2>2 DEF Fits, TransferTypeOK
    <3>3. Len(f.payload.data) \in 1 .. ChunkSize
      BY <3>1, <3>2, ChunkFacts
    <3> QED
      BY <1>0, <1>1, <2>2, <3>3, UpgradeAssumption DEF Kept, Writing, DeviceNumbers
  <2> QED
    BY <2>1, <2>2
<1>2. CASE f.type = "FW_DATA" /\ Writing(f.payload)
  <2>1. PICK n \in asked : /\ Holds(n) /\ f.payload.offset < Len(n.image)
                           /\ f.payload.data = Chunk(n, f.payload.offset)
    BY <1>2 DEF Fits
  <2>2. n = next
    BY <2>1, HeldIsOne
  <2>3. f.payload.offset \in Nat /\ f.payload.offset = device.offset
    BY <1>2 DEF Fits, Writing
  <2>4. /\ device.offset + Len(f.payload.data) <= Len(next.image)
        /\ SubSeq(next.image, 1, device.offset) \o f.payload.data
             = SubSeq(next.image, 1, device.offset + Len(f.payload.data))
    BY <1>0, <2>1, <2>2, <2>3, ChunkFacts
  <2>5. Holds(next)'
    BY <1>2, <2>4 DEF Holds, Writing
  <2> QED
    BY <2>1, <2>2, <2>5
<1> QED
  BY <1>1, <1>2 DEF Effect, Untouched, Leaving, Switching

LEMMA StillHoldsAsked ==
  ASSUME CrcTellsApart, TransferTypeOK, DeviceHoldsAsked,
         NEW f \in Frames, NEW r, Fits(f), Effect(f, r), UNCHANGED asked
  PROVE  DeviceHoldsAsked'
<1>1. CASE f.type = "FW_BEGIN" /\ Erasing(f.payload)
  <2>1. PICK next \in asked : f.payload = Announced(next)
    BY <1>1 DEF Fits
  <2>2. next.image \in Seq(Nat)
    BY <2>1, TransferAssumption DEF TransferTypeOK
  <2>3. SubSeq(next.image, 1, 0) = <<>> /\ Len(next.image) \in Nat
    BY <2>2, SubSeqEmpty
  <2>4. Holds(next)'
    BY <1>1, <2>1, <2>3 DEF Holds, Erasing, Announced
  <2> QED
    BY <2>4 DEF DeviceHoldsAsked
<1>2. CASE ~(f.type = "FW_BEGIN" /\ Erasing(f.payload))
  <2>1. Loaded' => Loaded
    BY <1>2 DEF Effect, Untouched, Writing, Leaving, Switching
  <2> QED
    BY <1>2, <2>1, HoldsKept DEF DeviceHoldsAsked
<1> QED
  BY <1>1, <1>2

(* A request behind the one taken still fits. *)
LEMMA FitsKept ==
  ASSUME CrcTellsApart, TransferTypeOK, UNCHANGED asked,
         NEW f \in Frames, NEW r, Fits(f), Effect(f, r),
         NEW g, Fits(g), Follows(f, g)
  PROVE  Fits(g)'
<1>0. DeviceNumbers
  BY DeviceNumbersOK
<1>1. CASE f.type = "FW_BEGIN" /\ Erasing(f.payload)
  <2>1. g.type \in {"FW_BEGIN", "ENTER_BOOTLOADER"}
    BY <1>1 DEF Follows, Erasing
  <2> QED
    BY <2>1 DEF Fits, InSession, Finishing
<1>2. CASE f.type = "FW_DATA" /\ Writing(f.payload)
  <2>1. PICK next \in asked : /\ Holds(next) /\ f.payload.offset < Len(next.image)
                              /\ f.payload.data = Chunk(next, f.payload.offset)
    BY <1>2 DEF Fits
  <2>2. f.payload.offset = device.offset /\ next \in Upgrades
    BY <1>2 DEF Writing, TransferTypeOK
  <2>3. Len(f.payload.data) \in Nat
    BY <1>2, FittingPayloads
  <2>4. Holds(next)'
    BY <1>2, <2>1, HoldsKept
  <2>5. ~Full
    BY <2>1, <2>2 DEF Full, Holds
  <2>6. g.type \notin Finishing
    BY <2>5 DEF Fits
  <2>7. ASSUME g.type = "FW_DATA"
        PROVE  /\ g.payload.offset \in Nat
               /\ \E n \in asked : /\ Holds(n)' /\ g.payload.offset < Len(n.image)
                                   /\ g.payload.data = Chunk(n, g.payload.offset)
               /\ \/ g.payload.offset = device'.offset
                  \/ g.payload.offset + Len(g.payload.data) <= device'.offset
    <3>1. PICK n \in asked : /\ Holds(n) /\ g.payload.offset < Len(n.image)
                             /\ g.payload.data = Chunk(n, g.payload.offset)
      BY <2>7 DEF Fits
    <3>2. n = next
      BY <2>1, <3>1, HeldIsOne
    <3>3. /\ g.payload.offset \in Nat
          /\ \/ g.payload.offset = device.offset
             \/ g.payload.offset + Len(g.payload.data) <= device.offset
      BY <2>7 DEF Fits
    <3>4. Len(g.payload.data) \in Nat
      BY <2>2, <3>1, <3>2, <3>3, ChunkFacts
    <3>5. device'.offset = device.offset + Len(f.payload.data)
      BY <1>2 DEF Writing
    <3>6. CASE g.payload.offset = device.offset
      BY <2>1, <2>2, <2>4, <3>1, <3>2, <3>3, <3>5, <3>6
    <3>7. CASE g.payload.offset + Len(g.payload.data) <= device.offset
      BY <1>0, <2>1, <2>3, <2>4, <3>1, <3>2, <3>3, <3>4, <3>5, <3>7 DEF DeviceNumbers
    <3> QED
      BY <3>3, <3>6, <3>7
  <2>8. (Loaded' <=> Loaded) /\ device'.sid = device.sid
    BY <1>2 DEF Writing
  <2> QED
    BY <2>6, <2>7, <2>8 DEF Fits
<1>3. CASE Kept /\ ~(f.type = "FW_BEGIN" /\ Erasing(f.payload))
  <2>1. ASSUME g.type \in InSession
        PROVE  Loaded'
    <3>1. Loaded
      BY <2>1 DEF Fits
    <3>2. f.type # "REBOOT"
      BY <2>1 DEF Follows, Behind, InSession, Finishing
    <3>3. CASE f.type = "FW_DATA" /\ Writing(f.payload)
      BY <3>1, <3>3 DEF Writing
    <3> QED
      BY <1>3, <3>1, <3>2, <3>3 DEF Effect, Untouched, Leaving, Switching
  <2>2. \A n : Holds(n) => Holds(n)'
    BY <1>3 DEF Kept, Holds
  <2>3. device'.sid = device.sid /\ device'.offset = device.offset /\ device'.size = device.size
    BY <1>3 DEF Kept
  <2> QED
    BY <2>1, <2>2, <2>3 DEF Fits, Full
<1> QED
  BY <1>1, <1>2, <1>3 DEF Effect, Untouched, Leaving, Switching

(* The order of two requests behind the one taken stays. *)
LEMMA FollowsKept ==
  ASSUME NEW f \in Frames, NEW r, Effect(f, r),
         NEW g, NEW h, Follows(f, g), Follows(f, h), Follows(g, h)
  PROVE  Follows(g, h)'
<1>1. CASE g.type = "FW_BEGIN" /\ h.type \notin {"FW_BEGIN", "ENTER_BOOTLOADER"}
  <2>1. Resumes(g.payload)
    BY <1>1 DEF Follows
  <2>2. f.type \in {"ENTER_BOOTLOADER", "FW_BEGIN"} /\ h.type \in Behind(f.type)
    BY <1>1 DEF Follows, Behind, Frames, RequestTypes
  <2>3. f.type = "FW_BEGIN" => g.payload = f.payload
    BY <1>1 DEF Follows
  <2>4. Untouched /\ SameKind
    BY <2>1, <2>2, <2>3 DEF Effect, Erasing
  <2>5. Resumes(g.payload)'
    BY <2>1, <2>4 DEF Resumes, SameImage, Stm32SameImage, Untouched, Kept, SameKind, Receiving
  <2> QED
    BY <1>1, <2>5 DEF Follows
<1>2. CASE ~(g.type = "FW_BEGIN" /\ h.type \notin {"FW_BEGIN", "ENTER_BOOTLOADER"})
  BY <1>2 DEF Follows
<1> QED
  BY <1>1, <1>2

(* The line after its head has been taken. *)
LEMMA LineTaken ==
  ASSUME requests \in Seq(Frames), requests # <<>>, requests' = Tail(requests),
         UNCHANGED output, LineInOrder
  PROVE  /\ requests' \in Seq(Frames)
         /\ Len(requests) \in Nat /\ Len(requests') = Len(requests) - 1
         /\ \A i \in 1 .. Len(requests') :
              i + 1 \in 1 .. Len(requests) /\ requests'[i] = requests[i + 1]
         /\ InFlight' \subseteq InFlight
         /\ \A g \in InFlight' : Follows(requests[1], g)
<1>1. /\ requests' \in Seq(Frames)
      /\ Len(requests) \in Nat /\ Len(requests') = Len(requests) - 1
      /\ \A i \in 1 .. Len(requests') :
           i + 1 \in 1 .. Len(requests) /\ requests'[i] = requests[i + 1]
      /\ 1 \in 1 .. Len(requests)
  BY HeadTailProperties
<1>2. ASSUME NEW g \in InFlight'
      PROVE  g \in InFlight /\ Follows(requests[1], g)
  <2>1. CASE \E i \in 1 .. Len(requests') : g = requests'[i]
    BY <1>1, <2>1 DEF InFlight, LineInOrder
  <2>2. CASE g = output' /\ output' # NoFrame
    BY <1>1, <2>2 DEF InFlight, LineInOrder
  <2> QED
    BY <2>1, <2>2 DEF InFlight
<1> QED
  BY <1>1, <1>2

LEMMA ResponseAdded ==
  ASSUME responses \in Seq(Replies), NEW r \in Replies,
         responses' \in {responses, Append(responses, r)}
  PROVE  /\ responses' \in Seq(Replies)
         /\ \A k \in 1 .. Len(responses') :
              \/ k \in 1 .. Len(responses) /\ responses'[k] = responses[k]
              \/ responses'[k] = r
<1>1. CASE responses' = responses
  BY <1>1
<1>2. CASE responses' = Append(responses, r)
  BY <1>2, AppendProperties
<1> QED
  BY <1>1, <1>2

LEMMA DeviceLine ==
  ASSUME CrcTellsApart, TransferInv, DeviceHandles
  PROVE  /\ TransferTypeOK' /\ PendingIsAsked' /\ LineInOrder' /\ LineFits'
         /\ CopiesAreLast' /\ DeviceHoldsAsked'
<1>1. PICK f \in Frames, r \in Replies :
        /\ requests # <<>> /\ f = requests[1]
        /\ Fits(f) /\ Effect(f, r)
        /\ responses' \in {responses, Append(responses, r)}
  BY DeviceEffect DEF TransferInv, TransferLine
<1>2. /\ requests' = Tail(requests)
      /\ UNCHANGED <<session, upgrade, upgrade_result, operations, asked, output, stopped>>
  BY DEF DeviceHandles, hostVars
<1>i. TransferTypeOK /\ PendingIsAsked /\ LineInOrder /\ LineFits /\ CopiesAreLast
      /\ DeviceHoldsAsked
  BY DEF TransferInv, TransferLine
<1>3. /\ requests' \in Seq(Frames)
      /\ Len(requests) \in Nat /\ Len(requests') = Len(requests) - 1
      /\ \A i \in 1 .. Len(requests') :
           i + 1 \in 1 .. Len(requests) /\ requests'[i] = requests[i + 1]
      /\ InFlight' \subseteq InFlight
      /\ \A g \in InFlight' : Follows(f, g)
  BY <1>1, <1>2, <1>i, LineTaken DEF TransferTypeOK
<1>4. /\ responses' \in Seq(Replies)
      /\ \A k \in 1 .. Len(responses') :
           \/ k \in 1 .. Len(responses) /\ responses'[k] = responses[k]
           \/ responses'[k] = r
  BY <1>1, <1>i, ResponseAdded DEF TransferTypeOK
<1>5. PICK a : a = Ask
  OBVIOUS
<1>6. Ask' = a
  BY <1>2, <1>5 DEF Ask
<1>f. f \in InFlight
  BY <1>1, <1>i DEF InFlight, TransferTypeOK
<1>7. UpgradeActive(upgrade) => Fits(a) /\ \A g \in InFlight : Follows(g, a)
  BY <1>5, <1>i DEF LineFits, LineInOrder, Fits, Follows
<1>t. TransferTypeOK'
  BY <1>1, <1>2, <1>3, <1>4, <1>i DEF TransferTypeOK, Effect, SameKind
<1>p. PendingIsAsked'
  BY <1>2, <1>i DEF PendingIsAsked
<1>g. LineFits'
  <2>1. \A g \in InFlight' : Fits(g)'
    BY <1>1, <1>2, <1>3, <1>i, FitsKept DEF LineFits
  <2>2. UpgradeActive(upgrade) => Fits(a)'
    BY <1>1, <1>2, <1>7, <1>f, <1>i, FitsKept
  <2>3. UpgradeActive(upgrade)' => Fits(Ask)'
    BY <1>2, <1>6, <2>2 DEF Fits
  <2> QED
    BY <2>1, <2>3 DEF LineFits
<1>o. LineInOrder'
  <2>1. \A g \in InFlight' : \A h \in InFlight' : Follows(g, h) => Follows(g, h)'
    BY <1>1, <1>3, FollowsKept
  <2>2. \A i, j \in 1 .. Len(requests') :
          i < j => Follows(requests'[i], requests'[j])
    BY <1>3, <1>i DEF LineInOrder
  <2>3. \A i \in 1 .. Len(requests') : requests'[i] \in InFlight'
    BY DEF InFlight
  <2>4. (\A i, j \in 1 .. Len(requests) : i < j => Follows(requests[i], requests[j]))'
    <3> SUFFICES ASSUME NEW i \in 1 .. Len(requests'), NEW j \in 1 .. Len(requests'), i < j
                 PROVE  Follows(requests[i], requests[j])'
      OBVIOUS
    <3>1. PICK g, h : g = requests'[i] /\ h = requests'[j]
      OBVIOUS
    <3>2. Follows(g, h)'
      BY <2>1, <2>2, <2>3, <3>1
    <3> QED
      BY <3>1, <3>2 DEF Follows
  <2>5. (output # NoFrame => \A i \in 1 .. Len(requests) : Follows(requests[i], output))'
    <3> SUFFICES ASSUME output' # NoFrame, NEW i \in 1 .. Len(requests')
                 PROVE  Follows(requests[i], output)'
      OBVIOUS
    <3>1. PICK g, h : g = requests'[i] /\ h = output'
      OBVIOUS
    <3>2. g \in InFlight' /\ h \in InFlight' /\ Follows(g, h)
      BY <1>2, <1>3, <1>i, <3>1, <2>3 DEF InFlight, LineInOrder
    <3>3. Follows(g, h)'
      BY <2>1, <3>2
    <3> QED
      BY <3>1, <3>3 DEF Follows
  <2>6. UpgradeActive(upgrade)' => \A g \in InFlight' : Follows(g, a)'
    BY <1>1, <1>2, <1>3, <1>7, <1>f, FollowsKept
  <2>7. (UpgradeActive(upgrade) => \A g \in InFlight : Follows(g, Ask))'
    BY <1>6, <2>6 DEF Follows
  <2> QED
    BY <2>4, <2>5, <2>7 DEF LineInOrder
<1>c. CopiesAreLast'
  <2>0. \A g : Pending(g)' <=> Pending(g)
    BY <1>2 DEF Pending
  <2>1. \A g \in InFlight' : Pending(g) => g.type = Ask'.type /\ g.payload = Ask'.payload
    BY <1>3, <1>5, <1>6, <1>i DEF CopiesAreLast
  <2>2. \A i, j \in 1 .. Len(requests') :
          i < j /\ Pending(requests'[i]) => Pending(requests'[j])
    BY <1>3, <1>i, SMTT(30) DEF CopiesAreLast
  <2>3. output' # NoFrame => \A i \in 1 .. Len(requests') :
                               Pending(requests'[i]) => Pending(output')
    BY <1>2, <1>3, <1>i DEF CopiesAreLast
  <2>4. Pending(f) => \A g \in InFlight' : Pending(g)
    <3> SUFFICES ASSUME Pending(f), NEW g \in InFlight' PROVE Pending(g)
      OBVIOUS
    <3>0. 1 \in 1 .. Len(requests)
      BY <1>1, <1>i DEF TransferTypeOK
    <3>1. CASE \E i \in 1 .. Len(requests') : g = requests'[i]
      BY <1>1, <1>3, <1>i, <3>0, <3>1 DEF CopiesAreLast
    <3>2. CASE g = output' /\ output' # NoFrame
      BY <1>1, <1>2, <1>i, <3>0, <3>2 DEF CopiesAreLast
    <3> QED
      BY <3>1, <3>2 DEF InFlight
  <2>5. \A k \in 1 .. Len(responses') :
          Pending(responses'[k]) => \A g \in InFlight' : Pending(g)
    <3> SUFFICES ASSUME NEW k \in 1 .. Len(responses'), Pending(responses'[k])
                 PROVE  \A g \in InFlight' : Pending(g)
      OBVIOUS
    <3>1. CASE k \in 1 .. Len(responses) /\ responses'[k] = responses[k]
      BY <1>3, <1>i, <3>1 DEF CopiesAreLast
    <3>2. CASE responses'[k] = r
      BY <1>1, <2>4, <3>2 DEF Effect, Pending
    <3> QED
      BY <1>4, <3>1, <3>2
  <2> QED
    BY <1>2, <2>1, <2>2, <2>3, <2>5 DEF CopiesAreLast, Pending
<1> QED
  BY <1>1, <1>2, <1>i, <1>t, <1>p, <1>g, <1>o, <1>c, StillHoldsAsked

(* The states of the upgrade and what they send. *)
LEMMA AskTypes ==
  /\ Ask.type = RequestType(upgrade) /\ Ask.payload = RequestPayload(upgrade)
  /\ upgrade.state = "ENTER_BOOTLOADER" <=> Ask.type = "ENTER_BOOTLOADER"
  /\ upgrade.state = "BEGIN" <=> Ask.type = "FW_BEGIN"
  /\ upgrade.state = "TRANSFER" <=> Ask.type = "FW_DATA"
  /\ upgrade.state = "RECOVER" <=> Ask.type = "FW_STATUS"
  /\ upgrade.state = "END" <=> Ask.type = "FW_END"
  /\ upgrade.state = "VERIFY" <=> Ask.type = "FW_VERIFY"
  /\ upgrade.state = "ACTIVATE" <=> Ask.type = "FW_ACTIVATE"
  /\ upgrade.state = "REBOOT" <=> Ask.type = "REBOOT"
  BY DEF Ask, RequestType

(* The chunk being sent ends where the host expects. *)
LEMMA AskedChunk ==
  ASSUME TransferTypeOK, HostKnowsDevice, upgrade.state \in {"TRANSFER", "RECOVER"}
  PROVE  /\ Requested \in asked /\ Requested \in Upgrades
         /\ upgrade.offset \in Nat /\ upgrade.offset < Len(Requested.image)
         /\ upgrade.last_chunk_end
              = upgrade.offset + Len(Chunk(Requested, upgrade.offset))
         /\ Len(Chunk(Requested, upgrade.offset)) \in Nat \ {0}
         /\ upgrade.last_chunk_end \in Nat
         /\ upgrade.offset < upgrade.last_chunk_end
         /\ upgrade.last_chunk_end <= Len(upgrade.image)
         /\ upgrade.state = "TRANSFER" =>
              /\ Ask.payload.offset = upgrade.offset
              /\ Ask.payload.data = Chunk(Requested, upgrade.offset)
<1>1. Requested \in asked /\ Requested \in Upgrades
  BY DEF HostKnowsDevice, HostKnows, TransferTypeOK
<1>2. Requested.image = upgrade.image /\ upgrade.offset \in Nat
  BY DEF Requested, TransferTypeOK, UpgradeRecords
<1>3. upgrade.offset < Len(upgrade.image) /\ upgrade.last_chunk_end = ChunkEnd(upgrade)
  BY DEF HostKnowsDevice, HostKnows
<1>4. /\ Len(Chunk(Requested, upgrade.offset))
           = MinOf(Len(upgrade.image) - upgrade.offset, ChunkSize)
      /\ Len(Chunk(Requested, upgrade.offset)) \in 1 .. ChunkSize
      /\ upgrade.offset + Len(Chunk(Requested, upgrade.offset)) <= Len(upgrade.image)
  BY <1>1, <1>2, <1>3, ChunkFacts
<1>5. upgrade.last_chunk_end = upgrade.offset + Len(Chunk(Requested, upgrade.offset))
  BY <1>3, <1>4 DEF ChunkEnd
<1>6. upgrade.state = "TRANSFER" =>
        /\ Ask.payload.offset = upgrade.offset
        /\ Ask.payload.data = Chunk(Requested, upgrade.offset)
  BY <1>2 DEF Ask, RequestPayload, Chunk, ChunkEnd
<1> QED
  BY <1>1, <1>2, <1>3, <1>4, <1>5, <1>6, UpgradeAssumption

(* Repeating the request leaves true what an answer to it said, and its    *)
(* new answer says the same.                                               *)
LEMMA AnswersKept ==
  ASSUME CrcTellsApart, TransferInv, UpgradeActive(upgrade),
         UNCHANGED <<upgrade, asked>>,
         NEW f \in Frames, NEW r, Fits(f), Effect(f, r),
         f.type = Ask.type, f.payload = Ask.payload
  PROVE  /\ Answers(r)'
         /\ \A q : Answers(q) => Answers(q)'
<1>i. TransferTypeOK /\ HostKnowsDevice /\ DeviceHoldsAsked /\ DeviceNumbers
  BY DeviceNumbersOK DEF TransferInv, TransferLine
<1>0. Ask' = Ask /\ Requested' = Requested
  BY DEF Ask, Requested
<1>1. CASE upgrade.state = "BEGIN"
  <2>1. f.type = "FW_BEGIN"
    BY <1>1, AskTypes
  <2>2. Resumes(Ask.payload)' <=> Resumes(f.payload)'
    BY <1>0 DEF Resumes
  <2>3. Answers(r)'
    BY <1>0, <2>1, <2>2 DEF Answers, Effect
  <2>4. ASSUME NEW q, Answers(q) PROVE Answers(q)'
    <3>1. CASE q.type = "FW_BEGIN"
      <4>1. Resumes(f.payload)
        BY <2>4, <3>1 DEF Answers
      <4>2. Untouched /\ SameKind
        BY <2>1, <4>1 DEF Effect, Erasing
      <4>3. Resumes(f.payload)'
        BY <4>1, <4>2 DEF Resumes, SameImage, Stm32SameImage, Untouched, Kept, SameKind, Receiving
      <4> QED
        BY <1>0, <2>2, <2>4, <3>1, <4>2, <4>3 DEF Answers, Untouched, Kept
    <3>2. CASE q.type # "FW_BEGIN"
      BY <1>0, <2>1, <2>4, <3>2 DEF Answers
    <3> QED
      BY <3>1, <3>2
  <2> QED
    BY <2>3, <2>4
<1>2. CASE upgrade.state = "TRANSFER"
  <2>1. f.type = "FW_DATA"
    BY <1>2, AskTypes
  <2>2. /\ f.payload.offset = upgrade.offset
        /\ f.payload.offset + Len(f.payload.data) = upgrade.last_chunk_end
        /\ upgrade.offset < upgrade.last_chunk_end
        /\ upgrade.offset \in Nat /\ upgrade.last_chunk_end \in Nat
    BY <1>2, <1>i, AskedChunk
  <2>3. device.offset \in {upgrade.offset, upgrade.last_chunk_end}
    BY <1>2, <1>i DEF HostKnowsDevice, HostKnows
  <2>4. Answers(r)'
    <3>1. ASSUME r.type = "FW_DATA"
          PROVE  r.payload = <<device'.offset>> /\ device'.offset = upgrade.last_chunk_end
      <4>1. CASE Writing(f.payload)
        BY <2>2, <3>1, <4>1 DEF Effect, Writing
      <4>2. CASE Untouched /\ f.payload.offset + Len(f.payload.data) <= device.offset
        <5>1. device.offset = upgrade.last_chunk_end
          BY <2>2, <2>3, <4>2
        <5> QED
          BY <3>1, <4>2, <5>1 DEF Effect, Untouched, Kept
      <4> QED
        BY <3>1, <4>1, <4>2 DEF Effect
    <3>2. r.type \in {"NACK", "FW_DATA"}
      BY <2>1 DEF Effect
    <3> QED
      BY <1>0, <2>1, <3>1, <3>2 DEF Answers
  <2>5. ASSUME NEW q, Answers(q) PROVE Answers(q)'
    <3>0. q.type \in {"NACK", "FW_DATA"}
      BY <2>1, <2>5 DEF Answers
    <3>1. CASE q.type = "FW_DATA"
      <4>1. device.offset = upgrade.last_chunk_end
        BY <2>5, <3>1 DEF Answers
      <4>2. Untouched
        <5>1. f.payload.offset # device.offset
          BY <2>2, <4>1
        <5>2. ~Writing(f.payload)
          BY <5>1 DEF Writing
        <5> QED
          BY <2>1, <5>2 DEF Effect
      <4> QED
        BY <1>0, <2>1, <2>5, <3>1, <4>2 DEF Answers, Untouched, Kept
    <3>2. CASE q.type = "NACK"
      BY <1>0, <3>2 DEF Answers
    <3> QED
      BY <3>0, <3>1, <3>2
  <2> QED
    BY <2>4, <2>5
<1>3. CASE upgrade.state = "RECOVER"
  <2>1. f.type = "FW_STATUS"
    BY <1>3, AskTypes
  <2>2. Untouched
    BY <2>1 DEF Effect
  <2>3. Answers(r)'
    BY <1>0, <2>1 DEF Answers, Effect
  <2>4. ASSUME NEW q, Answers(q) PROVE Answers(q)'
    BY <1>0, <2>1, <2>2, <2>4 DEF Answers, Untouched, Kept
  <2> QED
    BY <2>3, <2>4
<1>4. CASE upgrade.state = "ACTIVATE"
  <2>1. f.type = "FW_ACTIVATE"
    BY <1>4, AskTypes
  <2>2. Loaded /\ Full
    BY <2>1 DEF Fits, InSession, Finishing
  <2>3. Holds(Requested) /\ Requested \in asked
    BY <1>4, <1>i DEF HostKnowsDevice, HostKnows
  <2>4. Flashed(device) = Requested
    BY <1>i, <2>2, <2>3, HeldFirmware
  <2>5. Answers(r)'
    BY <1>0, <2>1, <2>4 DEF Answers, Effect, Switching
  <2>6. ASSUME NEW q, Answers(q) PROVE Answers(q)'
    BY <1>0, <2>1, <2>4, <2>6 DEF Answers, Effect, Switching, Untouched
  <2> QED
    BY <2>5, <2>6
<1>5. CASE upgrade.state \notin {"BEGIN", "TRANSFER", "RECOVER", "ACTIVATE"}
  <2>1. Ask.type \notin {"FW_BEGIN", "FW_DATA", "FW_STATUS", "FW_ACTIVATE"}
    BY <1>5, AskTypes
  <2>2. r.type \in {"NACK", Ask.type}
    BY DEF Effect
  <2>3. Answers(r)'
    BY <1>0, <2>1, <2>2 DEF Answers
  <2>4. ASSUME NEW q, Answers(q) PROVE Answers(q)'
    BY <1>0, <2>1, <2>4 DEF Answers
  <2> QED
    BY <2>3, <2>4
<1> QED
  BY <1>1, <1>2, <1>3, <1>4, <1>5

(* What the host knows stays true while the device works. *)
LEMMA HostKnowsKept ==
  ASSUME CrcTellsApart, TransferInv, UNCHANGED <<upgrade, asked>>,
         NEW f \in Frames, NEW r, f \in InFlight, Effect(f, r),
         InFlight' \subseteq InFlight
  PROVE  HostKnowsDevice'
<1>i. /\ TransferTypeOK /\ HostKnowsDevice /\ DeviceHoldsAsked /\ DeviceNumbers
      /\ LineFits /\ LineInOrder
  BY DeviceNumbersOK DEF TransferInv, TransferLine
<1>0. Requested' = Requested /\ Fits(f)
  BY <1>i DEF Requested, LineFits
<1>e. /\ upgrade'.state = "IDLE" => InFlight' = {}
      /\ upgrade'.state # "IDLE" => Requested' \in asked'
  BY <1>0, <1>i DEF HostKnowsDevice, HostKnows
<1>1. ASSUME upgrade.state \in {"TRANSFER", "RECOVER", "END", "VERIFY", "ACTIVATE"}
      PROVE  /\ Loaded' /\ Holds(Requested)' /\ device'.sid = upgrade.session_id
             /\ ~(f.type = "FW_BEGIN" /\ Erasing(f.payload))
             /\ upgrade.state \in {"TRANSFER", "RECOVER"} => f.type \notin {"FW_END", "REBOOT"}
  <2>1. Follows(f, Ask) /\ Ask.type \in InSession
    BY <1>1, <1>i, AskTypes DEF LineInOrder, UpgradeActive, InSession, Finishing
  <2>2. ~(f.type = "FW_BEGIN" /\ Erasing(f.payload))
    BY <2>1 DEF Follows, Erasing, InSession, Finishing
  <2>3. f.type # "REBOOT"
    BY <2>1 DEF Follows, Behind, InSession, Finishing
  <2>4. Loaded /\ Holds(Requested) /\ device.sid = upgrade.session_id /\ Requested \in asked
    BY <1>1, <1>i DEF HostKnowsDevice, HostKnows
  <2>5. PICK next \in asked : next = Requested
    BY <2>4
  <2>6. Holds(next)'
    BY <1>0, <1>i, <2>2, <2>4, <2>5, HoldsKept
  <2>7. Holds(Requested)'
    BY <1>0, <2>5, <2>6 DEF Holds
  <2>8. Loaded' /\ device'.sid = device.sid
    BY <2>2, <2>3, <2>4 DEF Effect, Untouched, Kept, Writing, Leaving, Switching
  <2>9. upgrade.state \in {"TRANSFER", "RECOVER"} => f.type # "FW_END"
    BY <2>1, AskTypes DEF Follows, Behind
  <2> QED
    BY <2>2, <2>3, <2>4, <2>7, <2>8, <2>9
<1>2. ASSUME upgrade.state \in {"TRANSFER", "RECOVER"}
      PROVE  /\ device'.offset \in {upgrade.offset, upgrade.last_chunk_end}
             /\ \A g \in InFlight' : g.type = "FW_DATA" =>
                  \/ g.payload.offset = upgrade.offset
                  \/ g.payload.offset + Len(g.payload.data) <= upgrade.offset
  <2>1. \A g \in InFlight : g.type = "FW_DATA" =>
          \/ g.payload.offset = upgrade.offset
          \/ g.payload.offset + Len(g.payload.data) <= upgrade.offset
    BY <1>2, <1>i DEF HostKnowsDevice, HostKnows
  <2>2. device.offset \in {upgrade.offset, upgrade.last_chunk_end}
    BY <1>2, <1>i DEF HostKnowsDevice, HostKnows
  <2>3. CASE f.type = "FW_DATA" /\ Writing(f.payload)
    <3>1. /\ Requested \in asked
          /\ upgrade.offset \in Nat /\ upgrade.offset < upgrade.last_chunk_end
          /\ upgrade.last_chunk_end \in Nat
          /\ upgrade.last_chunk_end = upgrade.offset + Len(Chunk(Requested, upgrade.offset))
      BY <1>2, <1>i, AskedChunk
    <3>2. Holds(Requested)
      BY <1>2, <1>i DEF HostKnowsDevice, HostKnows
    <3>3. PICK next \in asked : next = Requested
      BY <3>1
    <3>4. f.payload.offset < Len(next.image) /\ f.payload.data = Chunk(next, f.payload.offset)
      BY <1>0, <1>i, <1>1, <1>2, <2>3, <3>2, <3>3, HoldsKept
    <3>5. f.payload.offset \in Nat /\ next \in Upgrades
      BY <1>0, <1>i, <2>3 DEF Fits, TransferTypeOK
    <3>6. Len(f.payload.data) \in 1 .. ChunkSize
      BY <3>4, <3>5, ChunkFacts
    <3>7. f.payload.offset = device.offset
      BY <2>3 DEF Writing
    <3>8. f.payload.offset = upgrade.offset
      <4>1. \/ f.payload.offset = upgrade.offset
            \/ f.payload.offset + Len(f.payload.data) <= upgrade.offset
        BY <2>1, <2>3
      <4>2. device.offset >= upgrade.offset
        BY <2>2, <3>1
      <4>3. Len(f.payload.data) \in Nat /\ Len(f.payload.data) > 0
        BY <3>6, UpgradeAssumption
      <4>4. CASE f.payload.offset + Len(f.payload.data) <= upgrade.offset
        BY <3>1, <3>5, <3>7, <4>2, <4>3, <4>4
      <4> QED
        BY <4>1, <4>4
    <3>9. device'.offset = upgrade.last_chunk_end
      BY <2>3, <3>1, <3>3, <3>4, <3>7, <3>8 DEF Writing
    <3> QED
      BY <2>1, <3>9
  <2>4. CASE Kept
    BY <2>1, <2>2, <2>4 DEF Kept
  <2> QED
    BY <1>1, <1>2, <2>3, <2>4 DEF Effect, Untouched, Leaving, Switching
<1>3. ASSUME upgrade.state \in {"REBOOT", "COMPLETE"}
      PROVE  /\ device'.active = Requested
             /\ \A g \in InFlight' : g.type = "FW_ACTIVATE" /\ upgrade.state = "REBOOT"
                                       => Holds(Requested)'
  <2>1. f.type \in {"FW_ACTIVATE", "REBOOT"} /\ (upgrade.state = "COMPLETE" => f.type = "REBOOT")
    <3>1. CASE upgrade.state = "COMPLETE"
      BY <1>i, <3>1 DEF HostKnowsDevice, HostKnows
    <3>2. CASE upgrade.state = "REBOOT"
      <4>1. Follows(f, Ask) /\ Ask.type = "REBOOT"
        BY <3>2, <1>i, AskTypes DEF LineInOrder, UpgradeActive
      <4> QED
        BY <3>2, <4>1 DEF Follows, Behind, Frames, RequestTypes
    <3> QED
      BY <1>3, <3>1, <3>2
  <2>2. device.active = Requested /\ Requested \in asked
    BY <1>3, <1>i DEF HostKnowsDevice, HostKnows
  <2>3. ASSUME f.type = "FW_ACTIVATE"
        PROVE  Flashed(device) = Requested
    <3>1. Holds(Requested)
      BY <1>3, <1>i, <2>1, <2>3 DEF HostKnowsDevice, HostKnows
    <3>2. Loaded /\ Full
      BY <1>0, <2>3 DEF Fits, InSession, Finishing
    <3> QED
      BY <1>i, <2>2, <3>1, <3>2, HeldFirmware
  <2>4. device'.active = Requested
    BY <2>1, <2>2, <2>3 DEF Effect, Untouched, Leaving, Switching
  <2>5. Kept
    BY <2>1 DEF Effect, Untouched, Leaving, Switching
  <2>6. Holds(Requested) => Holds(Requested)'
    BY <1>0, <2>5 DEF Holds, Kept
  <2>7. upgrade.state = "REBOOT" =>
          \A g \in InFlight : g.type = "FW_ACTIVATE" => Holds(Requested)
    BY <1>i DEF HostKnowsDevice, HostKnows
  <2> QED
    BY <2>4, <2>6, <2>7
<1>4. upgrade.state = "COMPLETE" => \A g \in InFlight' : g.type = "REBOOT"
  BY <1>i DEF HostKnowsDevice, HostKnows
<1>5. upgrade.state \in {"TRANSFER", "RECOVER"} =>
        /\ upgrade.offset < Len(upgrade.image)
        /\ upgrade.last_chunk_end = ChunkEnd(upgrade)
  BY <1>i DEF HostKnowsDevice, HostKnows
<1>6. upgrade' = upgrade
  OBVIOUS
<1> QED
  BY <1>0, <1>e, <1>1, <1>2, <1>3, <1>4, <1>5, <1>6 DEF HostKnowsDevice, HostKnows

(* A step of the device. *)
LEMMA DeviceStep ==
  ASSUME CrcTellsApart, TransferInv, DeviceHandles
  PROVE  TransferInv'
<1>1. PICK f \in Frames, r \in Replies :
        /\ requests # <<>> /\ f = requests[1]
        /\ Fits(f) /\ Effect(f, r)
        /\ responses' \in {responses, Append(responses, r)}
  BY DeviceEffect DEF TransferInv, TransferLine
<1>2. /\ requests' = Tail(requests)
      /\ UNCHANGED <<session, upgrade, asked, output>>
  BY DEF DeviceHandles, hostVars
<1>i. TransferTypeOK /\ LineInOrder /\ CopiesAreLast /\ PendingIsAsked
  BY DEF TransferInv, TransferLine
<1>3. InFlight' \subseteq InFlight /\ f \in InFlight
  BY <1>1, <1>2, <1>i, LineTaken DEF TransferTypeOK, InFlight
<1>4. HostKnowsDevice'
  BY <1>1, <1>2, <1>3, HostKnowsKept
<1>5. AnswersAreCurrent'
  <2>1. \A k \in 1 .. Len(responses') :
          \/ k \in 1 .. Len(responses) /\ responses'[k] = responses[k]
          \/ responses'[k] = r
    BY <1>1, <1>i, ResponseAdded DEF TransferTypeOK
  <2>2. \A q : Pending(q)' <=> Pending(q)
    BY <1>2 DEF Pending
  <2>3. ASSUME Pending(f)
        PROVE  Answers(r)' /\ \A q : Answers(q) => Answers(q)'
    <3>1. UpgradeActive(upgrade) /\ f.type = Ask.type /\ f.payload = Ask.payload
      BY <1>3, <1>i, <2>3 DEF CopiesAreLast, PendingIsAsked, Pending
    <3> QED
      BY <1>1, <1>2, <3>1, AnswersKept
  <2>4. ASSUME NEW k \in 1 .. Len(responses'), Pending(responses'[k])
        PROVE  \E q : q = responses'[k] /\ Answers(q)'
    <3>1. CASE k \in 1 .. Len(responses) /\ responses'[k] = responses[k]
      <4>1. Pending(f)
        BY <1>3, <1>i, <2>4, <3>1 DEF CopiesAreLast
      <4>2. PICK q : q = responses[k]
        OBVIOUS
      <4>3. Answers(q)
        BY <2>4, <3>1, <4>2 DEF TransferInv, TransferLine, AnswersAreCurrent, Answers
      <4> QED
        BY <2>3, <3>1, <4>1, <4>2, <4>3
    <3>2. CASE responses'[k] = r
      <4>1. Pending(f)
        BY <1>1, <2>4, <3>2 DEF Effect, Pending
      <4> QED
        BY <2>3, <3>2, <4>1
    <3> QED
      BY <2>1, <3>1, <3>2
  <2>5. (\A k \in 1 .. Len(responses) : Pending(responses[k]) => Answers(responses[k]))'
    <3> SUFFICES ASSUME NEW k \in 1 .. Len(responses'), Pending(responses[k])'
                 PROVE  Answers(responses[k])'
      OBVIOUS
    <3>1. Pending(responses'[k])
      BY <1>2 DEF Pending
    <3>2. PICK q : q = responses'[k] /\ Answers(q)'
      BY <2>4, <3>1
    <3> QED
      BY <3>2 DEF Answers
  <2> QED
    BY <2>5 DEF AnswersAreCurrent
<1> QED
  BY <1>4, <1>5, DeviceLine DEF TransferInv, TransferLine

(***************************************************************************)
(* The operators of the host                                               *)
(***************************************************************************)
Idle(s) == s \in Sessions /\ s.pending = NoRequest

LEMMA NextSequenceType ==
  ASSUME NEW n \in Sequences32
  PROVE  NextSequence(n) \in Sequences32
<1>1. n + 1 < Modulus => (n + 1) % Modulus = n + 1
  BY ModulusAssumption, SMT DEF Sequences32
<1>2. Modulus % Modulus = 0
  BY ModulusAssumption, SMT
<1> QED
  BY <1>1, <1>2, ModulusAssumption DEF NextSequence, Sequences32

LEMMA CancelledSession ==
  ASSUME NEW s \in Sessions
  PROVE  Idle(Cancel(s)) /\ Cancel(s).next_sequence = s.next_sequence
<1>1. NoRequest \in [active : BOOLEAN, type : RequestTypes \union {"NONE"},
                     sequence : 0 .. Modulus - 1, retries_done : Nat, max_retries : Nat]
  BY ModulusAssumption DEF NoRequest
<1> QED
  BY <1>1 DEF Idle, Cancel, Sessions

LEMMA BegunSession ==
  ASSUME NEW s \in Sessions, NEW u
  PROVE  LET b == BeginRequest(s, RequestType(u), UpgradeRetries)
         IN  /\ b \in Sessions
             /\ b.pending.active = TRUE /\ b.pending.max_retries = UpgradeRetries
             /\ b.pending.type = RequestType(u)
             /\ b.pending.sequence = s.next_sequence
             /\ b.pending.retries_done = 0
             /\ b.next_sequence = NextSequence(s.next_sequence)
<1>1. s.next_sequence \in Sequences32 /\ NextSequence(s.next_sequence) \in Sequences32
  BY NextSequenceType DEF Sessions
<1>2. RequestType(u) \in RequestTypes \union {"NONE"} /\ UpgradeRetries \in Nat
  BY TransferAssumption DEF RequestType, RequestTypes
<1>3. s.next_sequence \in 0 .. Modulus - 1
  BY <1>1, ModulusAssumption DEF Sequences32
<1>4. BeginRequest(s, RequestType(u), UpgradeRetries) \in Sessions
  BY <1>1, <1>2, <1>3 DEF Sessions, BeginRequest
<1> QED
  BY <1>4 DEF Sessions, BeginRequest

(* The events of an upgrade leave the request alone. *)
LEMMA TransitedSession ==
  ASSUME NEW s \in Sessions, NEW event \in {"START_UPGRADE", "UPGRADE_DONE"}
  PROVE  /\ Transition(s, event) \in Sessions
         /\ Transition(s, event).pending = s.pending
         /\ Transition(s, event).next_sequence = s.next_sequence
<1>1. Successor(s.state, event) \in DeviceStates
  BY DEF Sessions, Successor, DeviceStates
<1>2. event \notin {"TRANSPORT_LOST", "FAIL"}
  OBVIOUS
<1> QED
  BY <1>1, <1>2 DEF Sessions, Transition

LEMMA NothingQueued ==
  ASSUME NEW s \in Sessions, NEW u
  PROVE  Idle(NotQueued(s, u))
<1>1. BeginRequest(s, RequestType(u), UpgradeRetries) \in Sessions
  BY BegunSession
<1> QED
  BY <1>1, CancelledSession DEF NotQueued

LEMMA FinishedSession ==
  ASSUME NEW s, Idle(s), NEW u, NEW status, Finish(s, u, status)
  PROVE  Idle(session')
  BY TransitedSession DEF Finish, Idle

(* Building a request only notes where its chunk ends. *)
LEMMA BuiltFacts ==
  ASSUME NEW u \in UpgradeRecords
  PROVE  /\ Built(u) \in UpgradeRecords
         /\ Built(u).state = u.state /\ Built(u).image = u.image
         /\ Built(u).version = u.version /\ Built(u).session_id = u.session_id
         /\ Built(u).offset = u.offset
         /\ u.state = "TRANSFER" => Built(u).last_chunk_end = ChunkEnd(u)
         /\ u.state # "TRANSFER" => Built(u) = u
         /\ ChunkEnd(Built(u)) = ChunkEnd(u)
         /\ RequestType(Built(u)) = RequestType(u)
         /\ RequestPayload(Built(u)) = RequestPayload(u)
         /\ UpgradeActive(Built(u)) <=> UpgradeActive(u)
<1>0. Len(u.image) \in Nat /\ u.offset \in Nat
  BY DEF UpgradeRecords
<1>2. ChunkEnd(u) \in Nat
  BY <1>0, UpgradeAssumption DEF ChunkEnd, MinOf
<1>3. /\ Built(u) \in UpgradeRecords
      /\ Built(u).state = u.state /\ Built(u).image = u.image
      /\ Built(u).version = u.version /\ Built(u).session_id = u.session_id
      /\ Built(u).offset = u.offset
      /\ u.state = "TRANSFER" => Built(u).last_chunk_end = ChunkEnd(u)
      /\ u.state # "TRANSFER" => Built(u) = u
  BY <1>2 DEF Built, UpgradeRecords
<1>4. ChunkEnd(Built(u)) = ChunkEnd(u)
  BY <1>3 DEF ChunkEnd
<1> QED
  BY <1>3, <1>4 DEF RequestType, RequestPayload, UpgradeActive

(* The request of an upgrade for a firmware that may be asked for. *)
LEMMA BuiltFrame ==
  ASSUME NEW u \in UpgradeRecords, UpgradeActive(u),
         u.state = "TRANSFER" => u.offset < Len(u.image),
         [image |-> u.image, version |-> u.version] \in Upgrades
  PROVE  RequestType(u) \in RequestTypes /\ RequestPayload(u) \in Payloads
<1>1. u.state \in UpgradeStates /\ u.state # "VALIDATING"
      /\ u.session_id \in Nat /\ u.offset \in Nat /\ u.image \in Seq(Nat)
  BY DEF UpgradeRecords
<1>2. RequestType(u) \in RequestTypes
  BY <1>1 DEF RequestType, RequestTypes, UpgradeActive, UpgradeStates
<1> DEFINE next == [image |-> u.image, version |-> u.version]
<1>3. CASE u.state = "BEGIN"
  <2>1. RequestPayload(u) = Announced(next)
    BY <1>3 DEF RequestPayload, Announced
  <2> QED
    BY <1>2, <2>1 DEF Payloads
<1>4. CASE u.state = "TRANSFER"
  <2>1. u.offset < Len(next.image)
    BY <1>4
  <2>2. Chunk(next, u.offset) \in Seq(Nat)
    BY <1>1, <2>1, ChunkFacts
  <2>3. RequestPayload(u) = [session_id |-> u.session_id, offset |-> u.offset,
                             data |-> Chunk(next, u.offset)]
    BY <1>4 DEF RequestPayload, Chunk, ChunkEnd
  <2> QED
    BY <1>1, <1>2, <2>2, <2>3 DEF Payloads
<1>5. CASE u.state \notin {"BEGIN", "TRANSFER"}
  <2>1. RequestPayload(u) = [session_id |-> u.session_id]
    BY <1>5 DEF RequestPayload
  <2> QED
    BY <1>1, <1>2, <2>1 DEF Payloads
<1> QED
  BY <1>3, <1>4, <1>5

(* A new frame in transport_output. *)
LEMMA FlightGrows ==
  ASSUME output = NoFrame, UNCHANGED requests, output' # NoFrame
  PROVE  InFlight' = InFlight \union {output'}
  BY DEF InFlight

(***************************************************************************)
(* The line after a step of the host                                       *)
(***************************************************************************)
(* What a step owes the line when the host is left with upgrade u: the     *)
(* requests underway and the device allow for what u will send.            *)
Owed(flight) ==
  /\ upgrade' \in UpgradeRecords
  /\ HostKnows(flight)'
  /\ UpgradeActive(upgrade') =>
       /\ Fits(Ask)'
       /\ \A g \in flight : Follows(g, Ask)'

(* Responses leave the line in order. *)
LEMMA FewerResponses ==
  ASSUME responses \in Seq(Replies), responses' = responses
           \/ (responses # <<>> /\ responses' = Tail(responses))
  PROVE  /\ responses' \in Seq(Replies)
         /\ \A k \in 1 .. Len(responses') :
              \E m \in 1 .. Len(responses) : responses'[k] = responses[m]
<1>1. CASE responses' = responses
  BY <1>1
<1>2. CASE responses # <<>> /\ responses' = Tail(responses)
  <2>1. /\ responses' \in Seq(Replies) /\ Len(responses) \in Nat
        /\ Len(responses') = Len(responses) - 1
        /\ \A k \in 1 .. Len(responses') : responses'[k] = responses[k + 1]
    BY <1>2, HeadTailProperties
  <2>2. \A k \in 1 .. Len(responses') : k + 1 \in 1 .. Len(responses)
    BY <2>1
  <2> QED
    BY <2>1, <2>2
<1> QED
  BY <1>1, <1>2

(* Without a request no frame is a copy of one. *)
LEMMA HostRests ==
  ASSUME TransferInv, Idle(session'), UNCHANGED <<requests, output, device>>,
         asked' \subseteq Upgrades, asked \subseteq asked',
         responses' = responses \/ (responses # <<>> /\ responses' = Tail(responses)),
         NEW flight, flight = InFlight, Owed(flight)
  PROVE  TransferInv'
<1>i. TransferTypeOK /\ LineInOrder /\ LineFits /\ DeviceHoldsAsked
  BY DEF TransferInv, TransferLine
<1>1. InFlight' = flight
  BY DEF InFlight
<1>2. session'.pending.active = FALSE
  BY DEF Idle, NoRequest
<1>3. TransferTypeOK'
  BY <1>i, FewerResponses DEF TransferTypeOK, Owed, Idle
<1>4. PendingIsAsked' /\ CopiesAreLast' /\ AnswersAreCurrent'
  BY <1>2 DEF PendingIsAsked, CopiesAreLast, AnswersAreCurrent, Pending
<1>5. \A n : Holds(n)' <=> Holds(n)
  BY DEF Holds
<1>6. (Loaded' <=> Loaded) /\ (Full' <=> Full)
  BY DEF Loaded, IsSimulator, Full
<1>7. \A g : Fits(g) => Fits(g)'
  BY <1>5, <1>6 DEF Fits
<1>8. \A g, h : Follows(g, h)' <=> Follows(g, h)
  BY DEF Follows, Resumes, IsSimulator
<1>9. LineFits'
  BY <1>1, <1>7, <1>i DEF LineFits, Owed
<1>10. LineInOrder'
  <2>1. (UpgradeActive(upgrade) => \A f \in InFlight : Follows(f, Ask))'
    BY <1>1 DEF Owed
  <2>2. (\A i, j \in 1 .. Len(requests) : i < j => Follows(requests[i], requests[j]))'
    BY <1>8, <1>i DEF LineInOrder, Follows, Resumes, IsSimulator
  <2>3. (output # NoFrame => \A i \in 1 .. Len(requests) : Follows(requests[i], output))'
    BY <1>8, <1>i DEF LineInOrder, Follows, Resumes, IsSimulator
  <2> QED
    BY <2>1, <2>2, <2>3 DEF LineInOrder
<1>11. HostKnowsDevice'
  BY <1>1 DEF HostKnowsDevice, Owed
<1>12. DeviceHoldsAsked'
  BY <1>5, <1>6, <1>i DEF DeviceHoldsAsked
<1> QED
  BY <1>3, <1>4, <1>9, <1>10, <1>11, <1>12 DEF TransferInv, TransferLine

(* A copy g of what the host is left to ask fits where the question fits,  *)
(* may stand before it and adds nothing to what the host knows.            *)
LEMMA CopyOfAsk ==
  ASSUME NEW flight, NEW g, g.type = Ask'.type, g.payload = Ask'.payload,
         UpgradeActive(upgrade'), Owed(flight)
  PROVE  /\ Fits(g)' /\ Follows(g, Ask)'
         /\ \A f \in flight : Follows(f, g)'
         /\ HostKnows(flight \union {g})'
<1>1. Fits(g)'
  BY DEF Fits, Owed
<1>2. Follows(g, Ask)'
  BY DEF Follows, Behind
<1>3. \A f \in flight : Follows(f, g)'
  BY DEF Follows, Owed
<1>4. HostKnows(flight \union {g})'
  <2>1. g.type = RequestType(upgrade') /\ g.payload = RequestPayload(upgrade')
    BY DEF Ask
  <2>2. upgrade'.state \in {"TRANSFER", "RECOVER"} /\ g.type = "FW_DATA" =>
          g.payload.offset = upgrade'.offset
    BY <2>1 DEF RequestType, RequestPayload
  <2>3. upgrade'.state = "REBOOT" => g.type # "FW_ACTIVATE"
    BY <2>1 DEF RequestType
  <2> QED
    BY <2>2, <2>3 DEF HostKnows, UpgradeActive, Owed
<1> QED
  BY <1>1, <1>2, <1>3, <1>4

(* The line with a copy of the question added to it. *)
LEMMA LineGrows ==
  ASSUME TransferInv, UNCHANGED <<requests, device>>, asked \subseteq asked',
         output = NoFrame, output' \in Frames,
         output'.type = Ask'.type, output'.payload = Ask'.payload,
         UpgradeActive(upgrade'),
         NEW flight, flight = InFlight, Owed(flight)
  PROVE  /\ InFlight' = flight \union {output'}
         /\ LineInOrder' /\ LineFits' /\ HostKnowsDevice' /\ DeviceHoldsAsked'
<1>i. TransferTypeOK /\ LineInOrder /\ LineFits /\ DeviceHoldsAsked
  BY DEF TransferInv, TransferLine
<1>0. output' # NoFrame
  BY DEF Frames, NoFrame, RequestTypes
<1>1. InFlight' = flight \union {output'}
  BY <1>0, FlightGrows
<1>2. PICK g : g = output'
  OBVIOUS
<1>3. /\ Fits(g)' /\ Follows(g, Ask)'
      /\ \A f \in flight : Follows(f, g)'
      /\ HostKnows(flight \union {g})'
  BY <1>2, CopyOfAsk
<1>5. \A n : Holds(n)' <=> Holds(n)
  BY DEF Holds
<1>6. (Loaded' <=> Loaded) /\ (Full' <=> Full)
  BY DEF Loaded, IsSimulator, Full
<1>7. \A h : Fits(h) => Fits(h)'
  BY <1>5, <1>6 DEF Fits
<1>9. LineFits'
  <2>1. \A f \in InFlight' : Fits(f)'
    BY <1>1, <1>2, <1>3, <1>7, <1>i DEF LineFits
  <2> QED
    BY <2>1 DEF LineFits, Owed
<1>10. LineInOrder'
  <2>1. (UpgradeActive(upgrade) => \A f \in InFlight : Follows(f, Ask))'
    BY <1>1, <1>2, <1>3 DEF Owed
  <2>2. (\A i, j \in 1 .. Len(requests) : i < j => Follows(requests[i], requests[j]))'
    BY <1>i DEF LineInOrder, Follows, Resumes, IsSimulator
  <2>3. (output # NoFrame => \A i \in 1 .. Len(requests) : Follows(requests[i], output))'
    <3> SUFFICES ASSUME NEW i \in 1 .. Len(requests')
                 PROVE  Follows(requests[i], output)'
      OBVIOUS
    <3>1. requests[i] \in flight
      BY DEF InFlight
    <3>2. PICK f \in flight : f = requests[i]
      BY <3>1
    <3>3. Follows(f, g)'
      BY <1>3, <3>2
    <3> QED
      BY <1>2, <3>2, <3>3 DEF Follows
  <2> QED
    BY <2>1, <2>2, <2>3 DEF LineInOrder
<1>11. HostKnowsDevice'
  BY <1>1, <1>2, <1>3 DEF HostKnowsDevice
<1>12. DeviceHoldsAsked'
  BY <1>5, <1>6, <1>i DEF DeviceHoldsAsked
<1> QED
  BY <1>1, <1>9, <1>10, <1>11, <1>12

(* A new request. *)
LEMMA HostQueues ==
  ASSUME TransferInv, SequenceIsFresh,
         NEW s \in Sessions, s.next_sequence = session.next_sequence,
         NEW u \in UpgradeRecords, Queue(s, u),
         [image |-> u.image, version |-> u.version] \in Upgrades,
         UNCHANGED <<requests, device>>,
         asked' \subseteq Upgrades, asked \subseteq asked',
         responses' = responses \/ (responses # <<>> /\ responses' = Tail(responses)),
         NEW flight, flight = InFlight, Owed(flight)
  PROVE  TransferInv'
<1>i. TransferTypeOK
  BY DEF TransferInv
<1>1. /\ CanBuild(u) /\ output = NoFrame /\ upgrade' = Built(u)
      /\ session' = BeginRequest(s, RequestType(u), UpgradeRetries)
      /\ output' = [type |-> RequestType(u), sequence |-> s.next_sequence,
                    payload |-> RequestPayload(u)]
  BY DEF Queue, CanQueue
<1>2. /\ session' \in Sessions /\ session'.pending.active = TRUE
      /\ session'.pending.type = RequestType(u)
      /\ session'.pending.sequence = session.next_sequence
  BY <1>1, BegunSession
<1>u. UpgradeActive(u) /\ (u.state = "TRANSFER" => u.offset < Len(u.image))
  BY <1>1 DEF CanBuild, RequestType, UpgradeActive
<1>3. /\ Ask'.type = RequestType(u) /\ Ask'.payload = RequestPayload(u)
      /\ RequestType(upgrade') = RequestType(u)
      /\ UpgradeActive(upgrade')
  BY <1>1, <1>u, BuiltFacts DEF Ask
<1>4. session.next_sequence \in 0 .. Modulus - 1
  BY <1>i, ModulusAssumption DEF TransferTypeOK, Sessions, Sequences32
<1>5. /\ output' \in Frames /\ output'.type = Ask'.type /\ output'.payload = Ask'.payload
      /\ output'.sequence = session.next_sequence
  BY <1>1, <1>u, <1>3, <1>4, BuiltFrame DEF Frames
<1>6. /\ InFlight' = flight \union {output'}
      /\ LineInOrder' /\ LineFits' /\ HostKnowsDevice' /\ DeviceHoldsAsked'
  BY <1>1, <1>3, <1>5, LineGrows
<1>7. TransferTypeOK'
  BY <1>2, <1>5, <1>i, FewerResponses DEF TransferTypeOK, Owed
<1>8. PendingIsAsked'
  BY <1>2, <1>3 DEF PendingIsAsked
<1>9. \A g : Pending(g)' <=> g.sequence = session.next_sequence
  BY <1>2 DEF Pending
<1>10. /\ \A g \in flight : ~Pending(g)'
       /\ \A k \in 1 .. Len(responses') : ~Pending(responses[k])'
  <2>1. \A g \in flight : ~Pending(g)'
    BY <1>9 DEF SequenceIsFresh
  <2>2. \A k \in 1 .. Len(responses') : responses'[k].sequence # session.next_sequence
    BY <1>i, FewerResponses DEF SequenceIsFresh, TransferTypeOK
  <2> QED
    BY <1>2, <2>1, <2>2 DEF Pending
<1>11. AnswersAreCurrent'
  BY <1>10 DEF AnswersAreCurrent
<1>12. CopiesAreLast'
  <2>1. \A i \in 1 .. Len(requests') : requests'[i] \in flight
    BY DEF InFlight
  <2>2. \A i \in 1 .. Len(requests') : ~Pending(requests[i])'
    BY <1>2, <1>10, <2>1 DEF Pending
  <2>3. \A f \in InFlight' : Pending(f)' => f.type = Ask'.type /\ f.payload = Ask'.payload
    BY <1>5, <1>6, <1>10
  <2> QED
    BY <1>10, <2>2, <2>3 DEF CopiesAreLast
<1> QED
  BY <1>6, <1>7, <1>8, <1>11, <1>12 DEF TransferInv, TransferLine

LEMMA RetriedSession ==
  ASSUME NEW s \in Sessions
  PROVE  /\ Retry(s) \in Sessions
         /\ Retry(s).pending.active = s.pending.active
         /\ Retry(s).pending.type = s.pending.type
         /\ Retry(s).pending.sequence = s.pending.sequence
         /\ Retry(s).pending.max_retries = s.pending.max_retries
         /\ Retry(s).pending.retries_done = s.pending.retries_done + 1
         /\ Retry(s).next_sequence = s.next_sequence
  BY DEF Sessions, Retry

LEMMA NothingChanges ==
  ASSUME TransferInv,
         UNCHANGED <<session, upgrade, asked, output, requests, responses, device>>
  PROVE  TransferInv'
<1>1. TransferTypeOK' /\ PendingIsAsked'
  BY DEF TransferInv, TransferLine, TransferTypeOK, PendingIsAsked
<1>2. InFlight' = InFlight /\ Ask' = Ask /\ Requested' = Requested
  BY DEF InFlight, Ask, Requested
<1>3. LineInOrder'
  BY <1>2 DEF TransferInv, TransferLine, LineInOrder, Follows, Resumes, IsSimulator
<1>4. LineFits'
  BY <1>2 DEF TransferInv, TransferLine, LineFits, Fits, Loaded, IsSimulator, Holds, Full
<1>5. CopiesAreLast'
  BY <1>2 DEF TransferInv, TransferLine, CopiesAreLast, Pending
<1>6. AnswersAreCurrent'
  BY <1>2 DEF TransferInv, TransferLine, AnswersAreCurrent, Pending, Answers, Resumes, IsSimulator
<1>7. HostKnowsDevice'
  BY <1>2 DEF TransferInv, TransferLine, HostKnowsDevice, HostKnows, Loaded, IsSimulator, Holds
<1>8. DeviceHoldsAsked'
  BY DEF TransferInv, TransferLine, DeviceHoldsAsked, Loaded, IsSimulator, Holds
<1> QED
  BY <1>1, <1>3, <1>4, <1>5, <1>6, <1>7, <1>8 DEF TransferInv, TransferLine

(* A retry. *)
LEMMA RetryStep ==
  ASSUME TransferInv, TickRetry
  PROVE  TransferInv'
<1>i. /\ TransferTypeOK /\ PendingIsAsked /\ LineInOrder /\ LineFits /\ CopiesAreLast
      /\ AnswersAreCurrent /\ HostKnowsDevice /\ DeviceHoldsAsked
  BY DEF TransferInv, TransferLine
<1>0. /\ session.pending.active
      /\ UNCHANGED <<upgrade, asked, requests, responses, device>>
  BY DEF TickRetry, Due
<1>1. CASE UNCHANGED <<session, output>>
  BY <1>0, <1>1, NothingChanges
<1>2. CASE /\ output = NoFrame /\ session' = Retry(session)
           /\ output' = [type |-> session.pending.type, sequence |-> session.pending.sequence,
                         payload |-> RequestPayload(upgrade)]
  <2>1. /\ session' \in Sessions
        /\ session'.pending.active = session.pending.active
        /\ session'.pending.type = session.pending.type
        /\ session'.pending.sequence = session.pending.sequence
    <3>1. session \in Sessions
      BY <1>i DEF TransferTypeOK
    <3> QED
      BY <1>2, <3>1, RetriedSession
  <2>2. /\ UpgradeActive(upgrade) /\ session.pending.type = RequestType(upgrade)
        /\ Ask' = Ask
    BY <1>0, <1>i DEF PendingIsAsked, Ask
  <2>3. /\ upgrade \in UpgradeRecords /\ Requested \in Upgrades
        /\ upgrade.state = "TRANSFER" => upgrade.offset < Len(upgrade.image)
    BY <1>i, <2>2 DEF TransferTypeOK, HostKnowsDevice, HostKnows, UpgradeActive
  <2>4. RequestType(upgrade) \in RequestTypes /\ RequestPayload(upgrade) \in Payloads
    BY <2>2, <2>3, BuiltFrame DEF Requested
  <2>5. /\ output' \in Frames /\ output'.type = Ask'.type /\ output'.payload = Ask'.payload
        /\ output'.sequence = session.pending.sequence
    BY <1>2, <1>i, <2>2, <2>4 DEF Frames, TransferTypeOK, Sessions, Ask
  <2>6. PICK flight : flight = InFlight
    OBVIOUS
  <2>7. Owed(flight)
    <3>1. HostKnows(flight)'
      BY <1>0, <1>i, <2>6
        DEF HostKnowsDevice, HostKnows, Loaded, IsSimulator, Holds, Requested
    <3>2. Fits(Ask)'
      BY <1>0, <1>i, <2>2 DEF LineFits, Fits, Loaded, IsSimulator, Holds, Full
    <3>3. \A g \in flight : Follows(g, Ask)'
      BY <1>0, <1>i, <2>2, <2>6 DEF LineInOrder, Follows, Resumes, IsSimulator
    <3> QED
      BY <1>0, <2>3, <3>1, <3>2, <3>3 DEF Owed
  <2>8. /\ InFlight' = flight \union {output'}
        /\ LineInOrder' /\ LineFits' /\ HostKnowsDevice' /\ DeviceHoldsAsked'
    BY <1>0, <1>2, <2>2, <2>5, <2>6, <2>7, LineGrows
  <2>9. TransferTypeOK' /\ PendingIsAsked'
    BY <1>0, <1>i, <2>1, <2>5 DEF TransferTypeOK, PendingIsAsked
  <2>10. \A g : Pending(g)' <=> Pending(g)
    BY <2>1 DEF Pending
  <2>11. Pending(output')
    BY <1>0, <2>5 DEF Pending
  <2>12. CopiesAreLast'
    <3>1. \A f \in InFlight' : Pending(f) => f.type = Ask'.type /\ f.payload = Ask'.payload
      BY <1>i, <2>2, <2>5, <2>6, <2>8 DEF CopiesAreLast
    <3>2. \A k \in 1 .. Len(responses') :
            Pending(responses'[k]) => \A f \in InFlight' : Pending(f)
      BY <1>0, <1>i, <2>6, <2>8, <2>11 DEF CopiesAreLast
    <3>3. \A i, j \in 1 .. Len(requests') :
            i < j /\ Pending(requests'[i]) => Pending(requests'[j])
      BY <1>0, <1>i DEF CopiesAreLast
    <3> QED
      BY <2>1, <2>11, <3>1, <3>2, <3>3 DEF CopiesAreLast, Pending
  <2>13. AnswersAreCurrent'
    BY <1>0, <1>i, <2>1, <2>2
      DEF AnswersAreCurrent, Pending, Answers, Resumes, IsSimulator, Requested
  <2> QED
    BY <2>8, <2>9, <2>12, <2>13 DEF TransferInv, TransferLine
<1> QED
  BY <1>1, <1>2 DEF TickRetry

(* The frame in transport_output reaches the line, or is lost. *)
LEMMA FlushStep ==
  ASSUME TransferInv, FlushTransport
  PROVE  TransferInv'
<1>i. /\ TransferTypeOK /\ PendingIsAsked /\ LineInOrder /\ LineFits /\ CopiesAreLast
      /\ AnswersAreCurrent /\ HostKnowsDevice /\ DeviceHoldsAsked
  BY DEF TransferInv, TransferLine
<1>0. /\ output # NoFrame /\ output' = NoFrame
      /\ requests' \in {requests, Append(requests, output)}
      /\ UNCHANGED <<session, upgrade, asked, responses, device>>
  BY DEF FlushTransport
<1>1. requests \in Seq(Frames) /\ output \in Frames /\ Len(requests) \in Nat
  BY <1>0, <1>i DEF TransferTypeOK
<1>2. /\ requests' \in Seq(Frames)
      /\ \A i \in 1 .. Len(requests') :
           \/ i \in 1 .. Len(requests) /\ requests'[i] = requests[i]
           \/ /\ requests'[i] = output
              /\ i = Len(requests) + 1
  <2>1. CASE requests' = requests
    BY <1>1, <2>1
  <2>2. CASE requests' = Append(requests, output)
    BY <1>1, <2>2, AppendProperties
  <2> QED
    BY <1>0, <2>1, <2>2
<1>3. InFlight' \subseteq InFlight /\ Ask' = Ask /\ Requested' = Requested
  BY <1>0, <1>2 DEF InFlight, Ask, Requested
<1>4. TransferTypeOK' /\ PendingIsAsked'
  BY <1>0, <1>2, <1>i DEF TransferTypeOK, PendingIsAsked
<1>5. \A f, g : Follows(f, g)' <=> Follows(f, g)
  BY <1>0 DEF Follows, Resumes, IsSimulator
<1>6. \A i, j \in 1 .. Len(requests') : i < j => Follows(requests'[i], requests'[j])
  <2> SUFFICES ASSUME NEW i \in 1 .. Len(requests'), NEW j \in 1 .. Len(requests'), i < j
               PROVE  Follows(requests'[i], requests'[j])
    OBVIOUS
  <2>1. i \in 1 .. Len(requests) /\ requests'[i] = requests[i]
    BY <1>1, <1>2
  <2>2. CASE j \in 1 .. Len(requests) /\ requests'[j] = requests[j]
    BY <1>i, <2>1, <2>2 DEF LineInOrder
  <2>3. CASE requests'[j] = output
    BY <1>0, <1>i, <2>1, <2>3 DEF LineInOrder
  <2> QED
    BY <1>2, <2>2, <2>3
<1>7. LineInOrder'
  <2>1. (\A i, j \in 1 .. Len(requests) : i < j => Follows(requests[i], requests[j]))'
    BY <1>0, <1>6 DEF Follows, Resumes, IsSimulator
  <2>2. (UpgradeActive(upgrade) => \A f \in InFlight : Follows(f, Ask))'
    BY <1>0, <1>3, <1>i DEF LineInOrder, Follows, Resumes, IsSimulator
  <2> QED
    BY <1>0, <2>1, <2>2 DEF LineInOrder
<1>8. LineFits'
  BY <1>0, <1>3, <1>i DEF LineFits, Fits, Loaded, IsSimulator, Holds, Full
<1>9. CopiesAreLast'
  <2>0. \A g : Pending(g)' <=> Pending(g)
    BY <1>0 DEF Pending
  <2>1. \A i, j \in 1 .. Len(requests') :
          i < j /\ Pending(requests'[i]) => Pending(requests'[j])
    <3> SUFFICES ASSUME NEW i \in 1 .. Len(requests'), NEW j \in 1 .. Len(requests'), i < j,
                        Pending(requests'[i])
                 PROVE  Pending(requests'[j])
      OBVIOUS
    <3>1. i \in 1 .. Len(requests) /\ requests'[i] = requests[i]
      BY <1>1, <1>2
    <3>2. CASE j \in 1 .. Len(requests) /\ requests'[j] = requests[j]
      BY <1>i, <3>1, <3>2 DEF CopiesAreLast
    <3>3. CASE requests'[j] = output
      BY <1>0, <1>i, <3>1, <3>3 DEF CopiesAreLast
    <3> QED
      BY <1>2, <3>2, <3>3
  <2>2. (\A i, j \in 1 .. Len(requests) :
           i < j /\ Pending(requests[i]) => Pending(requests[j]))'
    BY <1>0, <2>1 DEF Pending
  <2>3. (\A f \in InFlight : Pending(f) => f.type = Ask.type /\ f.payload = Ask.payload)'
    BY <1>3, <1>i, <2>0 DEF CopiesAreLast
  <2>4. (\A k \in 1 .. Len(responses) :
           Pending(responses[k]) => \A f \in InFlight : Pending(f))'
    BY <1>0, <1>3, <1>i DEF CopiesAreLast, Pending
  <2> QED
    BY <1>0, <2>2, <2>3, <2>4 DEF CopiesAreLast
<1>10. AnswersAreCurrent'
  BY <1>0, <1>3, <1>i DEF AnswersAreCurrent, Pending, Answers, Resumes, IsSimulator
<1>11. HostKnowsDevice'
  BY <1>0, <1>3, <1>i DEF HostKnowsDevice, HostKnows, Loaded, IsSimulator, Holds
<1>12. DeviceHoldsAsked'
  BY <1>0, <1>i DEF DeviceHoldsAsked, Loaded, IsSimulator, Holds
<1> QED
  BY <1>4, <1>7, <1>8, <1>9, <1>10, <1>11, <1>12 DEF TransferInv, TransferLine

(* After a failure the host asks nothing and knows only what it asked for. *)
LEMMA NothingOwed ==
  ASSUME NEW flight, upgrade' \in UpgradeRecords, upgrade'.state = "ERROR",
         Requested' \in asked'
  PROVE  Owed(flight)
<1>1. HostKnows(flight)'
  BY DEF HostKnows
<1>2. ~UpgradeActive(upgrade')
  BY DEF UpgradeActive
<1> QED
  BY <1>1, <1>2 DEF Owed

LEMMA FailedUpgrade ==
  ASSUME NEW u \in UpgradeRecords
  PROVE  /\ Fail(u) \in UpgradeRecords /\ Fail(u).state = "ERROR"
         /\ Fail(u).image = u.image /\ Fail(u).version = u.version
  BY DEF Fail, UpgradeRecords, UpgradeStates

LEMMA RecoveredUpgrade ==
  ASSUME NEW u \in UpgradeRecords
  PROVE  /\ BeginRecovery(u) \in UpgradeRecords /\ BeginRecovery(u).state = "RECOVER"
         /\ BeginRecovery(u).image = u.image /\ BeginRecovery(u).version = u.version
         /\ BeginRecovery(u).session_id = u.session_id
         /\ BeginRecovery(u).offset = u.offset
         /\ BeginRecovery(u).last_chunk_end = u.last_chunk_end
<1>1. "RECOVER" \in UpgradeStates \ {"VALIDATING"} /\ u.recovery_attempts + 1 \in Nat
  BY DEF UpgradeStates, UpgradeRecords
<1> QED
  BY <1>1 DEF BeginRecovery, UpgradeRecords

LEMMA FirstUpgrade ==
  InitialUpgrade \in UpgradeRecords
<1>1. "IDLE" \in UpgradeStates \ {"VALIDATING"} /\ 0 \in Nat
  BY DEF UpgradeStates
<1>2. NoImage \in Seq(Nat) /\ NoVersion \in Versions
  BY DEF NoImage, Versions
<1> QED
  BY <1>1, <1>2 DEF UpgradeRecords, InitialUpgrade

LEMMA StartedUpgrade ==
  ASSUME NEW next \in Upgrades, NEW v
  PROVE  LET u == StartUpgrade(v, next.image, next.version)
         IN  /\ u \in UpgradeRecords /\ u.state = "ENTER_BOOTLOADER"
             /\ u.image = next.image /\ u.version = next.version
             /\ [image |-> u.image, version |-> u.version] = next
<1> DEFINE u == StartUpgrade(v, next.image, next.version)
<1>1. next.image \in Seq(Nat) /\ next.version \in Versions
      /\ next = [image |-> next.image, version |-> next.version]
  BY TransferAssumption DEF Versions
<1>2. /\ u \in UpgradeRecords /\ u.state = "ENTER_BOOTLOADER"
      /\ u.image = next.image /\ u.version = next.version
  <2>1. "ENTER_BOOTLOADER" \in UpgradeStates \ {"VALIDATING"}
    BY DEF UpgradeStates
  <2> QED
    BY <1>1, <2>1, FirstUpgrade DEF UpgradeRecords, StartUpgrade
<1> HIDE DEF u
<1>3. [image |-> u.image, version |-> u.version] = next
  BY <1>1, <1>2
<1> QED
  BY <1>2, <1>3 DEF u

(* A validated image. *)
LEMMA StartStep ==
  ASSUME TransferInv, SequenceIsFresh, StartTransfer
  PROVE  TransferInv'
<1>i. TransferTypeOK /\ PendingIsAsked
  BY DEF TransferInv, TransferLine
<1>0. ~UpgradeActive(upgrade) /\ UNCHANGED <<requests, responses, device>>
  BY DEF StartTransfer
<1>1. PICK next \in Upgrades :
        /\ asked' = asked \union {next}
        /\ LET u == StartUpgrade(upgrade, next.image, next.version)
               s == Transition(session, "START_UPGRADE")
           IN  \/ Queue(s, u) /\ upgrade_result' = "OK"
               \/ /\ ~CanQueue(s, u)
                  /\ Finish(NotQueued(s, u), Fail(u), "BUSY")
                  /\ UNCHANGED output
  BY DEF StartTransfer
<1> DEFINE u == StartUpgrade(upgrade, next.image, next.version)
           s == Transition(session, "START_UPGRADE")
<1>2. /\ u \in UpgradeRecords /\ u.state = "ENTER_BOOTLOADER"
      /\ u.image = next.image /\ u.version = next.version
      /\ [image |-> u.image, version |-> u.version] = next
  BY StartedUpgrade
<1>3. session \in Sessions
  BY <1>i DEF TransferTypeOK
<1>4. /\ s \in Sessions /\ s.pending = session.pending
      /\ s.next_sequence = session.next_sequence
  BY <1>3, TransitedSession
<1>5. asked' \subseteq Upgrades /\ asked \subseteq asked' /\ next \in asked'
  BY <1>1, <1>i DEF TransferTypeOK
<1>6. \/ Queue(s, u)
      \/ Finish(NotQueued(s, u), Fail(u), "BUSY") /\ UNCHANGED output
  BY <1>1
<1> HIDE DEF u, s
<1>7. PICK flight : flight = InFlight
  OBVIOUS
<1>8. CASE Queue(s, u)
  <2>1. upgrade' = u /\ CanBegin(s)
    BY <1>2, <1>8 DEF Queue, CanQueue, Built
  <2>3. Owed(flight)
    <3>1. Requested' = next
      BY <1>2, <2>1 DEF Requested
    <3>2. HostKnows(flight)'
      BY <1>2, <1>5, <2>1, <3>1 DEF HostKnows
    <3>3. Ask'.type = "ENTER_BOOTLOADER"
      BY <1>2, <2>1 DEF Ask, RequestType
    <3>4. Fits(Ask)'
      BY <3>3 DEF Fits, InSession, Finishing
    <3>5. \A g \in flight : Follows(g, Ask)'
      BY <3>3 DEF Follows, Behind
    <3> QED
      BY <1>2, <2>1, <3>2, <3>4, <3>5 DEF Owed
  <2> QED
    BY <1>0, <1>2, <1>4, <1>5, <1>7, <1>8, <2>3, HostQueues
<1>9. CASE Finish(NotQueued(s, u), Fail(u), "BUSY") /\ UNCHANGED output
  <2>1. Idle(session')
    BY <1>4, <1>9, NothingQueued, FinishedSession
  <2>2. upgrade' = Fail(u)
    BY <1>9 DEF Finish
  <2>3. Owed(flight)
    BY <1>2, <1>5, <2>2, FailedUpgrade, NothingOwed DEF Requested
  <2> QED
    BY <1>0, <1>5, <1>7, <1>9, <2>1, <2>3, HostRests
<1> QED
  BY <1>6, <1>8, <1>9

(* The last deadline of a request. *)
LEMMA ExhaustedStep ==
  ASSUME TransferInv, SequenceIsFresh, TickExhausted
  PROVE  TransferInv'
<1>i. TransferTypeOK /\ PendingIsAsked /\ HostKnowsDevice /\ LineInOrder
  BY DEF TransferInv, TransferLine
<1>0. session.pending.active /\ UNCHANGED <<asked, requests, responses, device>>
  BY DEF TickExhausted, Due
<1>a. upgrade \in UpgradeRecords /\ Requested \in asked /\ asked \subseteq Upgrades
  BY <1>0, <1>i DEF PendingIsAsked, UpgradeActive, HostKnowsDevice, HostKnows, TransferTypeOK
<1> DEFINE s == Expire(session)
           u == IF CanRecover(upgrade) THEN BeginRecovery(upgrade) ELSE upgrade
           ended == IF CanRecover(upgrade) THEN NotQueued(s, u) ELSE s
<1>1. Idle(s) /\ s \in Sessions /\ s.next_sequence = session.next_sequence
  BY <1>i, CancelledSession DEF TransferTypeOK, Idle, Expire
<1>2. \/ CanRecover(upgrade) /\ Queue(s, u)
      \/ Finish(ended, Fail(u), "TIMEOUT") /\ UNCHANGED output
  BY DEF TickExhausted
<1>3. /\ u \in UpgradeRecords /\ u.image = upgrade.image /\ u.version = upgrade.version
      /\ u.session_id = upgrade.session_id /\ u.offset = upgrade.offset
      /\ u.last_chunk_end = upgrade.last_chunk_end
      /\ CanRecover(upgrade) => u.state = "RECOVER"
  <2>1. CASE CanRecover(upgrade)
    BY <1>a, <2>1, RecoveredUpgrade
  <2>2. CASE ~CanRecover(upgrade)
    BY <1>a, <2>2
  <2> QED
    BY <2>1, <2>2
<1> HIDE DEF s, u
<1>4. Idle(ended)
  BY <1>1, NothingQueued
<1> HIDE DEF ended
<1>5. PICK flight : flight = InFlight
  OBVIOUS
<1>6. CASE CanRecover(upgrade) /\ Queue(s, u)
  <2>1. upgrade' = u
    BY <1>3, <1>6 DEF Queue, Built
  <2>2. Requested' = Requested
    BY <1>3, <2>1 DEF Requested
  <2>3. upgrade.state \in {"TRANSFER", "RECOVER"}
    BY <1>6 DEF CanRecover
  <2>4. Ask'.type = "FW_STATUS" /\ Ask'.payload = [session_id |-> upgrade.session_id]
    BY <1>3, <1>6, <2>1 DEF Ask, RequestType, RequestPayload
  <2>5. Loaded /\ device.sid = upgrade.session_id
    BY <1>i, <2>3 DEF HostKnowsDevice, HostKnows
  <2>6. Fits(Ask)'
    BY <1>0, <2>4, <2>5 DEF Fits, InSession, Finishing, Loaded, IsSimulator
  <2>7. \A g \in flight : Follows(g, Ask)'
    <3> SUFFICES ASSUME NEW g \in flight PROVE Follows(g, Ask)'
      OBVIOUS
    <3>1. Follows(g, Ask) /\ Ask.type \in {"FW_DATA", "FW_STATUS"}
      BY <1>5, <1>i, <2>3, AskTypes DEF LineInOrder, UpgradeActive
    <3>2. g.type \in {"FW_BEGIN", "FW_DATA", "FW_STATUS"}
      BY <3>1 DEF Follows, Behind
    <3>3. g.type = "FW_BEGIN" => Resumes(g.payload)
      BY <3>1 DEF Follows
    <3> QED
      BY <1>0, <2>4, <3>2, <3>3 DEF Follows, Behind, Resumes, IsSimulator
  <2>8. HostKnows(flight)'
    <3>1. ChunkEnd(u) = ChunkEnd(upgrade)
      BY <1>3 DEF ChunkEnd
    <3>2. (Loaded' <=> Loaded) /\ (Holds(Requested)' <=> Holds(Requested))
      BY <1>0, <2>2 DEF Loaded, IsSimulator, Holds
    <3> QED
      BY <1>0, <1>3, <1>5, <1>6, <1>a, <1>i, <2>1, <2>2, <2>3, <3>1, <3>2
        DEF HostKnowsDevice, HostKnows
  <2>9. Owed(flight)
    BY <1>3, <2>1, <2>6, <2>7, <2>8 DEF Owed
  <2>10. [image |-> u.image, version |-> u.version] \in Upgrades
    BY <1>3, <1>a DEF Requested
  <2> QED
    BY <1>0, <1>1, <1>3, <1>5, <1>6, <1>a, <2>9, <2>10, HostQueues
<1>7. CASE Finish(ended, Fail(u), "TIMEOUT") /\ UNCHANGED output
  <2>1. Idle(session')
    BY <1>4, <1>7, FinishedSession
  <2>2. upgrade' = Fail(u)
    BY <1>7 DEF Finish
  <2>3. Owed(flight)
    <3>1. /\ Fail(u) \in UpgradeRecords /\ Fail(u).state = "ERROR"
          /\ Fail(u).image = u.image /\ Fail(u).version = u.version
      BY <1>3, FailedUpgrade
    <3>2. Requested' = Requested
      BY <1>3, <2>2, <3>1 DEF Requested
    <3> QED
      BY <1>0, <1>a, <2>2, <3>1, <3>2, NothingOwed
  <2> QED
    BY <1>0, <1>5, <1>7, <1>a, <2>1, <2>3, HostRests
<1> QED
  BY <1>2, <1>6, <1>7

(***************************************************************************)
(* A response                                                              *)
(***************************************************************************)
(* A response that completes nothing. *)
LEMMA IgnoredStep ==
  ASSUME TransferInv, responses # <<>>, responses' = Tail(responses),
         UNCHANGED <<session, upgrade, asked, output, requests, device>>
  PROVE  TransferInv'
<1>i. /\ TransferTypeOK /\ PendingIsAsked /\ LineInOrder /\ LineFits /\ CopiesAreLast
      /\ AnswersAreCurrent /\ HostKnowsDevice /\ DeviceHoldsAsked
  BY DEF TransferInv, TransferLine
<1>0. /\ responses' \in Seq(Replies)
      /\ \A k \in 1 .. Len(responses') :
           \E m \in 1 .. Len(responses) : responses'[k] = responses[m]
  BY <1>i, FewerResponses DEF TransferTypeOK
<1>1. TransferTypeOK' /\ PendingIsAsked'
  BY <1>0, <1>i DEF TransferTypeOK, PendingIsAsked
<1>2. InFlight' = InFlight /\ Ask' = Ask /\ Requested' = Requested
  BY DEF InFlight, Ask, Requested
<1>3. LineInOrder'
  BY <1>2, <1>i DEF LineInOrder, Follows, Resumes, IsSimulator
<1>4. LineFits'
  BY <1>2, <1>i DEF LineFits, Fits, Loaded, IsSimulator, Holds, Full
<1>5. CopiesAreLast'
  <2>1. (\A k \in 1 .. Len(responses) :
           Pending(responses[k]) => \A f \in InFlight : Pending(f))'
    BY <1>0, <1>2, <1>i DEF CopiesAreLast, Pending
  <2> QED
    BY <1>2, <1>i, <2>1 DEF CopiesAreLast, Pending
<1>6. AnswersAreCurrent'
  BY <1>0, <1>2, <1>i DEF AnswersAreCurrent, Pending, Answers, Resumes, IsSimulator
<1>7. HostKnowsDevice'
  BY <1>2, <1>i DEF HostKnowsDevice, HostKnows, Loaded, IsSimulator, Holds
<1>8. DeviceHoldsAsked'
  BY <1>i DEF DeviceHoldsAsked, Loaded, IsSimulator, Holds
<1> QED
  BY <1>1, <1>3, <1>4, <1>5, <1>6, <1>7, <1>8 DEF TransferInv, TransferLine

(* A device that resumes the announced image holds a beginning of it. *)
LEMMA ResumedIsHeld ==
  ASSUME CrcTellsApart, TransferTypeOK, DeviceHoldsAsked,
         NEW next \in asked, Resumes(Announced(next))
  PROVE  Loaded /\ Holds(next)
<1>1. /\ Loaded /\ device.size = Len(next.image) /\ device.crc = Crc(next.image)
      /\ device.pending_version = next.version
  BY DEF Resumes, SameImage, Stm32SameImage, Announced, Loaded
<1>2. PICK other \in asked : Holds(other)
  BY <1>1 DEF DeviceHoldsAsked
<1>3. other \in Upgrades /\ next \in Upgrades
  BY DEF TransferTypeOK
<1>4. other.image = next.image
  BY <1>1, <1>2, <1>3 DEF CrcTellsApart, Holds
<1> QED
  BY <1>1, <1>2, <1>4 DEF Holds

LEMMA ResumedUpgrade ==
  ASSUME NEW v \in UpgradeRecords
  PROVE  /\ Resume(v) \in UpgradeRecords
         /\ Resume(v).image = v.image /\ Resume(v).version = v.version
         /\ Resume(v).session_id = v.session_id /\ Resume(v).offset = v.offset
         /\ Resume(v).state \in {"TRANSFER", "END"}
         /\ Resume(v).state = "TRANSFER" <=> v.offset # Len(v.image)
<1>1. "TRANSFER" \in UpgradeStates \ {"VALIDATING"} /\ "END" \in UpgradeStates \ {"VALIDATING"}
  BY DEF UpgradeStates
<1> QED
  BY <1>1 DEF Resume, UpgradeRecords

(* The upgrade after the answer to its request. *)
Moved(u) ==
  /\ u \in UpgradeRecords /\ u.image = upgrade.image /\ u.version = upgrade.version
  /\ \/ u.state = "ERROR"
     \/ upgrade.state = "ENTER_BOOTLOADER" /\ u.state = "BEGIN"
     \/ /\ upgrade.state \in {"BEGIN", "TRANSFER", "RECOVER"}
        /\ u.state \in {"TRANSFER", "END"}
        /\ u.state = "TRANSFER" <=> u.offset # Len(u.image)
        /\ Loaded /\ Holds(Requested)
        /\ u.session_id = device.sid /\ u.offset = device.offset
        /\ upgrade.state = "BEGIN" => Resumes(Ask.payload)
        /\ upgrade.state = "TRANSFER" => u.offset = upgrade.last_chunk_end
     \/ /\ \/ upgrade.state = "END" /\ u.state = "VERIFY"
           \/ upgrade.state = "VERIFY" /\ u.state = "ACTIVATE"
        /\ u.session_id = upgrade.session_id
     \/ upgrade.state = "ACTIVATE" /\ u.state = "REBOOT" /\ device.active = Requested
     \/ upgrade.state = "REBOOT" /\ u.state = "COMPLETE"

LEMMA AcceptedResponse ==
  ASSUME CrcTellsApart, TransferInv, UpgradeActive(upgrade),
         NEW r, Answers(r)
  PROVE  Moved(AcceptResponse(upgrade, RequestType(upgrade), r))
<1> DEFINE u == AcceptResponse(upgrade, RequestType(upgrade), r)
<1>i. TransferTypeOK /\ HostKnowsDevice /\ DeviceHoldsAsked
  BY DEF TransferInv, TransferLine
<1>1. upgrade \in UpgradeRecords /\ Requested \in asked /\ Requested.image = upgrade.image
      /\ Requested.version = upgrade.version
  BY <1>i DEF TransferTypeOK, HostKnowsDevice, HostKnows, UpgradeActive, Requested
<1>2. device.sid \in Nat /\ device.offset \in Nat
  BY <1>i DEF TransferTypeOK, Simulators, Boards
<1>s. \A state \in UpgradeStates \ {"VALIDATING"} :
        LET v == [upgrade EXCEPT !.state = state]
        IN  /\ v \in UpgradeRecords /\ v.image = upgrade.image
            /\ v.version = upgrade.version /\ v.state = state
            /\ v.session_id = upgrade.session_id
  BY <1>1 DEF UpgradeRecords
<1>m. ASSUME NEW v \in UpgradeRecords, v.image = upgrade.image, v.version = upgrade.version
      PROVE  Moved(Fail(v))
  BY <1>m, FailedUpgrade DEF Moved
<1>3. CASE r.type = "NACK"
  <2>1. u = Fail(upgrade)
    BY <1>3 DEF AcceptResponse
  <2> QED
    BY <1>1, <1>m, <2>1
<1>4. CASE r.type # "NACK"
  <2>0. r.type = Ask.type /\ r.type = RequestType(upgrade) /\ r.type \notin {"NACK", "ERROR"}
    BY <1>4 DEF Answers, Ask, RequestType
  <2>t. upgrade.state \in UpgradeStates /\ upgrade.state # "VALIDATING"
    BY <1>1 DEF UpgradeRecords
  <2>1. CASE upgrade.state = "ENTER_BOOTLOADER"
    <3>1. u = [upgrade EXCEPT !.state = "BEGIN"]
      BY <2>0, <2>1 DEF AcceptResponse, RequestType
    <3>2. "BEGIN" \in UpgradeStates \ {"VALIDATING"}
      BY DEF UpgradeStates
    <3> QED
      BY <1>s, <2>1, <3>1, <3>2 DEF Moved
  <2>2. CASE upgrade.state = "BEGIN"
    <3>1. r.type = "FW_BEGIN" /\ Ask.payload = Announced(Requested)
      BY <2>0, <2>2 DEF Ask, RequestType, RequestPayload, Announced, Requested
    <3>2. r.payload = <<device.sid, device.offset>> /\ Resumes(Ask.payload)
      BY <3>1 DEF Answers
    <3>3. Loaded /\ Holds(Requested)
      BY <1>1, <1>i, <3>1, <3>2, ResumedIsHeld
    <3> DEFINE begun == [upgrade EXCEPT !.session_id = r.payload[1], !.offset = r.payload[2]]
    <3>4. /\ begun \in UpgradeRecords /\ begun.image = upgrade.image
          /\ begun.version = upgrade.version
          /\ begun.session_id = device.sid /\ begun.offset = device.offset
      <4>1. r.payload[1] = device.sid /\ r.payload[2] = device.offset
        BY <3>2
      <4>2. begun \in UpgradeRecords
        BY <1>1, <1>2, <4>1 DEF UpgradeRecords
      <4> QED
        BY <1>1, <4>1, <4>2 DEF UpgradeRecords
    <3>5. u = Resume(begun) \/ u = Fail(begun)
      <4>1. Len(r.payload) = 2
        BY <3>2
      <4> QED
        BY <2>0, <2>2, <3>1, <4>1 DEF AcceptResponse, RequestType
    <3> HIDE DEF begun, u
    <3>6. CASE u = Fail(begun)
      BY <1>m, <3>4, <3>6 DEF u
    <3>7. CASE u = Resume(begun)
      <4>1. Moved(u)
        BY <2>2, <3>2, <3>3, <3>4, <3>7, ResumedUpgrade DEF Moved
      <4> QED
        BY <4>1 DEF u
    <3> QED
      BY <3>5, <3>6, <3>7
  <2>3. CASE upgrade.state = "TRANSFER"
    <3>1. r.type = "FW_DATA"
      BY <2>0, <2>3 DEF RequestType
    <3>2. r.payload = <<device.offset>> /\ device.offset = upgrade.last_chunk_end
      BY <3>1 DEF Answers
    <3>3. Loaded /\ Holds(Requested) /\ device.sid = upgrade.session_id
      BY <1>i, <2>3 DEF HostKnowsDevice, HostKnows
    <3> DEFINE acked == [upgrade EXCEPT !.offset = r.payload[1]]
    <3>4. /\ acked \in UpgradeRecords /\ acked.image = upgrade.image
          /\ acked.version = upgrade.version
          /\ acked.session_id = device.sid /\ acked.offset = device.offset
      BY <1>1, <1>2, <3>2, <3>3, SMTT(40) DEF UpgradeRecords
    <3>5. u = Resume(acked) \/ u = Fail(acked)
      <4>1. Len(r.payload) = 1
        BY <3>2
      <4> QED
        BY <2>0, <2>3, <3>1, <4>1 DEF AcceptResponse, RequestType
    <3> HIDE DEF acked, u
    <3>6. CASE u = Fail(acked)
      BY <1>m, <3>4, <3>6 DEF u
    <3>7. CASE u = Resume(acked)
      <4>1. Moved(u)
        BY <2>3, <3>2, <3>3, <3>4, <3>7, ResumedUpgrade DEF Moved
      <4> QED
        BY <4>1 DEF u
    <3> QED
      BY <3>5, <3>6, <3>7
  <2>4. CASE upgrade.state = "RECOVER"
    <3>1. r.type = "FW_STATUS"
      BY <2>0, <2>4 DEF RequestType
    <3>2. r.payload = <<device.sid, device.offset>>
      BY <3>1 DEF Answers
    <3>3. Loaded /\ Holds(Requested) /\ device.sid = upgrade.session_id
      BY <1>i, <2>4 DEF HostKnowsDevice, HostKnows
    <3> DEFINE recovered == [upgrade EXCEPT !.offset = r.payload[2]]
    <3>4. /\ recovered \in UpgradeRecords /\ recovered.image = upgrade.image
          /\ recovered.version = upgrade.version
          /\ recovered.session_id = device.sid /\ recovered.offset = device.offset
      BY <1>1, <1>2, <3>2, <3>3, SMTT(40) DEF UpgradeRecords
    <3>5. u = Resume(recovered) \/ u = Fail(recovered)
      <4>1. Len(r.payload) = 2 /\ r.payload[1] = upgrade.session_id
        BY <3>2, <3>3
      <4> QED
        BY <2>0, <2>4, <3>1, <4>1 DEF AcceptResponse, RequestType
    <3> HIDE DEF recovered, u
    <3>6. CASE u = Fail(recovered)
      BY <1>m, <3>4, <3>6 DEF u
    <3>7. CASE u = Resume(recovered)
      <4>1. Moved(u)
        BY <2>4, <3>2, <3>3, <3>4, <3>7, ResumedUpgrade DEF Moved
      <4> QED
        BY <4>1 DEF u
    <3> QED
      BY <3>5, <3>6, <3>7
  <2>5. CASE upgrade.state = "END"
    <3>1. u = [upgrade EXCEPT !.state = "VERIFY"]
      BY <2>0, <2>5 DEF AcceptResponse, RequestType
    <3>2. "VERIFY" \in UpgradeStates \ {"VALIDATING"}
      BY DEF UpgradeStates
    <3> QED
      BY <1>s, <2>5, <3>1, <3>2 DEF Moved
  <2>6. CASE upgrade.state = "VERIFY"
    <3>1. u = [upgrade EXCEPT !.state = "ACTIVATE"] \/ u = Fail(upgrade)
      BY <2>0, <2>6 DEF AcceptResponse, RequestType
    <3>2. "ACTIVATE" \in UpgradeStates \ {"VALIDATING"}
      BY DEF UpgradeStates
    <3>3. CASE u = Fail(upgrade)
      BY <1>1, <1>m, <3>3
    <3>4. CASE u = [upgrade EXCEPT !.state = "ACTIVATE"]
      BY <1>s, <2>6, <3>2, <3>4 DEF Moved
    <3> QED
      BY <3>1, <3>3, <3>4
  <2>7. CASE upgrade.state = "ACTIVATE"
    <3>1. u = [upgrade EXCEPT !.state = "REBOOT"]
      BY <2>0, <2>7 DEF AcceptResponse, RequestType
    <3>2. "REBOOT" \in UpgradeStates \ {"VALIDATING"}
      BY DEF UpgradeStates
    <3>3. r.type = "FW_ACTIVATE"
      BY <2>0, <2>7 DEF RequestType
    <3>4. device.active = Requested
      BY <3>3 DEF Answers
    <3> QED
      BY <1>s, <2>7, <3>1, <3>2, <3>4 DEF Moved
  <2>8. CASE upgrade.state = "REBOOT"
    <3>1. u = [upgrade EXCEPT !.state = "COMPLETE"]
      BY <2>0, <2>8 DEF AcceptResponse, RequestType
    <3>2. "COMPLETE" \in UpgradeStates \ {"VALIDATING"}
      BY DEF UpgradeStates
    <3> QED
      BY <1>s, <2>8, <3>1, <3>2 DEF Moved
  <2> QED
    BY <2>t, <2>1, <2>2, <2>3, <2>4, <2>5, <2>6, <2>7, <2>8 DEF UpgradeStates, UpgradeActive
<1> QED
  BY <1>3, <1>4

(* Nothing but copies of the question is underway when it is answered, so  *)
(* what the host asks next fits the device and everything before it.       *)
LEMMA MovedOwes ==
  ASSUME TransferInv, UpgradeActive(upgrade), NEW u, Moved(u), upgrade' = Built(u),
         UNCHANGED <<device, asked>>,
         NEW flight,
         \A f \in flight : f.type = Ask.type /\ f.payload = Ask.payload
  PROVE  Owed(flight)
<1>i. TransferTypeOK /\ HostKnowsDevice /\ LineFits /\ DeviceHoldsAsked
  BY DEF TransferInv, TransferLine
<1>0. Fits(Ask) /\ Requested \in asked /\ Requested \in Upgrades
  BY <1>i DEF LineFits, HostKnowsDevice, HostKnows, UpgradeActive, TransferTypeOK
<1>1. u \in UpgradeRecords /\ u.image = upgrade.image /\ u.version = upgrade.version
  BY DEF Moved
<1>2. /\ upgrade' \in UpgradeRecords
      /\ upgrade'.state = u.state /\ upgrade'.image = u.image
      /\ upgrade'.version = u.version /\ upgrade'.session_id = u.session_id
      /\ upgrade'.offset = u.offset
      /\ u.state = "TRANSFER" => upgrade'.last_chunk_end = ChunkEnd(upgrade')
      /\ u.state = "TRANSFER" => upgrade'.last_chunk_end = ChunkEnd(u)
  BY <1>1, BuiltFacts
<1>3. Requested' = Requested /\ Requested.image = u.image
  BY <1>1, <1>2 DEF Requested
<1>4. /\ \A n : Holds(n)' <=> Holds(n)
      /\ Loaded' <=> Loaded
      /\ Full' <=> Full
      /\ \A p : Resumes(p)' <=> Resumes(p)
  BY DEF Holds, Loaded, IsSimulator, Full, Resumes
<1>5. Ask'.type = RequestType(upgrade') /\ Ask'.payload = RequestPayload(upgrade')
  BY DEF Ask
<1>6. CASE u.state = "ERROR"
  BY <1>0, <1>2, <1>3, <1>6, NothingOwed
<1>7. CASE upgrade.state = "ENTER_BOOTLOADER" /\ u.state = "BEGIN"
  <2>1. Ask.type = "ENTER_BOOTLOADER" /\ Ask'.type = "FW_BEGIN"
    BY <1>2, <1>5, <1>7, AskTypes DEF RequestType
  <2>2. Ask'.payload = Announced(Requested)
    BY <1>2, <1>3, <1>5, <1>7 DEF RequestPayload, Announced, Requested
  <2>3. Fits(Ask)'
    BY <1>0, <2>1, <2>2 DEF Fits, InSession, Finishing, Announced
  <2>4. \A g \in flight : Follows(g, Ask)'
    BY <2>1 DEF Follows, Behind
  <2>5. HostKnows(flight)'
    BY <1>0, <1>2, <1>3, <1>7 DEF HostKnows
  <2> QED
    BY <1>2, <2>3, <2>4, <2>5 DEF Owed
<1>8. CASE /\ upgrade.state \in {"BEGIN", "TRANSFER", "RECOVER"}
           /\ u.state \in {"TRANSFER", "END"}
           /\ u.state = "TRANSFER" <=> u.offset # Len(u.image)
           /\ Loaded /\ Holds(Requested)
           /\ u.session_id = device.sid /\ u.offset = device.offset
           /\ upgrade.state = "BEGIN" => Resumes(Ask.payload)
           /\ upgrade.state = "TRANSFER" => u.offset = upgrade.last_chunk_end
  <2>0. Ask.type \in {"FW_BEGIN", "FW_DATA", "FW_STATUS"} /\ Ask'.type \in {"FW_DATA", "FW_END"}
    BY <1>2, <1>5, <1>8, AskTypes DEF RequestType
  <2>1. /\ u.offset \in Nat /\ Len(u.image) \in Nat /\ u.offset <= Len(u.image)
        /\ u.state = "TRANSFER" => u.offset < Len(u.image)
    BY <1>1, <1>3, <1>8 DEF UpgradeRecords, Holds
  <2>2. \A g \in flight : Follows(g, Ask)'
    <3> SUFFICES ASSUME NEW g \in flight PROVE Follows(g, Ask)'
      OBVIOUS
    <3>1. g.type \in {"FW_BEGIN", "FW_DATA", "FW_STATUS"}
      BY <2>0
    <3>2. g.type = "FW_BEGIN" => Resumes(g.payload)'
      BY <1>4, <1>8, AskTypes
    <3> QED
      BY <2>0, <3>1, <3>2 DEF Follows, Behind, Resumes
  <2>3. \A f \in flight : f.type = "FW_DATA" =>
          f.payload.offset + Len(f.payload.data) = u.offset
    <3>1. upgrade.state = "TRANSFER" => Ask.payload.offset + Len(Ask.payload.data) = u.offset
      BY <1>8, <1>i, AskedChunk
    <3> QED
      BY <3>1, AskTypes
  <2>4. CASE u.state = "TRANSFER"
    <3>1. Ask'.type = "FW_DATA" /\ Ask'.payload.session_id = device.sid
          /\ Ask'.payload.offset = device.offset
          /\ Ask'.payload.data = Chunk(Requested, device.offset)
      BY <1>2, <1>3, <1>5, <1>8, <2>4 DEF RequestType, RequestPayload, Chunk, ChunkEnd
    <3>2. Fits(Ask)'
      BY <1>0, <1>3, <1>4, <1>8, <2>1, <2>4, <3>1 DEF Fits, InSession, Finishing
    <3>3. HostKnows(flight)'
      BY <1>0, <1>2, <1>3, <1>4, <1>8, <2>1, <2>3, <2>4 DEF HostKnows
    <3> QED
      BY <1>2, <2>2, <3>2, <3>3 DEF Owed
  <2>5. CASE u.state = "END"
    <3>1. Ask'.type = "FW_END" /\ Ask'.payload = [session_id |-> device.sid]
      BY <1>2, <1>5, <1>8, <2>5 DEF RequestType, RequestPayload
    <3>2. Full
      BY <1>3, <1>8, <2>5 DEF Full, Holds
    <3>3. Fits(Ask)'
      BY <1>4, <1>8, <3>1, <3>2 DEF Fits, InSession, Finishing
    <3>4. HostKnows(flight)'
      BY <1>0, <1>2, <1>3, <1>4, <1>8, <2>5 DEF HostKnows
    <3> QED
      BY <1>2, <2>2, <3>3, <3>4 DEF Owed
  <2> QED
    BY <1>8, <2>4, <2>5
<1>9. CASE /\ \/ upgrade.state = "END" /\ u.state = "VERIFY"
              \/ upgrade.state = "VERIFY" /\ u.state = "ACTIVATE"
           /\ u.session_id = upgrade.session_id
  <2>0. \/ Ask.type = "FW_END" /\ Ask'.type = "FW_VERIFY"
        \/ Ask.type = "FW_VERIFY" /\ Ask'.type = "FW_ACTIVATE"
    BY <1>2, <1>5, <1>9, AskTypes DEF RequestType
  <2>1. Loaded /\ Full /\ Holds(Requested) /\ device.sid = upgrade.session_id
    BY <1>0, <1>9, <1>i, <2>0 DEF HostKnowsDevice, HostKnows, Fits, Finishing
  <2>2. Ask'.payload = [session_id |-> device.sid]
    BY <1>2, <1>5, <1>9, <2>1 DEF RequestPayload
  <2>3. Fits(Ask)'
    BY <1>4, <2>0, <2>1, <2>2 DEF Fits, InSession, Finishing
  <2>4. \A g \in flight : Follows(g, Ask)'
    BY <2>0 DEF Follows, Behind
  <2>5. HostKnows(flight)'
    BY <1>0, <1>2, <1>3, <1>4, <1>9, <2>1 DEF HostKnows
  <2> QED
    BY <1>2, <2>3, <2>4, <2>5 DEF Owed
<1>10. CASE upgrade.state = "ACTIVATE" /\ u.state = "REBOOT" /\ device.active = Requested
  <2>0. Ask.type = "FW_ACTIVATE" /\ Ask'.type = "REBOOT"
    BY <1>2, <1>5, <1>10, AskTypes DEF RequestType
  <2>1. Holds(Requested)
    BY <1>10, <1>i DEF HostKnowsDevice, HostKnows
  <2>2. Fits(Ask)'
    BY <2>0 DEF Fits, InSession, Finishing
  <2>3. \A g \in flight : Follows(g, Ask)'
    BY <2>0 DEF Follows, Behind
  <2>4. HostKnows(flight)'
    BY <1>0, <1>2, <1>3, <1>4, <1>10, <2>1 DEF HostKnows
  <2> QED
    BY <1>2, <2>2, <2>3, <2>4 DEF Owed
<1>11. CASE upgrade.state = "REBOOT" /\ u.state = "COMPLETE"
  <2>0. Ask.type = "REBOOT"
    BY <1>11, AskTypes
  <2>1. device.active = Requested
    BY <1>11, <1>i DEF HostKnowsDevice, HostKnows
  <2>2. HostKnows(flight)'
    BY <1>0, <1>2, <1>3, <1>11, <2>0, <2>1 DEF HostKnows
  <2>3. ~UpgradeActive(upgrade')
    BY <1>2, <1>11 DEF UpgradeActive
  <2> QED
    BY <1>2, <2>2, <2>3 DEF Owed
<1> QED
  BY <1>6, <1>7, <1>8, <1>9, <1>10, <1>11 DEF Moved

(* The answer to the pending request, or a frame to ignore. *)
LEMMA ReplyStep ==
  ASSUME CrcTellsApart, TransferInv, SequenceIsFresh, ReadTransport
  PROVE  TransferInv'
<1>i. /\ TransferTypeOK /\ PendingIsAsked /\ CopiesAreLast
      /\ AnswersAreCurrent /\ HostKnowsDevice
  BY DEF TransferInv, TransferLine
<1>0. /\ responses # <<>> /\ responses' = Tail(responses)
      /\ UNCHANGED <<asked, requests, device>>
      /\ UpgradeReply(Head(responses)) \/ IgnoreFrame(Head(responses))
  BY DEF ReadTransport
<1>1. CASE IgnoreFrame(Head(responses))
  BY <1>0, <1>1, IgnoredStep DEF IgnoreFrame
<1>2. CASE UpgradeReply(Head(responses))
  <2> DEFINE r == Head(responses)
             u == AcceptResponse(upgrade, session.pending.type, r)
             s == Complete(session)
  <2>1. 1 \in 1 .. Len(responses) /\ r = responses[1]
    BY <1>0, <1>i, HeadTailProperties DEF TransferTypeOK
  <2>2. Pending(r)
    BY <1>2 DEF UpgradeReply, Matches, Pending
  <2>3. /\ UpgradeActive(upgrade) /\ session.pending.type = RequestType(upgrade)
        /\ Answers(r)
        /\ \A f \in InFlight : f.type = Ask.type /\ f.payload = Ask.payload
    BY <1>i, <2>1, <2>2 DEF PendingIsAsked, Pending, AnswersAreCurrent, CopiesAreLast
  <2>4. Moved(u)
    BY <2>3, AcceptedResponse
  <2>5. u \in UpgradeRecords /\ u.image = upgrade.image /\ u.version = upgrade.version
    BY <2>4 DEF Moved
  <2>6. Idle(s) /\ s \in Sessions /\ s.next_sequence = session.next_sequence
    BY <1>i, CancelledSession DEF TransferTypeOK, Idle, Complete
  <2>7. \/ /\ u.state \in {"COMPLETE", "ERROR"}
           /\ Finish(s, u, IF u.state = "COMPLETE" THEN "OK" ELSE "PROTOCOL")
           /\ UNCHANGED output
        \/ Queue(s, u)
        \/ session' = NotQueued(s, u) /\ upgrade' = Built(u) /\ UNCHANGED output
    BY <1>2 DEF UpgradeReply
  <2>8. PICK flight : flight = InFlight
    OBVIOUS
  <2>9. asked' \subseteq Upgrades /\ asked \subseteq asked'
    BY <1>0, <1>i DEF TransferTypeOK
  <2> HIDE DEF r, u, s
  <2>10. upgrade' = Built(u)
    BY <2>7 DEF Finish, Queue, Built
  <2>11. Owed(flight)
    BY <1>0, <2>3, <2>4, <2>8, <2>10, MovedOwes
  <2>12. CASE Queue(s, u)
    <3>1. [image |-> u.image, version |-> u.version] \in Upgrades
      BY <1>i, <2>3, <2>5
        DEF HostKnowsDevice, HostKnows, UpgradeActive, Requested, TransferTypeOK
    <3> QED
      BY <1>0, <2>5, <2>6, <2>8, <2>9, <2>11, <2>12, <3>1, HostQueues
  <2>13. CASE UNCHANGED output /\ Idle(session')
    BY <1>0, <2>8, <2>9, <2>11, <2>13, HostRests
  <2>14. CASE session' = NotQueued(s, u) /\ UNCHANGED output
    BY <2>6, <2>13, <2>14, NothingQueued
  <2>15. CASE /\ Finish(s, u, IF u.state = "COMPLETE" THEN "OK" ELSE "PROTOCOL")
              /\ UNCHANGED output
    BY <2>6, <2>13, <2>15, FinishedSession
  <2> QED
    BY <2>7, <2>12, <2>14, <2>15
<1> QED
  BY <1>0, <1>1, <1>2

(***************************************************************************)
(* Theorems                                                                *)
(***************************************************************************)
LEMMA DeviceAtBoot ==
  ASSUME TransferInit
  PROVE  /\ device \in Simulators \union Boards /\ ~Loaded
         /\ device.active = FactoryFirmware
<1>0. 0 \in Nat /\ 1 \in Nat /\ <<>> \in Seq(Nat) /\ 0 \in Sums
      /\ "NONE" \in Versions /\ FactoryFirmware \in Firmwares
      /\ "IDLE" \in {"IDLE", "RECEIVING", "TRANSFERRED", "VERIFIED"}
  BY DEF Sums, Versions, NoVersion, Firmwares
<1>1. BootSimulator \in Simulators
  BY <1>0 DEF BootSimulator, Simulators
<1>2. BootStm32 \in Boards
  BY <1>0 DEF BootStm32, Boards
<1>3. device = BootSimulator \/ device = BootStm32
  BY DEF TransferInit
<1>4. CASE device = BootSimulator
  <2>1. IsSimulator
    BY <1>4 DEF IsSimulator, BootSimulator
  <2> QED
    BY <1>1, <1>4, <2>1 DEF Loaded, BootSimulator
<1>5. CASE device = BootStm32
  <2>1. ~IsSimulator
    BY <1>5 DEF IsSimulator, BootStm32
  <2> QED
    BY <1>2, <1>5, <2>1 DEF Loaded, BootStm32
<1> QED
  BY <1>3, <1>4, <1>5

LEMMA TransferStarts ==
  ASSUME TransferInit
  PROVE  TransferInv
<1>0. /\ upgrade = InitialUpgrade /\ asked = {} /\ output = NoFrame
      /\ requests = <<>> /\ responses = <<>>
      /\ session = [InitialSession EXCEPT !.state = "READY"]
  BY DEF TransferInit
<1>1. session \in Sessions /\ session.pending.active = FALSE
  <2>1. NoRequest \in [active : BOOLEAN, type : RequestTypes \union {"NONE"},
                       sequence : 0 .. Modulus - 1, retries_done : Nat, max_retries : Nat]
    BY ModulusAssumption DEF NoRequest
  <2>2. InitialSession \in Sessions
    BY <2>1, ModulusAssumption DEF InitialSession, Sessions, DeviceStates, Sequences32
  <2> QED
    BY <1>0, <2>2 DEF Sessions, DeviceStates, InitialSession, NoRequest
<1>2. TransferTypeOK
  BY <1>0, <1>1, DeviceAtBoot, FirstUpgrade DEF TransferTypeOK
<1>3. InFlight = {} /\ ~UpgradeActive(upgrade) /\ upgrade.state = "IDLE"
      /\ Len(requests) = 0 /\ Len(responses) = 0
  BY <1>0 DEF InFlight, UpgradeActive, InitialUpgrade
<1>4. PendingIsAsked /\ LineInOrder /\ LineFits /\ CopiesAreLast /\ AnswersAreCurrent
  BY <1>0, <1>1, <1>3
    DEF PendingIsAsked, LineInOrder, LineFits, CopiesAreLast, AnswersAreCurrent
<1>5. HostKnowsDevice /\ DeviceHoldsAsked
  BY <1>3, DeviceAtBoot DEF HostKnowsDevice, HostKnows, DeviceHoldsAsked
<1> QED
  BY <1>2, <1>4, <1>5 DEF TransferInv, TransferLine

LEMMA TransferKept ==
  ASSUME CrcTellsApart, TransferInv, SequenceIsFresh, [TransferNext]_vars
  PROVE  TransferInv'
<1>1. CASE UNCHANGED vars
  BY <1>1, NothingChanges DEF vars, hostVars
<1>2. CASE TransferNext
  BY <1>2, StartStep, FlushStep, ReplyStep, RetryStep, ExhaustedStep, DeviceStep
    DEF TransferNext
<1> QED
  BY <1>1, <1>2

(* In every behaviour of host, line and device: what is underway stays in  *)
(* order and fits the device that will read it, an answer the host waits   *)
(* for still says the truth when it is read, and the host knows which part *)
(* of the image the device holds.  Checksums must tell the images of one   *)
(* length apart, and no frame may outlive its sequence number.             *)
THEOREM TransferInvariance ==
  CrcTellsApart => (TransferSpec /\ []SequenceIsFresh => []TransferInv)
<1> SUFFICES ASSUME CrcTellsApart
             PROVE  TransferSpec /\ []SequenceIsFresh => []TransferInv
  OBVIOUS
<1>1. TransferInit => TransferInv
  BY TransferStarts
<1>2. TransferInv /\ SequenceIsFresh /\ [TransferNext]_vars => TransferInv'
  BY TransferKept
<1> QED
  BY <1>1, <1>2, PTL DEF TransferSpec

LEMMA PrefixInFlash ==
  ASSUME TransferInv
  PROVE  FlashIsPrefix
<1> SUFFICES ASSUME Receiving
             PROVE  \E next \in Upgrades :
                      /\ Crc(next.image) = device.crc
                      /\ next.version = device.pending_version
                      /\ device.flash = SubSeq(next.image, 1, device.offset)
  BY DEF FlashIsPrefix
<1>1. Loaded
  BY DEF Receiving, Loaded
<1>2. PICK next \in asked : Holds(next)
  BY <1>1 DEF TransferInv, TransferLine, DeviceHoldsAsked
<1>3. next \in Upgrades
  BY DEF TransferInv, TransferTypeOK
<1> QED
  BY <1>2, <1>3 DEF Holds

(* The flash of a device that receives holds a beginning of the image that *)
(* was announced: no chunk twice, none missing, none of another image.     *)
THEOREM FlashHoldsPrefix ==
  CrcTellsApart => (TransferSpec /\ []SequenceIsFresh => []FlashIsPrefix)
<1> SUFFICES ASSUME CrcTellsApart
             PROVE  TransferSpec /\ []SequenceIsFresh => []FlashIsPrefix
  OBVIOUS
<1>1. TransferInv => FlashIsPrefix
  BY PrefixInFlash
<1>2. TransferSpec /\ []SequenceIsFresh => []TransferInv
  BY TransferInvariance
<1> QED
  BY <1>1, <1>2, PTL

LEMMA DeviceIsFollowed ==
  ASSUME TransferInv
  PROVE  HostFollowsDevice
<1> SUFFICES ASSUME upgrade.state \in {"TRANSFER", "RECOVER"}
             PROVE  /\ device.sid = upgrade.session_id
                    /\ upgrade.offset <= device.offset
                    /\ \/ device.offset <= upgrade.last_chunk_end
                       \/ device.offset = upgrade.offset
  BY DEF HostFollowsDevice
<1>1. TransferTypeOK /\ HostKnowsDevice
  BY DEF TransferInv, TransferLine
<1>2. /\ upgrade.offset \in Nat /\ upgrade.last_chunk_end \in Nat
      /\ upgrade.offset < upgrade.last_chunk_end
  BY <1>1, AskedChunk
<1> QED
  BY <1>1, <1>2 DEF HostKnowsDevice, HostKnows

(* During a transfer and a recovery the device is in the host's session,   *)
(* never behind what the host takes for acknowledged and never more than   *)
(* the chunk in question ahead of it.                                      *)
THEOREM HostKeepsPace ==
  CrcTellsApart => (TransferSpec /\ []SequenceIsFresh => []HostFollowsDevice)
<1> SUFFICES ASSUME CrcTellsApart
             PROVE  TransferSpec /\ []SequenceIsFresh => []HostFollowsDevice
  OBVIOUS
<1>1. TransferInv => HostFollowsDevice
  BY DeviceIsFollowed
<1>2. TransferSpec /\ []SequenceIsFresh => []TransferInv
  BY TransferInvariance
<1> QED
  BY <1>1, <1>2, PTL

LEMMA WholeImageVerified ==
  ASSUME TransferInv
  PROVE  VerifyReadsWrittenFlash
<1> SUFFICES ASSUME NEW i \in 1 .. Len(requests), requests[i].type = "FW_VERIFY"
             PROVE  Len(device.flash) = device.size
  BY DEF VerifyReadsWrittenFlash
<1>1. Fits(requests[i])
  BY DEF TransferInv, TransferLine, LineFits, InFlight
<1>2. Loaded /\ Full
  BY <1>1 DEF Fits, InSession, Finishing
<1>3. PICK next \in asked : Holds(next)
  BY <1>2 DEF TransferInv, TransferLine, DeviceHoldsAsked
<1>4. next.image \in Seq(Nat)
  BY TransferAssumption DEF TransferInv, TransferTypeOK
<1>5. device.flash = SubSeq(next.image, 1, Len(next.image)) /\ device.size = Len(next.image)
  BY <1>2, <1>3 DEF Holds, Full
<1> QED
  BY <1>4, <1>5, SubSeqFull

(* An FW_VERIFY on its way finds every byte of the flash written, so that  *)
(* the simulator's CRC never reads the uninitialised part of its buffer.   *)
THEOREM VerifyFindsImage ==
  CrcTellsApart => (TransferSpec /\ []SequenceIsFresh => []VerifyReadsWrittenFlash)
<1> SUFFICES ASSUME CrcTellsApart
             PROVE  TransferSpec /\ []SequenceIsFresh => []VerifyReadsWrittenFlash
  OBVIOUS
<1>1. TransferInv => VerifyReadsWrittenFlash
  BY WholeImageVerified
<1>2. TransferSpec /\ []SequenceIsFresh => []TransferInv
  BY TransferInvariance
<1> QED
  BY <1>1, <1>2, PTL

(***************************************************************************)
(* The promise                                                             *)
(***************************************************************************)
(* The device runs another firmware only while an upgrade is in progress   *)
(* or after one has failed, and then one that was asked for.               *)
LEMMA SwitchIsPromised ==
  ASSUME TransferInv, DeviceHandles
  PROVE  Promised!Switch \/ UNCHANGED Promised!installVars
<1>i. TransferTypeOK /\ LineFits /\ HostKnowsDevice /\ DeviceHoldsAsked
  BY DEF TransferInv, TransferLine
<1>0. requests # <<>> /\ UNCHANGED <<upgrade, asked>>
  BY DEF DeviceHandles, hostVars
<1> DEFINE f == Head(requests)
<1>1. f \in Frames /\ f \in InFlight
  BY <1>0, <1>i, HeadTailProperties DEF TransferTypeOK, InFlight
<1>2. Fits(f)
  BY <1>1, <1>i DEF LineFits
<1>3. PICK r : Effect(f, r)
  BY <1>1, <1>2, <1>i, DeviceEffect DEF DeviceHandles
<1> HIDE DEF f
<1>4. Status' = Status /\ Requested' = Requested /\ asked' = asked
  BY <1>0 DEF Status, Requested
<1>5. CASE device'.active = device.active
  BY <1>4, <1>5 DEF Promised!installVars
<1>6. CASE f.type = "FW_ACTIVATE" /\ Switching
  <2>1. Loaded /\ Full
    BY <1>2, <1>6 DEF Fits, InSession, Finishing
  <2>2. device'.active \in asked
    BY <1>6, <1>i, <2>1, HeldFirmware DEF Switching
  <2>3. upgrade.state \notin {"IDLE", "COMPLETE"}
    BY <1>1, <1>6, <1>i DEF HostKnowsDevice, HostKnows
  <2>4. Status \in {"RUNNING", "ERROR"}
    BY <2>3 DEF Status, UpgradeActive
  <2> QED
    BY <1>4, <2>2, <2>4 DEF Promised!Switch
<1> QED
  BY <1>3, <1>5, <1>6 DEF Effect, Untouched, Erasing, Writing, Leaving

LEMMA StartIsPromised ==
  ASSUME TransferInv, StartTransfer
  PROVE  \E firmware \in Upgrades : Promised!Request(firmware)
<1>0. ~UpgradeActive(upgrade) /\ UNCHANGED device
  BY DEF StartTransfer
<1>1. PICK next \in Upgrades :
        /\ asked' = asked \union {next}
        /\ LET u == StartUpgrade(upgrade, next.image, next.version)
               s == Transition(session, "START_UPGRADE")
           IN  \/ Queue(s, u) /\ upgrade_result' = "OK"
               \/ /\ ~CanQueue(s, u)
                  /\ Finish(NotQueued(s, u), Fail(u), "BUSY")
                  /\ UNCHANGED output
  BY DEF StartTransfer
<1> DEFINE u == StartUpgrade(upgrade, next.image, next.version)
<1>2. /\ u \in UpgradeRecords /\ u.state = "ENTER_BOOTLOADER"
      /\ u.image = next.image /\ u.version = next.version
      /\ [image |-> u.image, version |-> u.version] = next
  BY StartedUpgrade
<1>3. upgrade' = Built(u) \/ upgrade' = Fail(u)
  BY <1>1 DEF Queue, Finish
<1> HIDE DEF u
<1>4. /\ upgrade'.image = u.image /\ upgrade'.version = u.version
      /\ upgrade'.state \in {"ENTER_BOOTLOADER", "ERROR"}
  BY <1>2, <1>3, BuiltFacts, FailedUpgrade
<1>5. Requested' = next
  BY <1>2, <1>4 DEF Requested
<1>6. Status' \in {"RUNNING", "ERROR"}
  BY <1>4 DEF Status, UpgradeActive
<1>7. Status # "RUNNING"
  BY <1>0 DEF Status, UpgradeActive, TransferInv, TransferTypeOK, UpgradeRecords, UpgradeStates
<1> QED
  BY <1>0, <1>1, <1>5, <1>6, <1>7 DEF Promised!Request

LEMMA ReplyIsPromised ==
  ASSUME CrcTellsApart, TransferInv, ReadTransport
  PROVE  Promised!Succeed \/ Promised!GiveUp \/ UNCHANGED Promised!installVars
<1>i. /\ TransferTypeOK /\ PendingIsAsked /\ AnswersAreCurrent /\ HostKnowsDevice
  BY DEF TransferInv, TransferLine
<1>0. /\ responses # <<>> /\ UNCHANGED <<asked, device>>
      /\ UpgradeReply(Head(responses)) \/ IgnoreFrame(Head(responses))
  BY DEF ReadTransport
<1>1. CASE IgnoreFrame(Head(responses))
  BY <1>0, <1>1 DEF IgnoreFrame, Promised!installVars, Status, Requested
<1>2. CASE UpgradeReply(Head(responses))
  <2> DEFINE r == Head(responses)
             u == AcceptResponse(upgrade, session.pending.type, r)
  <2>1. 1 \in 1 .. Len(responses) /\ r = responses[1]
    BY <1>0, <1>i, HeadTailProperties DEF TransferTypeOK
  <2>2. Pending(r)
    BY <1>2 DEF UpgradeReply, Matches, Pending
  <2>3. /\ UpgradeActive(upgrade) /\ session.pending.type = RequestType(upgrade)
        /\ Answers(r)
    BY <1>i, <2>1, <2>2 DEF PendingIsAsked, Pending, AnswersAreCurrent
  <2>4. Moved(u)
    BY <2>3, AcceptedResponse
  <2>5. upgrade' = Built(u)
    <3>1. \/ upgrade' = u /\ u.state \in {"COMPLETE", "ERROR"}
          \/ upgrade' = Built(u)
      BY <1>2 DEF UpgradeReply, Finish, Queue
    <3> QED
      BY <3>1 DEF Built
  <2> HIDE DEF r, u
  <2>6. /\ u \in UpgradeRecords /\ u.image = upgrade.image /\ u.version = upgrade.version
        /\ upgrade'.state = u.state /\ Requested' = Requested
    BY <2>4, <2>5, BuiltFacts DEF Moved, Requested
  <2>7. Status = "RUNNING"
    BY <2>3 DEF Status
  <2>8. CASE u.state = "ERROR"
    BY <1>0, <2>6, <2>7, <2>8 DEF Status, UpgradeActive, Promised!GiveUp
  <2>9. CASE upgrade.state = "REBOOT" /\ u.state = "COMPLETE"
    <3>1. device.active = Requested
      BY <1>i, <2>9 DEF HostKnowsDevice, HostKnows
    <3> QED
      BY <1>0, <2>6, <2>7, <2>9, <3>1 DEF Status, UpgradeActive, Promised!Succeed
  <2>10. CASE UpgradeActive(u)
    BY <1>0, <2>6, <2>7, <2>10 DEF Status, UpgradeActive, Promised!installVars
  <2> QED
    BY <2>4, <2>8, <2>9, <2>10 DEF Moved, UpgradeActive
<1> QED
  BY <1>0, <1>1, <1>2

LEMMA TimeoutIsPromised ==
  ASSUME TransferInv, TickExhausted
  PROVE  Promised!GiveUp \/ UNCHANGED Promised!installVars
<1>0. session.pending.active /\ UNCHANGED <<asked, device>>
  BY DEF TickExhausted, Due
<1>1. UpgradeActive(upgrade) /\ upgrade \in UpgradeRecords
  BY <1>0 DEF TransferInv, TransferLine, PendingIsAsked, TransferTypeOK
<1> DEFINE u == IF CanRecover(upgrade) THEN BeginRecovery(upgrade) ELSE upgrade
<1>2. u \in UpgradeRecords /\ u.image = upgrade.image /\ u.version = upgrade.version
      /\ UpgradeActive(u)
  BY <1>1, RecoveredUpgrade DEF UpgradeActive
<1>3. upgrade' = Built(u) \/ upgrade' = Fail(u)
  BY DEF TickExhausted, Queue, Finish
<1> HIDE DEF u
<1>4. Status = "RUNNING"
  BY <1>1 DEF Status
<1>5. CASE upgrade' = Built(u)
  BY <1>0, <1>2, <1>4, <1>5, BuiltFacts DEF Status, Requested, Promised!installVars
<1>6. CASE upgrade' = Fail(u)
  BY <1>0, <1>2, <1>4, <1>6, FailedUpgrade
    DEF Status, UpgradeActive, Requested, Promised!GiveUp
<1> QED
  BY <1>3, <1>5, <1>6

(* The upgrade of host, line and device keeps the promise of Install: it   *)
(* reports COMPLETE only when the device runs the image and version of     *)
(* that request, whatever was lost, repeated, resumed or left over.        *)
THEOREM UpgradeKeepsPromise ==
  CrcTellsApart => (TransferSpec /\ []SequenceIsFresh => KeepsPromise)
<1> SUFFICES ASSUME CrcTellsApart
             PROVE  TransferSpec /\ []SequenceIsFresh => KeepsPromise
  OBVIOUS
<1>1. TransferInit => Promised!InstallInit
  <2> SUFFICES ASSUME TransferInit PROVE Promised!InstallInit
    OBVIOUS
  <2>1. upgrade = InitialUpgrade /\ asked = {}
    BY DEF TransferInit
  <2>2. Status = "IDLE"
    BY <2>1 DEF Status, UpgradeActive, InitialUpgrade
  <2>3. Requested \notin Upgrades
    BY <2>1, TransferAssumption DEF Requested, InitialUpgrade
  <2> QED
    BY <2>1, <2>2, <2>3, DeviceAtBoot DEF Promised!InstallInit
<1>2. TransferInv /\ [TransferNext]_vars => [Promised!InstallNext]_Promised!installVars
  <2> SUFFICES ASSUME TransferInv, [TransferNext]_vars
               PROVE  Promised!InstallNext \/ UNCHANGED Promised!installVars
    OBVIOUS
  <2>1. CASE UNCHANGED <<upgrade, asked, device>>
    BY <2>1 DEF Promised!installVars, Status, Requested
  <2>2. CASE StartTransfer
    BY <2>2, StartIsPromised DEF Promised!InstallNext
  <2>3. CASE ReadTransport
    BY <2>3, ReplyIsPromised DEF Promised!InstallNext
  <2>4. CASE TickExhausted
    BY <2>4, TimeoutIsPromised DEF Promised!InstallNext
  <2>5. CASE DeviceHandles
    BY <2>5, SwitchIsPromised DEF Promised!InstallNext
  <2> QED
    BY <2>1, <2>2, <2>3, <2>4, <2>5
      DEF TransferNext, FlushTransport, TickRetry, vars, hostVars
<1>3. TransferSpec /\ []SequenceIsFresh => []TransferInv
  BY TransferInvariance
<1> QED
  BY <1>1, <1>2, <1>3, PTL DEF TransferSpec, KeepsPromise, Promised!InstallSpec

(***************************************************************************)
(* When sequence numbers are fresh                                         *)
(***************************************************************************)
(* The numbers of the requests, the answers and the pending request. *)
Numbers == {f.sequence : f \in InFlight}
           \union {responses[k].sequence : k \in 1 .. Len(responses)}
           \union (IF session.pending.active THEN {session.pending.sequence} ELSE {})

Older == \A n \in Numbers : n < session.next_sequence

(* next_sequence does not come round. *)
NoWrap == session.next_sequence <= session'.next_sequence

(* A step takes the numbers of the requests it repeats or answers, or the  *)
(* one the session gives it.                                               *)
Renumbered == \/ Numbers' \subseteq Numbers
              \/ /\ Numbers' \subseteq Numbers \union {session.next_sequence}
                 /\ session'.next_sequence = NextSequence(session.next_sequence)

LEMMA QueueNumbers ==
  ASSUME TransferTypeOK, UNCHANGED requests,
         responses' = responses \/ (responses # <<>> /\ responses' = Tail(responses)),
         \/ /\ UNCHANGED output
            /\ ~session'.pending.active
         \/ \E s, u : /\ s \in Sessions /\ Queue(s, u)
                      /\ s.next_sequence = session.next_sequence
  PROVE  Renumbered
<1>1. \A k \in 1 .. Len(responses') :
        \E m \in 1 .. Len(responses) : responses'[k] = responses[m]
  BY FewerResponses DEF TransferTypeOK
<1>2. CASE UNCHANGED output /\ ~session'.pending.active
  <2>1. InFlight' = InFlight
    BY <1>2 DEF InFlight
  <2> QED
    BY <1>1, <1>2, <2>1 DEF Renumbered, Numbers
<1>3. CASE \E s, u : /\ s \in Sessions /\ Queue(s, u)
                      /\ s.next_sequence = session.next_sequence
  <2>1. PICK s, u : s \in Sessions /\ Queue(s, u) /\ s.next_sequence = session.next_sequence
    BY <1>3
  <2>2. /\ session'.pending.sequence = session.next_sequence
        /\ session'.next_sequence = NextSequence(session.next_sequence)
    <3>1. session' = BeginRequest(s, RequestType(u), UpgradeRetries)
      BY <2>1 DEF Queue
    <3>2. /\ session'.pending.sequence = s.next_sequence
          /\ session'.next_sequence = NextSequence(s.next_sequence)
      BY <2>1, <3>1, BegunSession
    <3> QED
      BY <2>1, <3>2
  <2>3. output'.sequence = session.next_sequence
    BY <2>1 DEF Queue
  <2>4. InFlight' \subseteq InFlight \union {output'}
    BY DEF InFlight
  <2> QED
    BY <1>1, <2>2, <2>3, <2>4 DEF Renumbered, Numbers
<1> QED
  BY <1>2, <1>3

LEMMA StepNumbers ==
  ASSUME TransferInv, TransferNext
  PROVE  Renumbered
<1>i. TransferTypeOK /\ LineFits /\ DeviceHoldsAsked /\ session \in Sessions
  BY DEF TransferInv, TransferLine, TransferTypeOK
<1>a. \A s : Idle(s) => ~s.pending.active
  BY DEF Idle, NoRequest
<1>1. CASE StartTransfer
  <2>1. PICK u : \/ Queue(Transition(session, "START_UPGRADE"), u)
                 \/ /\ Finish(NotQueued(Transition(session, "START_UPGRADE"), u), Fail(u), "BUSY")
                    /\ UNCHANGED output
    BY <1>1 DEF StartTransfer
  <2>2. /\ Transition(session, "START_UPGRADE") \in Sessions
        /\ Transition(session, "START_UPGRADE").next_sequence = session.next_sequence
    BY <1>i, TransitedSession
  <2>3. \/ Queue(Transition(session, "START_UPGRADE"), u)
        \/ Idle(session') /\ UNCHANGED output
    BY <2>1, <2>2, NothingQueued, FinishedSession
  <2> QED
    BY <1>1, <1>a, <1>i, <2>2, <2>3, QueueNumbers DEF StartTransfer
<1>2. CASE FlushTransport
  <2>1. requests \in Seq(Frames) /\ requests' \in {requests, Append(requests, output)}
    BY <1>2, <1>i DEF FlushTransport, TransferTypeOK
  <2>2. InFlight' \subseteq InFlight
    <3>1. CASE requests' = requests
      BY <1>2, <3>1 DEF FlushTransport, InFlight
    <3>2. CASE requests' = Append(requests, output)
      BY <1>2, <2>1, <3>2, AppendProperties DEF FlushTransport, InFlight
    <3> QED
      BY <2>1, <3>1, <3>2
  <2> QED
    BY <1>2, <2>2 DEF FlushTransport, Renumbered, Numbers
<1>3. CASE ReadTransport
  <2>1. CASE IgnoreFrame(Head(responses))
    <3>1. \A k \in 1 .. Len(responses') :
            \E m \in 1 .. Len(responses) : responses'[k] = responses[m]
      BY <1>3, <1>i, FewerResponses DEF ReadTransport, TransferTypeOK
    <3>2. InFlight' = InFlight
      BY <1>3, <2>1 DEF ReadTransport, IgnoreFrame, InFlight
    <3> QED
      BY <2>1, <3>1, <3>2 DEF IgnoreFrame, Renumbered, Numbers
  <2>2. CASE UpgradeReply(Head(responses))
    <3>1. PICK u, status : \/ Queue(Complete(session), u)
                           \/ Finish(Complete(session), u, status) /\ UNCHANGED output
                           \/ session' = NotQueued(Complete(session), u) /\ UNCHANGED output
      BY <2>2 DEF UpgradeReply
    <3>2. /\ Idle(Complete(session)) /\ Complete(session) \in Sessions
          /\ Complete(session).next_sequence = session.next_sequence
      BY <1>i, CancelledSession DEF Complete, Idle
    <3>3. \/ Queue(Complete(session), u)
          \/ Idle(session') /\ UNCHANGED output
      BY <3>1, <3>2, NothingQueued, FinishedSession
    <3> QED
      BY <1>3, <1>a, <1>i, <3>2, <3>3, QueueNumbers DEF ReadTransport
  <2> QED
    BY <1>3, <2>1, <2>2 DEF ReadTransport
<1>4. CASE TickRetry
  <2>1. CASE UNCHANGED <<session, output>>
    BY <1>4, <2>1 DEF TickRetry, Renumbered, Numbers, InFlight
  <2>2. CASE /\ session' = Retry(session)
             /\ output' = [type |-> session.pending.type, sequence |-> session.pending.sequence,
                           payload |-> RequestPayload(upgrade)]
    <3>1. output'.sequence = session.pending.sequence /\ session.pending.active
      BY <1>4, <2>2 DEF TickRetry, Due
    <3>2. /\ session'.pending.active = session.pending.active
          /\ session'.pending.sequence = session.pending.sequence
      BY <1>i, <2>2, RetriedSession
    <3>3. InFlight' \subseteq InFlight \union {output'}
      BY <1>4 DEF TickRetry, InFlight
    <3> QED
      BY <1>4, <3>1, <3>2, <3>3 DEF TickRetry, Renumbered, Numbers
  <2> QED
    BY <1>4, <2>1, <2>2 DEF TickRetry
<1>5. CASE TickExhausted
  <2>1. PICK u, v, status :
          \/ Queue(Expire(session), u)
          \/ Finish(Expire(session), v, status) /\ UNCHANGED output
          \/ Finish(NotQueued(Expire(session), u), v, status) /\ UNCHANGED output
    BY <1>5 DEF TickExhausted
  <2>2. /\ Idle(Expire(session)) /\ Expire(session) \in Sessions
        /\ Expire(session).next_sequence = session.next_sequence
    BY <1>i, CancelledSession DEF Expire, Idle
  <2>3. \/ Queue(Expire(session), u)
        \/ Idle(session') /\ UNCHANGED output
    BY <2>1, <2>2, NothingQueued, FinishedSession
  <2> QED
    BY <1>5, <1>a, <1>i, <2>2, <2>3, QueueNumbers DEF TickExhausted
<1>6. CASE DeviceHandles
  <2>1. PICK f \in Frames, r \in Replies :
          /\ requests # <<>> /\ f = requests[1]
          /\ Effect(f, r)
          /\ responses' \in {responses, Append(responses, r)}
    BY <1>6, <1>i, DeviceEffect
  <2>2. UNCHANGED <<session, output>> /\ requests' = Tail(requests)
        /\ r.sequence = f.sequence
    BY <1>6, <2>1 DEF DeviceHandles, hostVars, Effect
  <2>3. InFlight' \subseteq InFlight /\ f \in InFlight
    BY <1>i, <2>1, <2>2, LineTaken DEF TransferTypeOK, InFlight
  <2>4. \A k \in 1 .. Len(responses') :
          \/ \E m \in 1 .. Len(responses) : responses'[k] = responses[m]
          \/ responses'[k] = r
    <3>1. CASE responses' = responses
      BY <3>1
    <3>2. CASE responses' = Append(responses, r)
      BY <1>i, <3>2, AppendProperties DEF TransferTypeOK
    <3> QED
      BY <2>1, <3>1, <3>2
  <2> QED
    BY <2>2, <2>3, <2>4 DEF Renumbered, Numbers
<1> QED
  BY <1>1, <1>2, <1>3, <1>4, <1>5, <1>6 DEF TransferNext

LEMMA OlderKept ==
  ASSUME TransferInv, TransferInv', Older, Modulus > 2, NoWrap, Renumbered
  PROVE  Older'
<1> DEFINE n == session.next_sequence
           m == session'.next_sequence
<1>1. n \in Sequences32 /\ m \in Sequences32
  BY DEF TransferInv, TransferTypeOK, Sessions
<1>2. n \in Nat /\ m \in Nat /\ n <= m /\ \A k \in Numbers : k < n
  BY <1>1 DEF NoWrap, Older, Sequences32
<1>3. Numbers \subseteq Nat
  <2>0. /\ requests \in Seq(Frames) /\ output \in Frames \union {NoFrame}
        /\ responses \in Seq(Replies)
    BY DEF TransferInv, TransferTypeOK
  <2>1. \A f \in InFlight : f.sequence \in Nat
    <3>1. \A f \in InFlight : f \in Frames
      BY <2>0 DEF InFlight
    <3> QED
      BY <3>1 DEF Frames
  <2>2. \A k \in 1 .. Len(responses) : responses[k].sequence \in Nat
    <3>1. \A k \in 1 .. Len(responses) : responses[k] \in Replies
      BY <2>0
    <3> QED
      BY <3>1 DEF Replies
  <2>3. session.pending.sequence \in Nat
    BY DEF TransferInv, TransferTypeOK, Sessions
  <2> QED
    BY <2>1, <2>2, <2>3 DEF Numbers
<1>4. m = NextSequence(n) => m \in Nat /\ n < m
  <2>1. n + 1 < Modulus => (n + 1) % Modulus = n + 1
    BY <1>1, ModulusAssumption, SMT DEF Sequences32
  <2>2. Modulus % Modulus = 0
    BY ModulusAssumption, SMT
  <2>3. CASE n + 1 < Modulus
    BY <1>2, <2>1, <2>3 DEF NextSequence
  <2>4. CASE n + 1 = Modulus
    BY <1>2, <2>2, <2>4 DEF NextSequence
  <2> QED
    BY <1>1, <2>3, <2>4, ModulusAssumption DEF Sequences32
<1>5. CASE Numbers' \subseteq Numbers
  <2>1. ASSUME NEW k \in Numbers' PROVE k < m
    BY <1>2, <1>3, <1>5, <2>1
  <2> QED
    BY <2>1 DEF Older
<1>6. CASE Numbers' \subseteq Numbers \union {n} /\ m = NextSequence(n)
  <2>1. ASSUME NEW k \in Numbers' PROVE k < m
    BY <1>2, <1>3, <1>4, <1>6, <2>1
  <2> QED
    BY <2>1 DEF Older
<1> QED
  BY <1>5, <1>6 DEF Renumbered

(* Until next_sequence comes round, after 2^32 - 1 requests, no frame on   *)
(* the line carries the number that the next request will get: the         *)
(* hypothesis of the theorems above.                                       *)
THEOREM FreshUntilWrap ==
  CrcTellsApart /\ Modulus > 2 =>
    (TransferSpec /\ [][NoWrap]_session => []SequenceIsFresh)
<1> SUFFICES ASSUME CrcTellsApart, Modulus > 2
             PROVE  TransferSpec /\ [][NoWrap]_session => []SequenceIsFresh
  OBVIOUS
<1> DEFINE Inv == TransferInv /\ Older
<1>1. Inv => SequenceIsFresh
  <2> SUFFICES ASSUME TransferInv, Older PROVE SequenceIsFresh
    OBVIOUS
  <2>1. session.next_sequence \in Nat
    BY DEF TransferInv, TransferTypeOK, Sessions, Sequences32
  <2>2. \A n \in Numbers : n # session.next_sequence
    BY <2>1 DEF Older
  <2> QED
    BY <2>2 DEF SequenceIsFresh, Numbers
<1>2. TransferInit => Inv
  <2> SUFFICES ASSUME TransferInit PROVE Older
    BY TransferStarts
  <2>1. Numbers = {}
    BY DEF TransferInit, Numbers, InFlight, InitialSession, NoRequest
  <2> QED
    BY <2>1 DEF Older
<1>3. Inv /\ [TransferNext]_vars /\ [NoWrap]_session => Inv'
  <2> SUFFICES ASSUME Inv, [TransferNext]_vars, [NoWrap]_session PROVE Inv'
    OBVIOUS
  <2>1. TransferInv'
    BY <1>1, TransferKept
  <2>2. session.next_sequence \in Nat
    BY DEF TransferInv, TransferTypeOK, Sessions, Sequences32
  <2>3. NoWrap
    BY <2>2 DEF NoWrap
  <2>4. Renumbered
    BY StepNumbers DEF Renumbered, Numbers, InFlight, vars, hostVars
  <2> QED
    BY <2>1, <2>3, <2>4, OlderKept
<1> HIDE DEF Inv
<1> QED
  BY <1>1, <1>2, <1>3, PTL DEF TransferSpec

(***************************************************************************)
(* The simulator and the requests that are repeated to it                  *)
(***************************************************************************)
(* Nothing but loss happens: memory and flash do not fail, and both sides  *)
(* compute one checksum.                                                   *)
OnlyLoss == /\ ~MallocFails /\ ~FailVerify
            /\ \A bytes \in Seq(Nat) : FlashCrc(bytes) = Crc(bytes)

(* The simulator has done what a request builds on. *)
Ready(f) == /\ f.type = "FW_BEGIN" => device.bootloader_active
            /\ f.type = "FW_ACTIVATE" => device.verified

Welcome(r) == /\ r.type # "NACK"
              /\ r.type = "ENTER_BOOTLOADER" => device.bootloader_active
              /\ r.type = "FW_VERIFY" => device.verified /\ r.payload = <<device.crc>>

RetriesAccepted ==
  IsSimulator =>
    /\ device.upgrading => device.sid # 0
    /\ \A f \in InFlight : Ready(f)
    /\ UpgradeActive(upgrade) => Ready(Ask)
    /\ \A k \in 1 .. Len(responses) : Pending(responses[k]) => Welcome(responses[k])
    /\ upgrade_result # "PROTOCOL"

(* A chunk that the device has committed is recognised as a copy. *)
LEMMA CommittedChunk ==
  ASSUME NEW next \in Upgrades, NEW offset \in Nat, NEW written \in Nat,
         offset < Len(next.image), written <= Len(next.image),
         offset + Len(Chunk(next, offset)) <= written,
         NEW k \in 1 .. Len(Chunk(next, offset))
  PROVE  /\ offset + k <= Len(SubSeq(next.image, 1, written))
         /\ SubSeq(next.image, 1, written)[offset + k] = Chunk(next, offset)[k]
<1> DEFINE n == Len(Chunk(next, offset))
<1>1. next.image \in Seq(Nat) /\ Len(next.image) \in Nat
  BY TransferAssumption
<1>2. /\ n \in 1 .. ChunkSize /\ n = MinOf(Len(next.image) - offset, ChunkSize)
      /\ offset + n <= Len(next.image)
  BY ChunkFacts
<1>3. Chunk(next, offset) = SubSeq(next.image, offset + 1, offset + n)
  BY <1>2 DEF Chunk
<1> HIDE DEF n
<1>4. n \in Nat /\ k \in 1 .. n
  BY <1>2, UpgradeAssumption DEF n
<1>5. \A i \in 1 .. Len(next.image) : next.image[i] \in Nat
  BY <1>1, ElementOfSeq
<1>6. /\ Len(SubSeq(next.image, 1, written)) = written
      /\ SubSeq(next.image, 1, written)[offset + k] = next.image[offset + k]
  <2>1. \A i \in 1 .. written : next.image[i] \in Nat
    BY <1>1, <1>5, SMTT(30)
  <2>2. 1 \in Int /\ written \in Int /\ (1 <= written + 1) /\ offset + k \in 1 .. written
    BY <1>2, <1>4 DEF n
  <2>3. /\ Len(SubSeq(next.image, 1, written)) = written
        /\ \A i \in 1 .. written : SubSeq(next.image, 1, written)[i] = next.image[i]
    BY <1>1, <2>1, <2>2
  <2> QED
    BY <2>2, <2>3
<1>7. Chunk(next, offset)[k] = next.image[offset + k]
  <2>1. \A i \in 1 .. n :
          SubSeq(next.image, offset + 1, offset + n)[i] = next.image[offset + i]
    BY <1>1, <1>2, <1>4
  <2> QED
    BY <1>3, <1>4, <2>1
<1>8. offset + k <= written
  BY <1>4 DEF n
<1> QED
  BY <1>6, <1>7, <1>8

LEMMA NextSidIsNotZero ==
  ASSUME NEW sid \in Nat
  PROVE  NextSid(sid) # 0
  BY DEF NextSid

(* The simulator accepts a request that fits, and what it said of itself   *)
(* stays true until a REBOOT or another image.                             *)
Welcomed(f, r) ==
  /\ r.type = f.type
  /\ f.type = "ENTER_BOOTLOADER" => device'.bootloader_active = TRUE
  /\ f.type = "FW_VERIFY" => device'.verified = TRUE /\ r.payload = <<device'.crc>>
  /\ f.type # "REBOOT" /\ device.bootloader_active => device'.bootloader_active = TRUE
  /\ f.type \notin {"REBOOT", "FW_BEGIN"} =>
       /\ device.verified => device'.verified = TRUE
       /\ device'.crc = device.crc
  /\ device'.upgrading => device'.sid # 0

LEMMA SimulatorWelcomes ==
  ASSUME OnlyLoss, TransferTypeOK, DeviceHoldsAsked, device \in Simulators,
         device.upgrading => device.sid # 0,
         NEW f \in Frames, Fits(f), Ready(f),
         NEW o \in SimulatorHandle(device, f), device' = o.device
  PROVE  Welcomed(f, o.frame)
<1> DEFINE r == o.frame
           p == f.payload
<1>0. IsSimulator /\ (Loaded <=> device.upgrading)
  BY DEF Simulators, IsSimulator, Loaded
<1>t. f.type \in RequestTypes
  BY DEF Frames
<1>u. ASSUME NEW q, device' = device, r = Respond(f, q),
             f.type \notin {"ENTER_BOOTLOADER", "FW_VERIFY"}
      PROVE  Welcomed(f, r)
  <2>1. r.type = f.type
    BY <1>u DEF Respond
  <2>2. device.bootloader_active \in BOOLEAN /\ device.verified \in BOOLEAN
    BY DEF Simulators
  <2> QED
    BY <1>u, <2>1, <2>2 DEF Welcomed
<1> HIDE DEF r, p
<1>1. CASE f.type = "ENTER_BOOTLOADER"
  <2>1. /\ o.device = [device EXCEPT !.telemetry = FALSE, !.bootloader_active = TRUE]
        /\ r = Respond(f, <<>>)
    BY <1>1 DEF SimulatorHandle, EnterBootloader, Accepted, Outcome, r
  <2>2. /\ device'.bootloader_active = TRUE /\ device'.verified = device.verified
        /\ device'.crc = device.crc /\ device'.sid = device.sid
        /\ device'.upgrading = device.upgrading /\ device.verified \in BOOLEAN
    BY <2>1 DEF Simulators
  <2>3. r.type = f.type
    BY <2>1 DEF Respond
  <2> QED
    BY <1>1, <2>2, <2>3 DEF Welcomed, r
<1>2. CASE f.type = "FW_BEGIN"
  <2>1. device.bootloader_active = TRUE /\ WellFormed(p)
    BY <1>2, FittingPayloads DEF Ready, Simulators, p
  <2>2. \/ o = Outcome(device, Respond(f, <<device.sid, device.offset>>))
        \/ o = Outcome(Erased(device, p), Respond(f, <<Erased(device, p).sid, Erased(device, p).offset>>))
    BY <1>2, <2>1 DEF SimulatorHandle, FwBegin, Accepted, Refused, OnlyLoss, p
  <2>3. CASE o = Outcome(device, Respond(f, <<device.sid, device.offset>>))
    <3>1. device' = device /\ r = Respond(f, <<device.sid, device.offset>>)
      BY <2>3 DEF Outcome, r
    <3> QED
      BY <1>2, <1>u, <3>1 DEF r
  <2>4. CASE o = Outcome(Erased(device, p), Respond(f, <<Erased(device, p).sid, Erased(device, p).offset>>))
    <3>1. device' = Erased(device, p) /\ r.type = f.type
      BY <2>4 DEF Outcome, Respond, r
    <3>2. device'.bootloader_active = TRUE /\ device'.sid = NextSid(device.sid)
      BY <2>1, <3>1 DEF Erased, Simulators
    <3>3. device'.sid # 0
      BY <3>2, NextSidIsNotZero DEF Simulators
    <3> QED
      BY <1>2, <3>1, <3>2, <3>3 DEF Welcomed, r
  <2> QED
    BY <2>2, <2>3, <2>4
<1>3. CASE f.type = "FW_DATA"
  <2>1. device.upgrading = TRUE /\ p.session_id = device.sid
    BY <1>0, <1>3 DEF Fits, InSession, Simulators, p
  <2>2. PICK next \in asked : /\ Holds(next) /\ p.offset \in Nat
                              /\ p.offset < Len(next.image)
                              /\ p.data = Chunk(next, p.offset)
    BY <1>3 DEF Fits, p
  <2>3. next \in Upgrades /\ device.offset \in Nat
    BY DEF TransferTypeOK, Simulators
  <2>4. /\ Len(p.data) \in 1 .. ChunkSize /\ p.offset + Len(p.data) <= Len(next.image)
    BY <2>2, <2>3, ChunkFacts
  <2>5. InRange(device, p)
    BY <2>2, <2>4 DEF InRange, Holds
  <2>6. p.offset = device.offset \/ IsDuplicate(device, p)
    <3>1. CASE p.offset = device.offset
      BY <3>1
    <3>2. CASE p.offset + Len(p.data) <= device.offset
      <4>1. p.offset < device.offset
        BY <2>2, <2>3, <2>4, <3>2, UpgradeAssumption
      <4>2. device.offset <= Len(next.image)
            /\ device.flash = SubSeq(next.image, 1, device.offset)
        BY <2>2 DEF Holds
      <4>3. ASSUME NEW k \in 1 .. Len(p.data)
            PROVE  /\ p.offset + k <= Len(device.flash)
                   /\ device.flash[p.offset + k] = p.data[k]
        <5>1. p.offset + Len(Chunk(next, p.offset)) <= device.offset
              /\ k \in 1 .. Len(Chunk(next, p.offset))
          BY <2>2, <3>2
        <5>2. /\ p.offset + k <= Len(SubSeq(next.image, 1, device.offset))
              /\ SubSeq(next.image, 1, device.offset)[p.offset + k]
                   = Chunk(next, p.offset)[k]
          BY <2>2, <2>3, <4>2, <5>1, CommittedChunk
        <5> QED
          BY <2>2, <4>2, <5>2
      <4> QED
        BY <3>2, <4>1, <4>3 DEF IsDuplicate
    <3> QED
      BY <1>3, <3>1, <3>2 DEF Fits, p
  <2>7. \/ o = Outcome(device, Respond(f, <<device.offset>>))
        \/ o = Outcome(Written(device, p), Respond(f, <<Written(device, p).offset>>))
    BY <1>3, <2>1, <2>5, <2>6 DEF SimulatorHandle, FwData, Accepted, p
  <2>8. CASE o = Outcome(device, Respond(f, <<device.offset>>))
    <3>1. device' = device /\ r = Respond(f, <<device.offset>>)
      BY <2>8 DEF Outcome, r
    <3> QED
      BY <1>3, <1>u, <3>1 DEF r
  <2>9. CASE o = Outcome(Written(device, p), Respond(f, <<Written(device, p).offset>>))
    <3>1. device' = Written(device, p) /\ r.type = f.type
      BY <2>9 DEF Outcome, Respond, r
    <3>2. /\ device'.bootloader_active = device.bootloader_active
          /\ device'.verified = device.verified
          /\ device'.crc = device.crc /\ device'.sid = device.sid
          /\ device'.upgrading = device.upgrading
          /\ device.bootloader_active \in BOOLEAN /\ device.verified \in BOOLEAN
      BY <3>1 DEF Written, Simulators
    <3> QED
      BY <1>3, <3>1, <3>2 DEF Welcomed, r
  <2> QED
    BY <2>7, <2>8, <2>9
<1>4. CASE f.type \in {"FW_STATUS", "FW_END"}
  <2>1. device.upgrading = TRUE /\ p.session_id = device.sid
        /\ (f.type = "FW_END" => device.offset = device.size)
    BY <1>0, <1>4 DEF Fits, InSession, Finishing, Full, Simulators, p
  <2>2. \/ o = Outcome(device, Respond(f, <<device.sid, device.offset>>))
        \/ o = Outcome(device, Respond(f, <<>>))
    BY <1>4, <2>1 DEF SimulatorHandle, FwStatus, FwEnd, Accepted, p
  <2>3. PICK q : device' = device /\ r = Respond(f, q)
    BY <2>2 DEF Outcome, r
  <2> QED
    BY <1>4, <1>u, <2>3 DEF r
<1>5. CASE f.type = "FW_VERIFY"
  <2>1. device.upgrading = TRUE /\ p.session_id = device.sid /\ Full /\ Loaded
    BY <1>0, <1>5 DEF Fits, InSession, Finishing, Simulators, p
  <2>2. FlashCrc(device.flash) = device.crc
    <3>1. PICK next \in asked : Holds(next)
      BY <2>1 DEF DeviceHoldsAsked
    <3>2. next.image \in Seq(Nat)
      BY TransferAssumption DEF TransferTypeOK
    <3>3. device.flash = SubSeq(next.image, 1, Len(next.image)) /\ device.crc = Crc(next.image)
      BY <2>1, <3>1 DEF Holds, Full
    <3>4. device.flash = next.image
      BY <3>2, <3>3, SubSeqFull
    <3> QED
      BY <3>2, <3>3, <3>4 DEF OnlyLoss
  <2>3. o = Outcome([device EXCEPT !.verified = TRUE], Respond(f, <<FlashCrc(device.flash)>>))
    BY <1>5, <2>1, <2>2 DEF SimulatorHandle, FwVerify, Accepted, OnlyLoss, p
  <2>4. device' = [device EXCEPT !.verified = TRUE] /\ r = Respond(f, <<device.crc>>)
    BY <2>2, <2>3 DEF Outcome, r
  <2>5. /\ device'.bootloader_active = device.bootloader_active /\ device'.verified = TRUE
        /\ device'.crc = device.crc /\ device'.sid = device.sid
        /\ device'.upgrading = device.upgrading /\ device.bootloader_active \in BOOLEAN
    BY <2>4 DEF Simulators
  <2>6. r.type = f.type /\ r.payload = <<device'.crc>>
    BY <2>4, <2>5 DEF Respond
  <2> QED
    BY <1>5, <2>5, <2>6 DEF Welcomed, r
<1>6. CASE f.type = "FW_ACTIVATE"
  <2>1. device.verified = TRUE /\ p.session_id = device.sid
    BY <1>6 DEF Ready, Fits, InSession, Finishing, Simulators, p
  <2>2. o = Outcome([device EXCEPT !.active = Flashed(device)], Respond(f, <<>>))
    BY <1>6, <2>1 DEF SimulatorHandle, FwActivate, Accepted, p
  <2>3. device' = [device EXCEPT !.active = Flashed(device)] /\ r.type = f.type
    BY <2>2 DEF Outcome, Respond, r
  <2>4. /\ device'.bootloader_active = device.bootloader_active
        /\ device'.verified = device.verified
        /\ device'.crc = device.crc /\ device'.sid = device.sid
        /\ device'.upgrading = device.upgrading
        /\ device.bootloader_active \in BOOLEAN /\ device.verified \in BOOLEAN
    BY <2>3 DEF Simulators
  <2> QED
    BY <1>6, <2>3, <2>4 DEF Welcomed, r
<1>7. CASE f.type = "REBOOT"
  <2>1. o = Outcome([device EXCEPT !.bootloader_active = FALSE, !.upgrading = FALSE,
                                   !.verified = FALSE], Respond(f, <<>>))
    BY <1>7 DEF SimulatorHandle, Reboot, Accepted
  <2>2. r.type = f.type /\ device'.upgrading = FALSE
    BY <2>1 DEF Outcome, Respond, Simulators, r
  <2> QED
    BY <1>7, <2>2 DEF Welcomed, r
<1> QED
  BY <1>t, <1>1, <1>2, <1>3, <1>4, <1>5, <1>6, <1>7 DEF RequestTypes, r

LEMMA AcceptedByDevice ==
  ASSUME OnlyLoss, TransferInv, RetriesAccepted, DeviceHandles
  PROVE  RetriesAccepted'
<1>i. /\ TransferTypeOK /\ LineFits /\ LineInOrder /\ DeviceHoldsAsked
      /\ CopiesAreLast /\ AnswersAreCurrent /\ PendingIsAsked
  BY DEF TransferInv, TransferLine
<1>0. /\ requests # <<>> /\ requests' = Tail(requests)
      /\ UNCHANGED <<session, upgrade, output, upgrade_result>>
  BY DEF DeviceHandles, hostVars
<1> DEFINE f == Head(requests)
<1>1. /\ f \in Frames /\ f \in InFlight /\ f = requests[1] /\ InFlight' \subseteq InFlight
      /\ \A g \in InFlight' : Follows(f, g)
  <2>1. requests \in Seq(Frames)
    BY <1>i DEF TransferTypeOK
  <2>2. f \in Frames /\ f = requests[1] /\ 1 \in 1 .. Len(requests)
    BY <1>0, <2>1
  <2> QED
    BY <1>0, <1>i, <2>1, <2>2, LineTaken DEF InFlight
<1>2. Fits(f)
  BY <1>1, <1>i DEF LineFits
<1>3. PICK o \in IF IsSimulator THEN SimulatorHandle(device, f) ELSE Stm32Handle(device, f) :
        /\ device' = o.device
        /\ responses' \in {responses, Append(responses, o.frame)}
  BY DEF DeviceHandles
<1>4. CASE ~IsSimulator
  <2>1. Effect(f, o.frame)
    BY <1>1, <1>2, <1>3, <1>4, <1>i, KindOfDevice, BoardEffect DEF TransferTypeOK
  <2> QED
    BY <1>4, <2>1 DEF Effect, SameKind, RetriesAccepted
<1>5. CASE IsSimulator
  <2> DEFINE r == o.frame
  <2>a. device \in Simulators
    BY <1>5, <1>i, KindOfDevice DEF TransferTypeOK
  <2>b. Ready(f) /\ (device.upgrading => device.sid # 0)
    BY <1>1, <1>5 DEF RetriesAccepted
  <2>1. Welcomed(f, r)
    BY <1>1, <1>2, <1>3, <1>5, <1>i, <2>a, <2>b, SimulatorWelcomes
  <2>2. r \in Replies /\ r.sequence = f.sequence
    <3>1. Effect(f, r)
      BY <1>1, <1>2, <1>3, <1>5, <1>i, <2>a, SimulatorEffect
    <3> QED
      BY <3>1 DEF Effect
  <2> HIDE DEF f, r
  <2>3. \A g : Follows(f, g) /\ Ready(g) => Ready(g)'
    <3> SUFFICES ASSUME NEW g, Follows(f, g), Ready(g) PROVE Ready(g)'
      OBVIOUS
    <3>1. g.type \in Behind(f.type)
      BY DEF Follows
    <3>2. f.type = "REBOOT" => g.type \notin {"FW_BEGIN", "FW_ACTIVATE"}
      BY <3>1 DEF Behind
    <3>3. f.type = "FW_BEGIN" => g.type # "FW_ACTIVATE"
      BY <3>1 DEF Behind
    <3> QED
      BY <2>1, <3>2, <3>3 DEF Ready, Welcomed
  <2>4. \A g \in InFlight' : Ready(g)'
    BY <1>1, <1>5, <2>3 DEF RetriesAccepted, f
  <2>5. UpgradeActive(upgrade') => Ready(Ask)'
    <3> SUFFICES ASSUME UpgradeActive(upgrade) PROVE Ready(Ask)'
      BY <1>0
    <3>1. PICK a : a = Ask
      OBVIOUS
    <3>2. Follows(f, a) /\ Ready(a)
      BY <1>1, <1>5, <1>i, <3>1 DEF LineInOrder, RetriesAccepted, f
    <3>3. Ask' = a
      BY <1>0, <3>1 DEF Ask
    <3> QED
      BY <2>3, <3>2, <3>3 DEF Ready
  <2>6. \A k \in 1 .. Len(responses') :
          \/ \E m \in 1 .. Len(responses) : responses'[k] = responses[m]
          \/ responses'[k] = r
    <3>1. CASE responses' = responses
      BY <3>1
    <3>2. CASE responses' = Append(responses, r)
      BY <1>i, <3>2, AppendProperties DEF TransferTypeOK
    <3> QED
      BY <1>3, <3>1, <3>2 DEF r
  <2>7. \A g : Pending(g)' <=> Pending(g)
    BY <1>0 DEF Pending
  <2>8. Welcome(r)'
    <3>1. f.type # "NACK"
      BY <1>1 DEF Frames, RequestTypes, f
    <3> QED
      BY <2>1, <3>1 DEF Welcome, Welcomed
  <2>9. ASSUME NEW m \in 1 .. Len(responses), Pending(responses[m])
        PROVE  Welcome(responses[m]) /\ responses[m].type = f.type
    <3>1. Welcome(responses[m])
      BY <1>5, <2>9 DEF RetriesAccepted
    <3>2. responses[m].type = Ask.type
      BY <1>i, <2>9, <3>1 DEF AnswersAreCurrent, Answers, Welcome
    <3>3. f.type = Ask.type
      BY <1>1, <1>i, <2>9 DEF CopiesAreLast, f
    <3> QED
      BY <3>1, <3>2, <3>3
  <2>10. \A q : Welcome(q) /\ q.type = f.type => Welcome(q)'
    BY <2>1 DEF Welcome, Welcomed
  <2>11. ASSUME NEW k \in 1 .. Len(responses'), Pending(responses'[k])
         PROVE  Welcome(responses[k])'
    <3>1. PICK q : q = responses'[k]
      OBVIOUS
    <3>2. Welcome(q)'
      BY <2>6, <2>8, <2>9, <2>10, <2>11, <3>1
    <3> QED
      BY <3>1, <3>2 DEF Welcome
  <2>12. device'.upgrading => device'.sid # 0
    BY <2>1 DEF Welcomed
  <2>13. \A k \in 1 .. Len(responses') : Pending(responses[k])' => Welcome(responses[k])'
    BY <1>0, <2>11 DEF Pending
  <2> QED
    BY <1>0, <1>5, <2>4, <2>5, <2>12, <2>13 DEF RetriesAccepted
<1> QED
  BY <1>4, <1>5

(* A step of the host: what it asks next builds on what the device has     *)
(* done, and no answer becomes one it waits for.                           *)
LEMMA AcceptedByHost ==
  ASSUME TransferTypeOK, RetriesAccepted, UNCHANGED device,
         responses' = responses \/ (responses # <<>> /\ responses' = Tail(responses)),
         InFlight' \subseteq InFlight
           \/ (/\ InFlight' \subseteq InFlight \union {output'}
               /\ UpgradeActive(upgrade') /\ output'.type = Ask'.type),
         IsSimulator /\ UpgradeActive(upgrade') => Ready(Ask)',
         IsSimulator => upgrade_result' # "PROTOCOL",
         \A k \in 1 .. Len(responses') : Pending(responses[k])' => Pending(responses'[k])
  PROVE  RetriesAccepted'
<1>0. IsSimulator' <=> IsSimulator
  BY DEF IsSimulator
<1> SUFFICES ASSUME IsSimulator PROVE RetriesAccepted'
  BY <1>0 DEF RetriesAccepted
<1>1. \A g : Ready(g) => Ready(g)'
  BY DEF Ready
<1>2. \A f \in InFlight' : Ready(f)'
  <2>1. \A f \in InFlight : Ready(f)'
    BY <1>1 DEF RetriesAccepted
  <2>2. UpgradeActive(upgrade') /\ output'.type = Ask'.type => Ready(output)'
    BY DEF Ready
  <2>3. ASSUME NEW f \in InFlight', f = output', Ready(output)' PROVE Ready(f)'
    BY <2>3 DEF Ready
  <2> QED
    BY <2>1, <2>2, <2>3
<1>3. \A k \in 1 .. Len(responses') : Pending(responses[k])' => Welcome(responses[k])'
  <2> SUFFICES ASSUME NEW k \in 1 .. Len(responses'), Pending(responses'[k])
               PROVE  Welcome(responses[k])'
    OBVIOUS
  <2>1. PICK m \in 1 .. Len(responses) : responses'[k] = responses[m]
    BY FewerResponses DEF TransferTypeOK
  <2>2. Welcome(responses'[k])
    BY <2>1 DEF RetriesAccepted
  <2> QED
    BY <2>2 DEF Welcome
<1>4. device'.upgrading => device'.sid # 0
  BY DEF RetriesAccepted
<1> QED
  BY <1>2, <1>3, <1>4 DEF RetriesAccepted

(* The host takes such an answer. *)
LEMMA AnswerIsTaken ==
  ASSUME CrcTellsApart, TransferInv, RetriesAccepted, IsSimulator,
         UpgradeActive(upgrade), NEW r, Answers(r), Welcome(r)
  PROVE  AcceptResponse(upgrade, RequestType(upgrade), r).state # "ERROR"
<1> DEFINE u == AcceptResponse(upgrade, RequestType(upgrade), r)
<1>i. TransferTypeOK /\ HostKnowsDevice /\ DeviceHoldsAsked
  BY DEF TransferInv, TransferLine
<1>0. /\ r.type = Ask.type /\ r.type = RequestType(upgrade) /\ r.type \notin {"NACK", "ERROR"}
      /\ Loaded => device.sid # 0
  BY DEF Welcome, Answers, Ask, RequestType, Loaded, RetriesAccepted
<1>1. upgrade \in UpgradeRecords /\ Requested \in asked /\ Requested.image = upgrade.image
      /\ upgrade.state \in UpgradeStates /\ upgrade.state # "VALIDATING"
  BY <1>i DEF TransferTypeOK, HostKnowsDevice, HostKnows, UpgradeActive, Requested,
              UpgradeRecords
<1>2. device.sid \in Nat /\ device.offset \in Nat
  BY <1>i DEF TransferTypeOK, Simulators, Boards
<1>e. \A state \in UpgradeStates : [upgrade EXCEPT !.state = state].state = state
  BY <1>1 DEF UpgradeRecords
<1>s. {"BEGIN", "VERIFY", "ACTIVATE", "REBOOT", "COMPLETE"} \subseteq UpgradeStates \ {"ERROR"}
  BY DEF UpgradeStates
<1>3. CASE upgrade.state = "ENTER_BOOTLOADER"
  <2>1. u = [upgrade EXCEPT !.state = "BEGIN"]
    BY <1>0, <1>3 DEF AcceptResponse, RequestType
  <2> QED
    BY <1>e, <1>s, <2>1
<1>4. CASE upgrade.state = "BEGIN"
  <2>1. r.type = "FW_BEGIN" /\ Ask.payload = Announced(Requested)
    BY <1>0, <1>4 DEF Ask, RequestType, RequestPayload, Announced, Requested
  <2>2. r.payload = <<device.sid, device.offset>> /\ Resumes(Ask.payload)
    BY <2>1 DEF Answers
  <2>3. Loaded /\ Holds(Requested)
    BY <1>1, <1>i, <2>1, <2>2, ResumedIsHeld
  <2> DEFINE begun == [upgrade EXCEPT !.session_id = r.payload[1], !.offset = r.payload[2]]
  <2>4. /\ begun \in UpgradeRecords
        /\ begun.session_id = device.sid /\ begun.offset = device.offset
    <3>1. r.payload[1] = device.sid /\ r.payload[2] = device.offset
      BY <2>2
    <3>2. begun \in UpgradeRecords
      BY <1>1, <1>2, <3>1 DEF UpgradeRecords
    <3> QED
      BY <1>1, <3>1, <3>2 DEF UpgradeRecords
  <2>5. begun.session_id # 0 /\ begun.offset <= Len(upgrade.image)
    BY <1>0, <1>1, <2>3, <2>4 DEF Holds
  <2>6. u = Resume(begun)
    <3>1. Len(r.payload) = 2
      BY <2>2
    <3> QED
      BY <1>0, <1>4, <2>1, <2>5, <3>1 DEF AcceptResponse, RequestType
  <2> QED
    BY <2>4, <2>6, ResumedUpgrade
<1>5. CASE upgrade.state = "TRANSFER"
  <2>1. r.type = "FW_DATA"
    BY <1>0, <1>5 DEF RequestType
  <2>2. r.payload = <<device.offset>> /\ device.offset = upgrade.last_chunk_end
    BY <2>1 DEF Answers
  <2>3. device.offset <= Len(upgrade.image)
    BY <1>1, <1>5, <1>i DEF HostKnowsDevice, HostKnows, Holds
  <2> DEFINE acked == [upgrade EXCEPT !.offset = r.payload[1]]
  <2>4. acked \in UpgradeRecords /\ acked.offset = device.offset
    <3>1. r.payload[1] = device.offset
      BY <2>2
    <3> QED
      BY <1>1, <1>2, <3>1 DEF UpgradeRecords
  <2>5. u = Resume(acked)
    <3>1. Len(r.payload) = 1
      BY <2>2
    <3> QED
      BY <1>0, <1>5, <2>1, <2>2, <2>3, <2>4, <3>1 DEF AcceptResponse, RequestType
  <2> QED
    BY <2>4, <2>5, ResumedUpgrade
<1>6. CASE upgrade.state = "RECOVER"
  <2>1. r.type = "FW_STATUS"
    BY <1>0, <1>6 DEF RequestType
  <2>2. r.payload = <<device.sid, device.offset>>
    BY <2>1 DEF Answers
  <2>3. device.offset <= Len(upgrade.image) /\ device.sid = upgrade.session_id
    BY <1>1, <1>6, <1>i DEF HostKnowsDevice, HostKnows, Holds
  <2> DEFINE recovered == [upgrade EXCEPT !.offset = r.payload[2]]
  <2>4. recovered \in UpgradeRecords /\ recovered.offset = device.offset
    BY <1>1, <1>2, <2>2 DEF UpgradeRecords
  <2>5. u = Resume(recovered)
    <3>1. Len(r.payload) = 2 /\ r.payload[1] = upgrade.session_id
      BY <2>2, <2>3
    <3> QED
      BY <1>0, <1>6, <2>1, <2>3, <2>4, <3>1 DEF AcceptResponse, RequestType
  <2> QED
    BY <2>4, <2>5, ResumedUpgrade
<1>7. CASE upgrade.state = "END"
  <2>1. u = [upgrade EXCEPT !.state = "VERIFY"]
    BY <1>0, <1>7 DEF AcceptResponse, RequestType
  <2> QED
    BY <1>e, <1>s, <2>1
<1>8. CASE upgrade.state = "VERIFY"
  <2>1. r.type = "FW_VERIFY"
    BY <1>0, <1>8 DEF RequestType
  <2>2. r.payload = <<device.crc>> /\ device.crc = Crc(upgrade.image)
    <3>1. Holds(Requested)
      BY <1>8, <1>i DEF HostKnowsDevice, HostKnows
    <3> QED
      BY <1>1, <2>1, <3>1 DEF Welcome, Holds
  <2>3. Len(r.payload) = 1 /\ r.payload[1] = Crc(upgrade.image)
    BY <2>2
  <2>4. u = [upgrade EXCEPT !.state = "ACTIVATE"]
    BY <1>0, <1>8, <2>3 DEF AcceptResponse, RequestType
  <2> QED
    BY <1>e, <1>s, <2>4
<1>9. CASE upgrade.state = "ACTIVATE"
  <2>1. u = [upgrade EXCEPT !.state = "REBOOT"]
    BY <1>0, <1>9 DEF AcceptResponse, RequestType
  <2> QED
    BY <1>e, <1>s, <2>1
<1>10. CASE upgrade.state = "REBOOT"
  <2>1. u = [upgrade EXCEPT !.state = "COMPLETE"]
    BY <1>0, <1>10 DEF AcceptResponse, RequestType
  <2> QED
    BY <1>e, <1>s, <2>1
<1> QED
  BY <1>1, <1>3, <1>4, <1>5, <1>6, <1>7, <1>8, <1>9, <1>10 DEF UpgradeStates, UpgradeActive

(* What the host is told to ask next can be asked. *)
LEMMA NextAskIsReady ==
  ASSUME TransferTypeOK, IsSimulator, NEW r, Answers(r), Welcome(r),
         NEW u, Moved(u), upgrade' = Built(u), UNCHANGED device,
         UpgradeActive(upgrade'), UpgradeActive(upgrade)
  PROVE  Ready(Ask)'
<1>1. u \in UpgradeRecords /\ upgrade'.state = u.state
  BY BuiltFacts DEF Moved
<1>2. r.type = Ask.type
  BY DEF Answers, Welcome
<1>3. Ask'.type = RequestType(upgrade')
  BY DEF Ask
<1>4. ASSUME Ask'.type = "FW_BEGIN" PROVE device.bootloader_active
  <2>1. u.state = "BEGIN"
    BY <1>1, <1>3, <1>4 DEF RequestType
  <2>2. upgrade.state = "ENTER_BOOTLOADER"
    BY <2>1 DEF Moved
  <2> QED
    BY <1>2, <2>2, AskTypes DEF Welcome
<1>5. ASSUME Ask'.type = "FW_ACTIVATE" PROVE device.verified
  <2>1. u.state = "ACTIVATE"
    BY <1>1, <1>3, <1>5 DEF RequestType
  <2>2. upgrade.state = "VERIFY"
    BY <2>1 DEF Moved
  <2> QED
    BY <1>2, <2>2, AskTypes DEF Welcome
<1> QED
  BY <1>4, <1>5 DEF Ready

LEMMA AcceptedKept ==
  ASSUME CrcTellsApart, OnlyLoss, TransferInv, SequenceIsFresh, RetriesAccepted,
         TransferNext
  PROVE  RetriesAccepted'
<1>i. TransferTypeOK /\ PendingIsAsked /\ AnswersAreCurrent /\ session \in Sessions
  BY DEF TransferInv, TransferLine, TransferTypeOK
<1>f. \A k \in 1 .. Len(responses') :
        UNCHANGED responses \/ (responses # <<>> /\ responses' = Tail(responses)) =>
          responses'[k].sequence # session.next_sequence
  BY <1>i, FewerResponses DEF SequenceIsFresh, TransferTypeOK
<1>q. ASSUME NEW s \in Sessions, NEW u \in UpgradeRecords, Queue(s, u),
             s.next_sequence = session.next_sequence, UNCHANGED requests
      PROVE  /\ InFlight' \subseteq InFlight \union {output'}
             /\ UpgradeActive(upgrade') /\ output'.type = Ask'.type
             /\ upgrade' = Built(u)
             /\ session'.pending.sequence = session.next_sequence
  <2>1. /\ CanBuild(u) /\ upgrade' = Built(u)
        /\ session' = BeginRequest(s, RequestType(u), UpgradeRetries)
        /\ output'.type = RequestType(u)
    BY <1>q DEF Queue, CanQueue
  <2>2. session'.pending.sequence = session.next_sequence
    BY <1>q, <2>1, BegunSession
  <2>3. UpgradeActive(u)
    BY <2>1 DEF CanBuild, RequestType, UpgradeActive
  <2>4. InFlight' \subseteq InFlight \union {output'}
    BY <1>q DEF InFlight
  <2> QED
    BY <1>q, <2>1, <2>2, <2>3, <2>4, BuiltFacts DEF Ask
<1>p. ASSUME session'.pending.sequence = session.next_sequence,
             UNCHANGED responses \/ (responses # <<>> /\ responses' = Tail(responses))
      PROVE  \A k \in 1 .. Len(responses') : ~Pending(responses[k])'
  BY <1>f, <1>p DEF Pending
<1>n. ASSUME Idle(session')
      PROVE  \A k \in 1 .. Len(responses') : ~Pending(responses[k])'
  BY <1>n DEF Pending, Idle, NoRequest
<1>o. ASSUME UNCHANGED <<output, requests>>
      PROVE  InFlight' \subseteq InFlight
  BY <1>o DEF InFlight
<1>r. IsSimulator => upgrade_result # "PROTOCOL"
  BY DEF RetriesAccepted
<1>1. CASE StartTransfer
  <2>1. PICK next \in Upgrades :
          LET u == StartUpgrade(upgrade, next.image, next.version)
              s == Transition(session, "START_UPGRADE")
          IN  \/ Queue(s, u) /\ upgrade_result' = "OK"
              \/ /\ Finish(NotQueued(s, u), Fail(u), "BUSY")
                 /\ UNCHANGED output
    BY <1>1 DEF StartTransfer
  <2> DEFINE u == StartUpgrade(upgrade, next.image, next.version)
             s == Transition(session, "START_UPGRADE")
  <2>2. u \in UpgradeRecords /\ u.state = "ENTER_BOOTLOADER"
    BY StartedUpgrade
  <2>3. s \in Sessions /\ s.next_sequence = session.next_sequence
    BY <1>i, TransitedSession
  <2>4. UNCHANGED <<device, responses, requests>>
    BY <1>1 DEF StartTransfer
  <2>5. \/ Queue(s, u) /\ upgrade_result' = "OK"
        \/ Finish(NotQueued(s, u), Fail(u), "BUSY") /\ UNCHANGED output
    BY <2>1
  <2> HIDE DEF u, s
  <2>6. CASE Queue(s, u) /\ upgrade_result' = "OK"
    <3>1. Ready(Ask)'
      BY <1>q, <2>2, <2>3, <2>4, <2>6, BuiltFacts DEF Ready, Ask, RequestType
    <3> QED
      BY <1>i, <1>p, <1>q, <2>2, <2>3, <2>4, <2>6, <3>1, AcceptedByHost
  <2>7. CASE Finish(NotQueued(s, u), Fail(u), "BUSY") /\ UNCHANGED output
    <3>1. Idle(session') /\ upgrade' = Fail(u) /\ upgrade_result' = "BUSY"
      BY <2>3, <2>7, NothingQueued, FinishedSession DEF Finish
    <3>2. ~UpgradeActive(upgrade')
      BY <2>2, <3>1, FailedUpgrade DEF UpgradeActive
    <3> QED
      BY <1>i, <1>n, <1>o, <2>4, <2>7, <3>1, <3>2, AcceptedByHost
  <2> QED
    BY <2>5, <2>6, <2>7
<1>2. CASE FlushTransport
  <2>1. requests \in Seq(Frames) /\ requests' \in {requests, Append(requests, output)}
        /\ output # NoFrame /\ output' = NoFrame
        /\ UNCHANGED <<session, upgrade, upgrade_result, responses, device>>
    BY <1>2, <1>i DEF FlushTransport, TransferTypeOK
  <2>2. InFlight' \subseteq InFlight
    <3>1. CASE requests' = requests
      BY <2>1, <3>1 DEF InFlight
    <3>2. CASE requests' = Append(requests, output)
      BY <2>1, <3>2, AppendProperties DEF InFlight
    <3> QED
      BY <2>1, <3>1, <3>2
  <2>3. IsSimulator /\ UpgradeActive(upgrade') => Ready(Ask)'
    BY <2>1 DEF RetriesAccepted, Ready, Ask
  <2> QED
    BY <1>i, <1>r, <2>1, <2>2, <2>3, AcceptedByHost DEF Pending
<1>3. CASE ReadTransport
  <2>0. /\ responses # <<>> /\ responses' = Tail(responses) /\ UNCHANGED <<requests, device>>
        /\ UpgradeReply(Head(responses)) \/ IgnoreFrame(Head(responses))
    BY <1>3 DEF ReadTransport
  <2>1. CASE IgnoreFrame(Head(responses))
    <3>1. UNCHANGED <<session, upgrade, upgrade_result, output>>
      BY <2>1 DEF IgnoreFrame
    <3>2. IsSimulator /\ UpgradeActive(upgrade') => Ready(Ask)'
      BY <2>0, <3>1 DEF RetriesAccepted, Ready, Ask
    <3> QED
      BY <1>i, <1>o, <1>r, <2>0, <3>1, <3>2, AcceptedByHost DEF Pending
  <2>2. CASE UpgradeReply(Head(responses))
    <3> DEFINE r == Head(responses)
               u == AcceptResponse(upgrade, session.pending.type, r)
               s == Complete(session)
    <3>1. 1 \in 1 .. Len(responses) /\ r = responses[1]
      BY <2>0, <1>i, HeadTailProperties DEF TransferTypeOK
    <3>2. Pending(r)
      BY <2>2 DEF UpgradeReply, Matches, Pending
    <3>3. /\ UpgradeActive(upgrade) /\ session.pending.type = RequestType(upgrade)
          /\ Answers(r) /\ (IsSimulator => Welcome(r))
      BY <1>i, <3>1, <3>2 DEF PendingIsAsked, Pending, AnswersAreCurrent, RetriesAccepted
    <3>4. Moved(u) /\ u \in UpgradeRecords
      BY <3>3, AcceptedResponse DEF Moved
    <3>5. IsSimulator => u.state # "ERROR"
      BY <3>3, AnswerIsTaken
    <3>6. Idle(s) /\ s \in Sessions /\ s.next_sequence = session.next_sequence
      BY <1>i, CancelledSession DEF Idle, Complete
    <3>7. \/ /\ u.state \in {"COMPLETE", "ERROR"}
             /\ Finish(s, u, IF u.state = "COMPLETE" THEN "OK" ELSE "PROTOCOL")
             /\ UNCHANGED output
          \/ Queue(s, u) /\ UNCHANGED upgrade_result
          \/ /\ session' = NotQueued(s, u) /\ upgrade' = Built(u)
             /\ UNCHANGED <<upgrade_result, output>>
      BY <2>2 DEF UpgradeReply
    <3> HIDE DEF r, u, s
    <3>8. CASE /\ u.state \in {"COMPLETE", "ERROR"}
               /\ Finish(s, u, IF u.state = "COMPLETE" THEN "OK" ELSE "PROTOCOL")
               /\ UNCHANGED output
      <4>1. Idle(session') /\ upgrade' = u /\ ~UpgradeActive(upgrade')
            /\ (IsSimulator => upgrade_result' # "PROTOCOL")
        BY <3>5, <3>6, <3>8, FinishedSession DEF Finish, UpgradeActive
      <4> QED
        BY <1>i, <1>n, <1>o, <2>0, <3>8, <4>1, AcceptedByHost
    <3>9. ASSUME upgrade' = Built(u)
          PROVE  IsSimulator /\ UpgradeActive(upgrade') => Ready(Ask)'
      BY <1>i, <2>0, <3>3, <3>4, <3>9, NextAskIsReady
    <3>10. CASE Queue(s, u) /\ UNCHANGED upgrade_result
      BY <1>i, <1>p, <1>q, <1>r, <2>0, <3>4, <3>6, <3>9, <3>10, AcceptedByHost
    <3>11. CASE /\ session' = NotQueued(s, u) /\ upgrade' = Built(u)
                /\ UNCHANGED <<upgrade_result, output>>
      <4>1. Idle(session')
        BY <3>6, <3>11, NothingQueued
      <4> QED
        BY <1>i, <1>n, <1>o, <1>r, <2>0, <3>9, <3>11, <4>1, AcceptedByHost
    <3> QED
      BY <3>7, <3>8, <3>10, <3>11
  <2> QED
    BY <2>0, <2>1, <2>2
<1>4. CASE TickRetry
  <2>0. UNCHANGED <<upgrade, upgrade_result, requests, responses, device>>
        /\ session.pending.active
    BY <1>4 DEF TickRetry, Due
  <2>1. IsSimulator /\ UpgradeActive(upgrade') => Ready(Ask)'
    BY <2>0 DEF RetriesAccepted, Ready, Ask
  <2>2. CASE UNCHANGED <<session, output>>
    BY <1>i, <1>o, <1>r, <2>0, <2>1, <2>2, AcceptedByHost DEF Pending
  <2>3. CASE /\ session' = Retry(session)
             /\ output' = [type |-> session.pending.type, sequence |-> session.pending.sequence,
                           payload |-> RequestPayload(upgrade)]
    <3>1. UpgradeActive(upgrade') /\ output'.type = Ask'.type
      BY <1>i, <2>0, <2>3 DEF PendingIsAsked, Ask
    <3>2. InFlight' \subseteq InFlight \union {output'}
      BY <2>0 DEF InFlight
    <3>3. /\ session'.pending.active = session.pending.active
          /\ session'.pending.sequence = session.pending.sequence
      BY <1>i, <2>3, RetriedSession
    <3>4. \A k \in 1 .. Len(responses') : Pending(responses[k])' => Pending(responses'[k])
      BY <3>3 DEF Pending
    <3> QED
      BY <1>i, <1>r, <2>0, <2>1, <3>1, <3>2, <3>4, AcceptedByHost
  <2> QED
    BY <1>4, <2>2, <2>3 DEF TickRetry
<1>5. CASE TickExhausted
  <2>0. /\ UNCHANGED <<requests, responses, device>> /\ upgrade \in UpgradeRecords
    BY <1>5, <1>i DEF TickExhausted, TransferTypeOK
  <2> DEFINE s == Expire(session)
             u == IF CanRecover(upgrade) THEN BeginRecovery(upgrade) ELSE upgrade
             ended == IF CanRecover(upgrade) THEN NotQueued(s, u) ELSE s
  <2>1. \/ CanRecover(upgrade) /\ Queue(s, u) /\ UNCHANGED upgrade_result
        \/ Finish(ended, Fail(u), "TIMEOUT") /\ UNCHANGED output
    BY <1>5 DEF TickExhausted
  <2>2. Idle(s) /\ s \in Sessions /\ s.next_sequence = session.next_sequence
    BY <1>i, CancelledSession DEF Idle, Expire
  <2>3. u \in UpgradeRecords /\ (CanRecover(upgrade) => u.state = "RECOVER")
    BY <2>0, RecoveredUpgrade
  <2> HIDE DEF s, u
  <2>4. Idle(ended)
    BY <2>2, NothingQueued
  <2> HIDE DEF ended
  <2>5. CASE CanRecover(upgrade) /\ Queue(s, u) /\ UNCHANGED upgrade_result
    <3>1. Ready(Ask)'
      BY <1>q, <2>0, <2>2, <2>3, <2>5, BuiltFacts DEF Ready, Ask, RequestType
    <3> QED
      BY <1>i, <1>p, <1>q, <1>r, <2>0, <2>2, <2>3, <2>5, <3>1, AcceptedByHost
  <2>6. CASE Finish(ended, Fail(u), "TIMEOUT") /\ UNCHANGED output
    <3>1. Idle(session') /\ upgrade' = Fail(u) /\ upgrade_result' = "TIMEOUT"
      BY <2>4, <2>6, FinishedSession DEF Finish
    <3>2. ~UpgradeActive(upgrade')
      BY <2>3, <3>1, FailedUpgrade DEF UpgradeActive
    <3> QED
      BY <1>i, <1>n, <1>o, <2>0, <2>6, <3>1, <3>2, AcceptedByHost
  <2> QED
    BY <2>1, <2>5, <2>6
<1>6. CASE DeviceHandles
  BY <1>6, AcceptedByDevice
<1> QED
  BY <1>1, <1>2, <1>3, <1>4, <1>5, <1>6 DEF TransferNext

(* Every request underway to the simulator and every answer on its way is  *)
(* welcome where it goes.                                                  *)
LEMMA RetriesStayAccepted ==
  CrcTellsApart /\ OnlyLoss =>
    (TransferSpec /\ []SequenceIsFresh => []RetriesAccepted)
<1> SUFFICES ASSUME CrcTellsApart, OnlyLoss
             PROVE  TransferSpec /\ []SequenceIsFresh => []RetriesAccepted
  OBVIOUS
<1>1. TransferInit => RetriesAccepted
  <2> SUFFICES ASSUME TransferInit, IsSimulator PROVE RetriesAccepted
    BY DEF RetriesAccepted
  <2>1. InFlight = {} /\ ~UpgradeActive(upgrade) /\ Len(responses) = 0
        /\ upgrade_result # "PROTOCOL"
    BY DEF TransferInit, InFlight, UpgradeActive, InitialUpgrade
  <2>2. ~device.upgrading
    BY DeviceAtBoot DEF Loaded
  <2> QED
    BY <2>1, <2>2 DEF RetriesAccepted
<1>2. TransferInv /\ SequenceIsFresh /\ RetriesAccepted /\ [TransferNext]_vars
        => RetriesAccepted'
  <2> SUFFICES ASSUME TransferInv, SequenceIsFresh, RetriesAccepted, [TransferNext]_vars
               PROVE  RetriesAccepted'
    OBVIOUS
  <2>1. CASE UNCHANGED vars
    BY <2>1 DEF vars, hostVars, RetriesAccepted, IsSimulator, InFlight, Ready, Ask,
                Pending, Welcome
  <2> QED
    BY <2>1, AcceptedKept
<1>3. TransferSpec /\ []SequenceIsFresh => []TransferInv
  BY TransferInvariance
<1> QED
  BY <1>1, <1>2, <1>3, PTL DEF TransferSpec

(* The simulator never refuses a request, and the host never misreads one  *)
(* of its answers, because frames were lost or repeated: unless memory,    *)
(* flash or a checksum fails, no upgrade ends with PROTOCOL.               *)
THEOREM RetriesAreTolerated ==
  CrcTellsApart /\ OnlyLoss =>
    (TransferSpec /\ []SequenceIsFresh => []SimulatorToleratesRetries)
<1>1. RetriesAccepted => SimulatorToleratesRetries
  BY DEF RetriesAccepted, SimulatorToleratesRetries
<1> QED
  BY <1>1, RetriesStayAccepted, PTL

(***************************************************************************)
(* The deadlines of an upgrade                                             *)
(*                                                                         *)
(* The host keeps the deadlines of Deadline, for every image, every        *)
(* device, every policy and every outage.  Deadline counts the age of one  *)
(* request at a time; that a step which leaves a request of another        *)
(* sequence has begun a new one follows because the next sequence is never *)
(* the one still pending, also when the 32 bits wrap.                      *)
(***************************************************************************)
(* A session without a request, or with one of the upgrade's policy whose  *)
(* sequence the next request will not carry.                               *)
Asking(s) ==
  /\ s \in Sessions
  /\ s.pending.active = TRUE /\ s.pending.max_retries = UpgradeRetries
  /\ s.pending.sequence # 0 /\ s.pending.sequence # s.next_sequence

NextIsFresh == Idle(session) \/ Asking(session)

(* The wrap-around of a sequence number skips 0 and moves.                 *)
LEMMA NextSequenceMoves ==
  ASSUME NEW n \in Sequences32
  PROVE  NextSequence(n) \in Sequences32 /\ NextSequence(n) # n
<1>1. n + 1 < Modulus => (n + 1) % Modulus = n + 1
  BY ModulusAssumption, SMT DEF Sequences32
<1>2. Modulus % Modulus = 0
  BY ModulusAssumption, SMT
<1> QED
  BY <1>1, <1>2, ModulusAssumption, TimingAssumption DEF NextSequence, Sequences32

LEMMA AskingSession ==
  ASSUME NEW s \in Sessions, NEW u
  PROVE  LET b == BeginRequest(s, RequestType(u), UpgradeRetries)
         IN  /\ Asking(b)
             /\ b.pending.sequence = s.next_sequence
             /\ b.pending.retries_done = 0
<1> DEFINE b == BeginRequest(s, RequestType(u), UpgradeRetries)
<1>1. s.next_sequence \in Sequences32 /\ NextSequence(s.next_sequence) \in Sequences32
      /\ NextSequence(s.next_sequence) # s.next_sequence
  BY NextSequenceMoves DEF Sessions
<1>2. RequestType(u) \in RequestTypes \union {"NONE"} /\ UpgradeRetries \in Nat
  BY TransferAssumption DEF RequestType, RequestTypes
<1>3. s.next_sequence \in 0 .. Modulus - 1 /\ s.next_sequence # 0
  BY <1>1, ModulusAssumption DEF Sequences32
<1>4. b \in Sessions
  BY <1>1, <1>2, <1>3 DEF Sessions, BeginRequest
<1>5. /\ b.pending.active = TRUE /\ b.pending.max_retries = UpgradeRetries
      /\ b.pending.sequence = s.next_sequence
      /\ b.pending.retries_done = 0
      /\ b.next_sequence = NextSequence(s.next_sequence)
  BY DEF Sessions, BeginRequest
<1> QED
  BY <1>1, <1>3, <1>4, <1>5 DEF Asking

LEMMA RetriedRequest ==
  ASSUME NEW s, Asking(s)
  PROVE  /\ Asking(Retry(s))
         /\ Retry(s).pending.sequence = s.pending.sequence
         /\ Retry(s).pending.retries_done = s.pending.retries_done + 1
  BY DEF Asking, Sessions, Retry

(* A step that queues asks with the next sequence; any other that touches  *)
(* the session leaves it without a request.                                *)
Asks == /\ Asking(session')
        /\ session'.pending.sequence = session.next_sequence
        /\ session'.pending.retries_done = 0

(* What SetDeadline does to the clocks of such a step is a step of         *)
(* Deadline.                                                               *)
LEMMA SetDeadlineSteps ==
  ASSUME NextIsFresh, SetDeadline, Asks \/ Idle(session')
  PROVE  NextIsFresh' /\ [Requests!DeadlineNext]_(Requests!deadlineVars)
<1>0. NextIsFresh'
  BY DEF NextIsFresh, Asks
<1>1. session.next_sequence \in Sequences32 /\ session.next_sequence # 0
  BY DEF NextIsFresh, Idle, Asking, Sessions, Sequences32
<1>n. NoRequest.active = FALSE /\ NoRequest.sequence = 0 /\ NoRequest.retries_done = 0
  BY DEF NoRequest
<1>2. CASE Idle(session) /\ Asks
  <2>1. session'.pending.sequence # session.pending.sequence
    BY <1>1, <1>2, <1>n DEF Idle, Asks
  <2>2. session.pending.active = FALSE /\ session'.pending.active = TRUE
        /\ session'.pending.retries_done = 0
    BY <1>2, <1>n DEF Idle, Asks, Asking
  <2>3. Requests!Begin
    BY <2>1, <2>2 DEF SetDeadline, Requests!Begin
  <2> QED
    BY <1>0, <2>3 DEF Requests!DeadlineNext
<1>3. CASE Idle(session) /\ Idle(session')
  <2>1. session'.pending = session.pending
    BY <1>3 DEF Idle
  <2>2. UNCHANGED <<left, elapsed>>
    BY <2>1 DEF SetDeadline
  <2> QED
    BY <1>0, <2>1, <2>2 DEF Requests!deadlineVars
<1>4. CASE Asking(session) /\ Asks
  <2>1. session'.pending.sequence # session.pending.sequence
    BY <1>1, <1>4 DEF Asking, Asks
  <2>2. session.pending.active = TRUE /\ session'.pending.active = TRUE
        /\ session'.pending.retries_done = 0
    BY <1>4 DEF Asks, Asking
  <2>3. Requests!EndAndBegin
    BY <2>1, <2>2 DEF SetDeadline, Requests!EndAndBegin
  <2> QED
    BY <1>0, <2>3 DEF Requests!DeadlineNext
<1>5. CASE Asking(session) /\ Idle(session')
  <2>1. session'.pending.sequence # session.pending.sequence
    BY <1>n, <1>5 DEF Asking, Idle
  <2>2. session.pending.active = TRUE /\ session'.pending.active = FALSE
        /\ session'.pending.retries_done = 0
    BY <1>n, <1>5 DEF Idle, Asking
  <2>3. Requests!End
    BY <2>1, <2>2 DEF SetDeadline, Requests!End
  <2> QED
    BY <1>0, <2>3 DEF Requests!DeadlineNext
<1> QED
  BY <1>2, <1>3, <1>4, <1>5 DEF NextIsFresh

LEMMA QueueAsks ==
  ASSUME NEW s \in Sessions, s.next_sequence = session.next_sequence,
         NEW u, Queue(s, u)
  PROVE  Asks
  BY AskingSession DEF Queue, Asks

(* A validated image. *)
LEMMA StartAsks ==
  ASSUME NextIsFresh, StartTransfer
  PROVE  Asks \/ Idle(session')
<1> PICK next \in Upgrades :
      LET u == StartUpgrade(upgrade, next.image, next.version)
          s == Transition(session, "START_UPGRADE")
      IN  \/ Queue(s, u) /\ upgrade_result' = "OK"
          \/ /\ ~CanQueue(s, u)
             /\ Finish(NotQueued(s, u), Fail(u), "BUSY")
             /\ UNCHANGED output
  BY DEF StartTransfer
<1> DEFINE u == StartUpgrade(upgrade, next.image, next.version)
           s == Transition(session, "START_UPGRADE")
<1>1. s \in Sessions /\ s.next_sequence = session.next_sequence
  BY TransitedSession DEF NextIsFresh, Idle, Asking
<1>2. Queue(s, u) \/ Finish(NotQueued(s, u), Fail(u), "BUSY")
  OBVIOUS
<1> HIDE DEF s, u
<1> QED
  BY <1>1, <1>2, QueueAsks, NothingQueued, FinishedSession

(* An answer. *)
LEMMA ReplyAsks ==
  ASSUME NextIsFresh, NEW f, UpgradeReply(f)
  PROVE  Asks \/ Idle(session')
<1> DEFINE u == AcceptResponse(upgrade, session.pending.type, f)
           s == Complete(session)
           status == IF u.state = "COMPLETE" THEN "OK" ELSE "PROTOCOL"
<1>1. Idle(s) /\ s \in Sessions /\ s.next_sequence = session.next_sequence
  BY CancelledSession DEF NextIsFresh, Idle, Asking, Complete
<1>2. Finish(s, u, status) \/ Queue(s, u) \/ session' = NotQueued(s, u)
  BY DEF UpgradeReply
<1> HIDE DEF s, u, status
<1> QED
  BY <1>1, <1>2, QueueAsks, NothingQueued, FinishedSession

(* The last deadline of a request. *)
LEMMA ExhaustedAsks ==
  ASSUME NextIsFresh, TickExhausted
  PROVE  Asks \/ Idle(session')
<1> DEFINE s == Expire(session)
           u == IF CanRecover(upgrade) THEN BeginRecovery(upgrade) ELSE upgrade
           ended == IF CanRecover(upgrade) THEN NotQueued(s, u) ELSE s
<1>1. Idle(s) /\ s \in Sessions /\ s.next_sequence = session.next_sequence
  BY CancelledSession DEF NextIsFresh, Idle, Asking, Expire
<1>2. Queue(s, u) \/ Finish(ended, Fail(u), "TIMEOUT")
  BY DEF TickExhausted
<1> HIDE DEF s, u
<1>3. Idle(ended)
  BY <1>1, NothingQueued
<1> HIDE DEF ended
<1> QED
  BY <1>1, <1>2, <1>3, QueueAsks, FinishedSession

(***************************************************************************)
(* Every step of the system is a step of Deadline                          *)
(***************************************************************************)
LEMMA DeadlineStep ==
  ASSUME NextIsFresh, [TimedNext]_timedVars
  PROVE  NextIsFresh' /\ [Requests!DeadlineNext]_(Requests!deadlineVars)
<1>0. ASSUME UNCHANGED session
      PROVE  NextIsFresh'
  BY <1>0 DEF NextIsFresh, Idle, Asking
<1>1. CASE TimedStart
  BY <1>1, StartAsks, SetDeadlineSteps DEF TimedStart
<1>2. CASE TimedFlush
  BY <1>0, <1>2 DEF TimedFlush, FlushTransport, Requests!deadlineVars
<1>3. CASE TimedRead
  <2>1. UpgradeReply(Head(responses)) \/ UNCHANGED session
    BY <1>3 DEF TimedRead, ReadTransport, IgnoreFrame
  <2>2. CASE UpgradeReply(Head(responses))
    BY <1>3, <2>2, ReplyAsks, SetDeadlineSteps DEF TimedRead
  <2>3. CASE UNCHANGED session
    BY <1>0, <1>3, <2>3 DEF TimedRead, SetDeadline, Requests!deadlineVars
  <2> QED
    BY <2>1, <2>2, <2>3
<1>4. CASE TimedRetry
  <2>1. Asking(session) /\ ~Exhausted(session) /\ left <= 0
    BY <1>4 DEF TimedRetry, TickRetry, Due, NextIsFresh, Idle, NoRequest
  <2>2. CASE UNCHANGED stopped /\ session' = Retry(session)
    <3>1. ~stopped /\ left' = RetryInterval /\ elapsed' = elapsed
      BY <1>4, <2>2 DEF TimedRetry, TickRetry, Due
    <3>2. /\ session.pending.active = TRUE /\ session'.pending.active = TRUE
          /\ session'.pending.retries_done = session.pending.retries_done + 1
          /\ NextIsFresh'
      BY <2>1, <2>2, RetriedRequest DEF Asking, NextIsFresh
    <3>3. session.pending.retries_done < UpgradeRetries
      BY <2>1, TransferAssumption DEF Exhausted, Asking, Sessions
    <3>4. left' = Requests!Interval
      BY <3>1, TimingAssumption DEF Requests!Interval
    <3>5. Requests!Resend
      BY <2>1, <3>1, <3>2, <3>3, <3>4 DEF Requests!Resend
    <3> QED
      BY <3>2, <3>5 DEF Requests!DeadlineNext
  <2>3. CASE stopped' = TRUE /\ UNCHANGED session
    <3>1. UNCHANGED <<left, elapsed>>
      BY <1>4, <2>3 DEF TimedRetry
    <3> QED
      BY <1>0, <2>3, <3>1 DEF Requests!deadlineVars
  <2> QED
    BY <1>4, <2>2, <2>3 DEF TimedRetry, TickRetry
<1>5. CASE TimedExhausted
  BY <1>5, ExhaustedAsks, SetDeadlineSteps DEF TimedExhausted
<1>6. CASE TimedDevice
  BY <1>0, <1>6 DEF TimedDevice, DeviceHandles, hostVars, Requests!deadlineVars
<1>7. CASE TimePasses
  <2>1. UNCHANGED session
    BY <1>7 DEF TimePasses, vars, hostVars
  <2>2. Requests!Advance
    BY <1>7, <2>1 DEF TimePasses, Requests!Advance
  <2> QED
    BY <1>0, <2>1, <2>2 DEF Requests!DeadlineNext
<1>8. CASE UNCHANGED timedVars
  BY <1>0, <1>8 DEF timedVars, clocks, vars, hostVars, Requests!deadlineVars
<1> QED
  BY <1>1, <1>2, <1>3, <1>4, <1>5, <1>6, <1>7, <1>8 DEF TimedNext

LEMMA DeadlineStart == TimedInit => NextIsFresh /\ Requests!DeadlineInit
<1> SUFFICES ASSUME TimedInit PROVE NextIsFresh /\ Requests!DeadlineInit
  OBVIOUS
<1>1. session = [InitialSession EXCEPT !.state = "READY"]
  BY DEF TimedInit, TransferInit
<1>2. NoRequest \in [active : BOOLEAN, type : RequestTypes \union {"NONE"}, sequence : 0 .. Modulus - 1,
                     retries_done : Nat, max_retries : Nat]
  BY ModulusAssumption DEF NoRequest
<1>3. session = [state |-> "READY", next_sequence |-> 1, pending |-> NoRequest]
  BY <1>1 DEF InitialSession
<1>4. Idle(session)
  BY <1>2, <1>3, ModulusAssumption DEF Idle, Sessions, DeviceStates, Sequences32
<1>5. session.pending.active = FALSE /\ session.pending.retries_done = 0
  BY <1>4 DEF Idle, NoRequest
<1> QED
  BY <1>4, <1>5 DEF NextIsFresh, TimedInit, Requests!DeadlineInit

(* The host of an upgrade implements Deadline, whatever the outage does:   *)
(* no request waits longer, and none is repeated oftener, than its policy. *)
THEOREM UpgradesKeepDeadlines == TimedSpec => KeepsDeadlines
<1>1. TimedInit => NextIsFresh /\ Requests!DeadlineInit
  BY DeadlineStart
<1>2. NextIsFresh /\ [TimedNext]_timedVars
        => NextIsFresh' /\ [Requests!DeadlineNext]_(Requests!deadlineVars)
  BY DeadlineStep
<1> QED
  BY <1>1, <1>2, PTL DEF TimedSpec, KeepsDeadlines, Requests!DeadlineSpec

Proved == INSTANCE DeadlineProofs WITH
  MaxRetries <- UpgradeRetries, active <- session.pending.active,
  retries_done <- session.pending.retries_done

(* So an answer, a retry or the next step of the recovery follows every    *)
(* request of an upgrade within the allowance of its retry policy.         *)
THEOREM UpgradeRequestsEndInTime == TimedSpec => []Requests!EndsInTime
<1>1. Proved!GoodPolicy
  BY TimingAssumption, TransferAssumption DEF Proved!GoodPolicy
<1>2. Requests!DeadlineSpec => Proved!DeadlineSpec
  <2>1. Requests!DeadlineInit => Proved!DeadlineInit
    BY DEF Requests!DeadlineInit, Proved!DeadlineInit
  <2>2. [Requests!DeadlineNext]_(Requests!deadlineVars)
          => [Proved!DeadlineNext]_(Proved!deadlineVars)
    BY DEF Requests!DeadlineNext, Requests!deadlineVars, Requests!Begin, Requests!End,
           Requests!EndAndBegin, Requests!Resend, Requests!Interval, Requests!Advance,
           Proved!DeadlineNext, Proved!deadlineVars, Proved!Begin, Proved!End,
           Proved!EndAndBegin, Proved!Resend, Proved!Interval, Proved!Advance
  <2> QED
    BY <2>1, <2>2, PTL DEF Requests!DeadlineSpec, Proved!DeadlineSpec
<1>3. Proved!DeadlineSpec => []Proved!EndsInTime
  BY <1>1, Proved!RequestsEndInTime
<1>4. Proved!EndsInTime => Requests!EndsInTime
  BY DEF Proved!EndsInTime, Requests!EndsInTime, Proved!Allowance, Requests!Allowance,
         Proved!Interval, Requests!Interval
<1> QED
  BY <1>2, <1>3, <1>4, UpgradesKeepDeadlines, PTL DEF KeepsDeadlines

(***************************************************************************)
(* An outage forces a recovery cycle                                       *)
(*                                                                         *)
(* The device is silent for longer than a request may wait, so the host    *)
(* gives up the chunk that began the outage before it hears of it again.   *)
(* And every upgrade meets the outage: the last byte, if no earlier one,   *)
(* reaches the percentage.                                                 *)
(***************************************************************************)
Untried == upgrade.recovery_attempts = 0

(* Until the outage no chunk has taken the device to the percentage. *)
PercentNotReached ==
  ~injected /\ device.offset > 0 => (device.offset * 100) \div device.size < percent

(* A reactor that runs waits for an answer during an upgrade. *)
HostWaits == UpgradeActive(upgrade) /\ ~stopped => session.pending.active

(* Before a recovery cycle the upgrade does not pass TRANSFER, and a chunk *)
(* is underway in that state only.                                         *)
NotFinishing ==
  Untried => upgrade.state \in {"IDLE", "ENTER_BOOTLOADER", "BEGIN", "TRANSFER", "ERROR"}

ChunksBelong ==
  Untried /\ upgrade.state # "TRANSFER" => \A f \in InFlight : f.type # "FW_DATA"

(* The request during which the outage began stays without an answer, and  *)
(* the outage lasts until its age is Outage, past its last deadline.       *)
Unanswered == /\ \A k \in 1 .. Len(responses) : ~Pending(responses[k])
              /\ outage + elapsed >= Outage

SilenceHolds ==
  injected /\ Untried => upgrade.state = "TRANSFER" /\ (stopped \/ Unanswered)

OutageTypeOK == /\ injected \in BOOLEAN /\ outage \in Nat /\ elapsed \in Nat
                /\ percent \in 0 .. 100
                /\ IsSimulator
                /\ operations \in Nat /\ (operations = 0 => upgrade = InitialUpgrade)

OutageInv == /\ OutageTypeOK /\ PercentNotReached /\ HostWaits /\ NotFinishing
             /\ ChunksBelong /\ SilenceHolds

(* The program's policy gives a request 5.5 seconds, the outage lasts 6.   *)
OutageOutlasts == /\ Targets = {"simulator"} /\ MaxOperations = 1 /\ MaxRecovery > 0
                  /\ Requests!Allowance < Outage

LEMMA WholeIsHundred ==
  ASSUME NEW n \in Nat, n # 0
  PROVE  (n * 100) \div n = 100
  OBVIOUS

LEMMA PercentType ==
  ASSUME NEW m \in Nat, NEW n \in Nat, n # 0
  PROVE  (m * 100) \div n \in Nat
  OBVIOUS

LEMMA AllowanceType == Requests!Allowance \in Nat
<1>1. Requests!Interval \in Nat
  BY TimingAssumption DEF Requests!Interval
<1>2. UpgradeRetries * (Requests!Interval + TimerPeriod) \in Nat
  BY <1>1, TimingAssumption, TransferAssumption
<1> QED
  BY <1>2, TimingAssumption DEF Requests!Allowance

(* The simulator answers a chunk in one way. *)
LEMMA ChunkHasOneOutcome ==
  ASSUME NEW d, NEW f, f.type = "FW_DATA",
         NEW o \in SimulatorHandle(d, f), NEW q \in SimulatorHandle(d, f)
  PROVE  o = q
<1>1. SimulatorHandle(d, f) = FwData(d, f)
  BY DEF SimulatorHandle
<1>2. \E a : FwData(d, f) = {a}
  BY DEF FwData, Accepted, Refused
<1> QED
  BY <1>1, <1>2

(* Only devmgr_upgrade_begin_recovery and a new upgrade touch the count.   *)
LEMMA AttemptsKept ==
  ASSUME NEW u \in UpgradeRecords
  PROVE  /\ Built(u).recovery_attempts = u.recovery_attempts
         /\ Fail(u).recovery_attempts = u.recovery_attempts
         /\ Resume(u).recovery_attempts = u.recovery_attempts
         /\ BeginRecovery(u).recovery_attempts = u.recovery_attempts + 1
<1>1. \A state : [u EXCEPT !.state = state].recovery_attempts = u.recovery_attempts
  BY DEF UpgradeRecords
<1> QED
  BY <1>1 DEF Built, Fail, Resume, BeginRecovery, UpgradeRecords

LEMMA AnswerKeepsAttempts ==
  ASSUME NEW u \in UpgradeRecords, NEW type, NEW r
  PROVE  AcceptResponse(u, type, r).recovery_attempts = u.recovery_attempts
<1>1. \A state : [u EXCEPT !.state = state].recovery_attempts = u.recovery_attempts
  BY DEF UpgradeRecords
<1>2. \A x, y : [u EXCEPT !.session_id = x, !.offset = y].recovery_attempts
                  = u.recovery_attempts
  BY DEF UpgradeRecords
<1>3. \A x : [u EXCEPT !.offset = x].recovery_attempts = u.recovery_attempts
  BY DEF UpgradeRecords
<1>4. ASSUME NEW v, v \in {u} \union {[u EXCEPT !.offset = x] : x \in {r.payload[1], r.payload[2]}}
               \union {[u EXCEPT !.session_id = r.payload[1], !.offset = r.payload[2]]}
      PROVE  /\ Fail(v).recovery_attempts = u.recovery_attempts
             /\ Resume(v).recovery_attempts = u.recovery_attempts
  BY <1>2, <1>3, <1>4 DEF UpgradeRecords, Fail, Resume
<1> QED
  BY <1>1, <1>4 DEF AcceptResponse

(* A chunk that is written, or repeated, before the outage.                *)
LEMMA ChunkBelowPercent ==
  ASSUME OnlyLoss, TransferInv, RetriesAccepted, OutageInv, DeviceHandles,
         ~injected, ~OutageStarts, device'.offset # device.offset
  PROVE  device'.offset > 0 => (device'.offset * 100) \div device'.size < percent
<1>i. TransferTypeOK /\ LineFits /\ DeviceHoldsAsked /\ IsSimulator
  BY DEF TransferInv, TransferLine, OutageInv, OutageTypeOK
<1> DEFINE f == Head(requests)
<1>1. requests # <<>> /\ requests \in Seq(Frames)
  BY <1>i DEF DeviceHandles, TransferTypeOK
<1>2. f \in Frames /\ f \in InFlight
  <2>1. f \in Frames /\ f = requests[1] /\ 1 \in 1 .. Len(requests)
    BY <1>1
  <2> QED
    BY <2>1 DEF InFlight
<1>3. Fits(f) /\ Ready(f) /\ (device.upgrading => device.sid # 0)
  BY <1>2, <1>i DEF LineFits, RetriesAccepted
<1>4. PICK o \in SimulatorHandle(device, f) : device' = o.device
  BY <1>i DEF DeviceHandles
<1>5. device \in Simulators
  BY <1>i, KindOfDevice DEF TransferTypeOK
<1>6. Effect(f, o.frame) /\ Welcomed(f, o.frame)
  BY <1>2, <1>3, <1>4, <1>5, <1>i, SimulatorEffect, SimulatorWelcomes
<1>h. f.type = "FW_DATA" => \A q \in SimulatorHandle(device, f) : q = o
  BY <1>4, ChunkHasOneOutcome
<1>o. f.type = "FW_DATA" =>
        \E q \in SimulatorHandle(device, f) :
          \/ q.frame.type = "NACK" \/ q.device.size = 0
          \/ ~((q.device.offset * 100) \div q.device.size >= percent)
  BY DEF OutageStarts
<1> HIDE DEF f
<1>7. device'.offset \in Nat /\ device'.size \in Nat
  BY <1>6 DEF Effect, SameKind, Simulators, Boards
<1>8. CASE f.type = "FW_DATA" /\ Writing(f.payload)
  <2>1. o.frame.type # "NACK"
    BY <1>6, <1>8 DEF Welcomed
  <2>2. device'.size # 0
    <3>1. PICK next \in asked : Holds(next) /\ f.payload.offset < Len(next.image)
      BY <1>3, <1>8 DEF Fits
    <3>2. Len(next.image) \in Nat /\ f.payload.offset \in Nat
      BY <1>3, <1>8, <1>i, <3>1, TransferAssumption DEF TransferTypeOK, Fits
    <3> QED
      BY <1>8, <3>1, <3>2 DEF Writing, Holds
  <2>3. ~((device'.offset * 100) \div device'.size >= percent)
    BY <1>4, <1>8, <1>h, <1>o, <2>1, <2>2
  <2>4. (device'.offset * 100) \div device'.size \in Nat /\ percent \in Nat
    BY <1>7, <2>2, PercentType DEF OutageInv, OutageTypeOK
  <2> QED
    BY <2>3, <2>4
<1>9. CASE f.type = "FW_BEGIN" /\ Erasing(f.payload)
  BY <1>9 DEF Erasing
<1> QED
  BY <1>6, <1>8, <1>9 DEF Effect, Untouched, Leaving, Switching, Kept

(* The chunk that starts the outage had not been acknowledged. *)
LEMMA OutageFindsNoAnswer ==
  ASSUME TransferInv, RetriesAccepted, OutageInv, DeviceHandles, OutageStarts,
         upgrade.state = "TRANSFER",
         NEW k \in 1 .. Len(responses), Pending(responses[k])
  PROVE  FALSE
<1>i. /\ TransferTypeOK /\ LineFits /\ DeviceHoldsAsked /\ IsSimulator
      /\ CopiesAreLast /\ AnswersAreCurrent /\ HostKnowsDevice
  BY DEF TransferInv, TransferLine, OutageInv, OutageTypeOK
<1> DEFINE f == Head(requests)
<1>1. requests # <<>> /\ requests \in Seq(Frames)
  BY <1>i DEF DeviceHandles, TransferTypeOK
<1>2. f \in Frames /\ f \in InFlight
  <2>1. f \in Frames /\ f = requests[1] /\ 1 \in 1 .. Len(requests)
    BY <1>1
  <2> QED
    BY <2>1 DEF InFlight
<1>3. Fits(f) /\ f.type = "FW_DATA" /\ ~injected
  BY <1>2, <1>i DEF LineFits, OutageStarts
<1>4. PICK o \in SimulatorHandle(device, f) : device' = o.device
  BY <1>i DEF DeviceHandles
<1>5. Effect(f, o.frame)
  BY <1>2, <1>3, <1>4, <1>i, KindOfDevice, SimulatorEffect DEF TransferTypeOK
<1>6. (device'.offset * 100) \div device'.size >= percent /\ device'.size # 0
  BY <1>4 DEF OutageStarts
<1>7. responses[k].type = "FW_DATA"
  BY <1>i, AskTypes DEF RetriesAccepted, Welcome, AnswersAreCurrent, Answers
<1>8. device.offset = upgrade.last_chunk_end /\ f.payload = Ask.payload
  BY <1>2, <1>7, <1>i DEF AnswersAreCurrent, Answers, CopiesAreLast
<1> HIDE DEF f
<1>9. /\ upgrade.offset \in Nat /\ device.offset \in Nat
      /\ upgrade.offset < device.offset /\ f.payload.offset = upgrade.offset
  BY <1>8, <1>i, AskedChunk
<1>10. Untouched
  <2>0. f.payload.offset # device.offset
    BY <1>9
  <2>1. ~Writing(f.payload)
    BY <2>0 DEF Writing
  <2> QED
    BY <1>3, <1>5, <2>1 DEF Effect
<1>11. (device'.offset * 100) \div device'.size < percent
  BY <1>3, <1>9, <1>10 DEF Untouched, Kept, OutageInv, PercentNotReached
<1>12. (device'.offset * 100) \div device'.size \in Nat /\ percent \in Nat
  <2>1. device'.offset \in Nat /\ device'.size \in Nat
    BY <1>5 DEF Effect, SameKind, Simulators, Boards
  <2> QED
    BY <1>6, <2>1, PercentType, SMTT(30) DEF OutageInv, OutageTypeOK
<1> QED
  BY <1>6, <1>11, <1>12

(* A request that the device handles. *)
LEMMA OutageDevice ==
  ASSUME OnlyLoss, OutageOutlasts, TransferInv, RetriesAccepted, Requests!EndsInTime,
         OutageInv, TimedDevice
  PROVE  OutageInv'
<1>0. /\ DeviceHandles /\ UNCHANGED <<session, upgrade, operations, output, stopped>>
      /\ UNCHANGED <<elapsed, percent>>
      /\ injected' = (injected \/ OutageStarts)
      /\ outage' = IF OutageStarts THEN Outage ELSE outage
      /\ (outage' = 0) <=> (responses' # responses)
  BY DEF TimedDevice, DeviceHandles, hostVars
<1>i. TransferTypeOK /\ LineFits /\ DeviceHoldsAsked /\ LineInOrder
  BY DEF TransferInv, TransferLine
<1>t. /\ injected \in BOOLEAN /\ outage \in Nat /\ elapsed \in Nat
      /\ IsSimulator /\ PercentNotReached /\ NotFinishing /\ ChunksBelong
      /\ SilenceHolds /\ HostWaits
  BY DEF OutageInv, OutageTypeOK
<1>1. PICK f \in Frames, r \in Replies :
           /\ requests # <<>> /\ f = Head(requests) /\ f = requests[1]
           /\ Fits(f) /\ Effect(f, r)
  BY <1>0, <1>i, DeviceEffect
<1>2. f \in InFlight /\ InFlight' \subseteq InFlight
  <2>1. 1 \in 1 .. Len(requests) /\ requests \in Seq(Frames) /\ requests' = Tail(requests)
    BY <1>0, <1>1, <1>i DEF TransferTypeOK, DeviceHandles
  <2> QED
    BY <1>0, <1>1, <1>i, <2>1, LineTaken DEF InFlight
<1>3. OutageTypeOK'
  <2>1. IsSimulator'
    BY <1>1, <1>t DEF Effect, SameKind
  <2>2. outage' \in Nat
    BY <1>0, <1>t, TimingAssumption
  <2> QED
    BY <1>0, <2>1, <2>2 DEF OutageInv, OutageTypeOK
<1>4. PercentNotReached'
  <2> SUFFICES ASSUME ~injected, ~OutageStarts, device'.offset > 0
               PROVE  (device'.offset * 100) \div device'.size < percent
    BY <1>0, <1>t DEF PercentNotReached
  <2>1. CASE device'.offset = device.offset
    <3>1. \/ Untouched \/ Leaving(f.type) \/ Switching
          \/ Writing(f.payload) \/ Erasing(f.payload)
      BY <1>1 DEF Effect
    <3>2. ~Erasing(f.payload)
      BY DEF Erasing
    <3>3. device'.size = device.size
      BY <3>1, <3>2 DEF Untouched, Leaving, Switching, Kept, Writing
    <3> QED
      BY <1>t, <2>1, <3>3 DEF PercentNotReached
  <2> QED
    BY <1>0, <2>1, ChunkBelowPercent
<1>5. HostWaits' /\ NotFinishing'
  BY <1>0, <1>t DEF HostWaits, NotFinishing, Untried
<1>6. ChunksBelong'
  BY <1>0, <1>2, <1>t DEF ChunksBelong, Untried
<1>7. SilenceHolds'
  <2> SUFFICES ASSUME injected', Untried
               PROVE  upgrade.state = "TRANSFER" /\ (stopped \/ Unanswered')
    BY <1>0 DEF SilenceHolds, Untried
  <2>p. \A g : Pending(g)' <=> Pending(g)
    BY <1>0 DEF Pending
  <2>1. CASE injected
    <3>1. upgrade.state = "TRANSFER" /\ (stopped \/ Unanswered)
      BY <1>t, <2>1 DEF SilenceHolds
    <3>2. CASE ~stopped
      <4>1. elapsed <= Requests!Allowance
        BY <1>t, <3>1, <3>2 DEF HostWaits, UpgradeActive, Requests!EndsInTime
      <4>2. outage + elapsed >= Outage
        BY <3>1, <3>2 DEF Unanswered
      <4>3. outage # 0
        BY <1>t, <4>1, <4>2, AllowanceType, TimingAssumption DEF OutageOutlasts
      <4>4. outage' = outage /\ responses' = responses
        BY <1>0, <2>1, <4>3 DEF OutageStarts
      <4>5. Unanswered'
        BY <1>0, <2>p, <3>1, <3>2, <4>4 DEF Unanswered, Pending
      <4> QED
        BY <3>1, <4>5
    <3> QED
      BY <3>1, <3>2
  <2>2. CASE ~injected
    <3>1. OutageStarts /\ outage' = Outage
      BY <1>0, <2>2
    <3>2. f.type = "FW_DATA"
      BY <1>1, <3>1 DEF OutageStarts
    <3>3. upgrade.state = "TRANSFER"
      BY <1>2, <1>t, <3>2 DEF ChunksBelong
    <3>4. responses' = responses /\ Outage \in Nat
      BY <1>0, <3>1, TimingAssumption
    <3>5. \A k \in 1 .. Len(responses) : ~Pending(responses[k])
      BY <1>0, <3>1, <3>3, OutageFindsNoAnswer
    <3>6. outage' + elapsed' >= Outage
      BY <1>0, <1>t, <3>1, <3>4
    <3>7. Unanswered'
      BY <1>0, <3>4, <3>5, <3>6 DEF Unanswered, Pending
    <3> QED
      BY <3>3, <3>7
  <2> QED
    BY <2>1, <2>2
<1> QED
  BY <1>3, <1>4, <1>5, <1>6, <1>7 DEF OutageInv

(* A step of the host leaves the device and its outage alone. *)
LEMMA OutageByHost ==
  ASSUME OutageInv, UNCHANGED <<device, injected, outage, percent>>,
         elapsed' = elapsed \/ elapsed' = 0,
         operations' \in Nat, operations' = 0 => upgrade' = InitialUpgrade,
         HostWaits', NotFinishing', ChunksBelong', SilenceHolds'
  PROVE  OutageInv'
<1>1. OutageTypeOK'
  BY DEF OutageInv, OutageTypeOK, IsSimulator
<1>2. PercentNotReached'
  BY DEF OutageInv, PercentNotReached
<1> QED
  BY <1>1, <1>2 DEF OutageInv

(* What a queued request leaves: the host waits, and one more frame is     *)
(* underway.                                                               *)
LEMMA QueuedWaits ==
  ASSUME NEW s \in Sessions, NEW u \in UpgradeRecords, Queue(s, u), UNCHANGED requests
  PROVE  /\ session'.pending.active = TRUE
         /\ upgrade' = Built(u) /\ upgrade'.state = u.state
         /\ upgrade'.recovery_attempts = u.recovery_attempts
         /\ output'.type = RequestType(u)
         /\ InFlight' \subseteq InFlight \union {output'}
<1>1. /\ upgrade' = Built(u) /\ output'.type = RequestType(u)
      /\ session' = BeginRequest(s, RequestType(u), UpgradeRetries)
  BY DEF Queue
<1>2. InFlight' \subseteq InFlight \union {output'}
  BY DEF InFlight
<1> QED
  BY <1>1, <1>2, BegunSession, BuiltFacts, AttemptsKept

(* A validated image, the only one. *)
LEMMA OutageStart ==
  ASSUME OutageOutlasts, TransferInv, OutageInv, TimedStart
  PROVE  OutageInv'
<1>0. /\ StartTransfer /\ SetDeadline /\ UNCHANGED <<device, requests, responses>>
      /\ UNCHANGED <<outage, injected, percent>>
      /\ operations < MaxOperations /\ operations' = operations + 1
  BY DEF TimedStart, StartTransfer
<1>1. operations = 0 /\ upgrade = InitialUpgrade /\ operations' = 1
  BY <1>0 DEF OutageOutlasts, OutageInv, OutageTypeOK
<1>2. upgrade.state = "IDLE" /\ Untried
  BY <1>1 DEF InitialUpgrade, Untried
<1>3. ~injected /\ InFlight = {}
  BY <1>2 DEF OutageInv, SilenceHolds, TransferInv, TransferLine, HostKnowsDevice, HostKnows
<1>4. elapsed' = elapsed \/ elapsed' = 0
  BY <1>0 DEF SetDeadline
<1>5. PICK next \in Upgrades :
          LET u == StartUpgrade(upgrade, next.image, next.version)
              s == Transition(session, "START_UPGRADE")
          IN  \/ Queue(s, u)
              \/ Finish(NotQueued(s, u), Fail(u), "BUSY") /\ UNCHANGED output
  BY <1>0 DEF StartTransfer
<1> DEFINE u == StartUpgrade(upgrade, next.image, next.version)
           s == Transition(session, "START_UPGRADE")
<1>6. u \in UpgradeRecords /\ u.state = "ENTER_BOOTLOADER"
  BY StartedUpgrade
<1>7. s \in Sessions
  BY TransitedSession DEF TransferInv, TransferTypeOK
<1> HIDE DEF u, s
<1>8. CASE Queue(s, u)
  <2>1. /\ session'.pending.active = TRUE /\ upgrade'.state = "ENTER_BOOTLOADER"
        /\ output'.type = "ENTER_BOOTLOADER" /\ InFlight' \subseteq {output'}
    BY <1>0, <1>3, <1>6, <1>7, <1>8, QueuedWaits DEF RequestType
  <2>2. HostWaits' /\ NotFinishing' /\ ChunksBelong' /\ SilenceHolds'
    BY <1>0, <1>3, <2>1 DEF HostWaits, NotFinishing, ChunksBelong, SilenceHolds
  <2> QED
    BY <1>0, <1>1, <1>4, <2>2, OutageByHost
<1>9. CASE Finish(NotQueued(s, u), Fail(u), "BUSY") /\ UNCHANGED output
  <2>1. upgrade'.state = "ERROR" /\ InFlight' = {}
    BY <1>0, <1>3, <1>6, <1>9, FailedUpgrade DEF Finish, InFlight
  <2>2. HostWaits' /\ NotFinishing' /\ ChunksBelong' /\ SilenceHolds'
    BY <1>0, <1>3, <2>1
      DEF HostWaits, NotFinishing, ChunksBelong, SilenceHolds, UpgradeActive
  <2> QED
    BY <1>0, <1>1, <1>4, <2>2, OutageByHost
<1> QED
  BY <1>5, <1>8, <1>9 DEF u, s

(* A frame leaves the host. *)
LEMMA OutageFlush ==
  ASSUME TransferInv, OutageInv, TimedFlush
  PROVE  OutageInv'
<1>0. /\ requests' \in {requests, Append(requests, output)} /\ requests \in Seq(Frames)
      /\ output # NoFrame /\ output' = NoFrame
      /\ UNCHANGED <<session, upgrade, operations, stopped, responses, device>>
      /\ UNCHANGED <<elapsed, outage, injected, percent>>
  BY DEF TimedFlush, FlushTransport, TransferInv, TransferTypeOK
<1>1. InFlight' \subseteq InFlight
  <2>1. CASE requests' = requests
    BY <1>0, <2>1 DEF InFlight
  <2>2. CASE requests' = Append(requests, output)
    BY <1>0, <2>2, AppendProperties DEF InFlight
  <2> QED
    BY <1>0, <2>1, <2>2
<1>2. HostWaits' /\ NotFinishing' /\ ChunksBelong'
  BY <1>0, <1>1 DEF OutageInv, HostWaits, NotFinishing, ChunksBelong, Untried
<1>3. SilenceHolds'
  BY <1>0 DEF OutageInv, SilenceHolds, Untried, Unanswered, Pending
<1> QED
  BY <1>0, <1>2, <1>3, OutageByHost DEF OutageInv, OutageTypeOK

(* A copy of the request, or the end of the reactor. *)
LEMMA OutageRetry ==
  ASSUME TransferInv, OutageInv, TimedRetry
  PROVE  OutageInv'
<1>0. /\ TickRetry /\ UNCHANGED <<upgrade, operations, requests, responses, device>>
      /\ UNCHANGED <<elapsed, outage, injected, percent>>
      /\ ~stopped /\ session.pending.active /\ session \in Sessions
      /\ session.pending.type = RequestType(upgrade)
  BY DEF TimedRetry, TickRetry, Due, TransferInv, TransferTypeOK, TransferLine,
         PendingIsAsked
<1>1. NotFinishing'
  BY <1>0 DEF OutageInv, NotFinishing, Untried
<1>2. CASE UNCHANGED <<session, output>> /\ stopped' = TRUE
  <2>1. InFlight' = InFlight
    BY <1>0, <1>2 DEF InFlight
  <2>2. HostWaits' /\ ChunksBelong' /\ SilenceHolds'
    BY <1>0, <1>2, <2>1
      DEF OutageInv, HostWaits, ChunksBelong, Untried, SilenceHolds
  <2> QED
    BY <1>0, <1>1, <2>2, OutageByHost DEF OutageInv, OutageTypeOK
<1>3. CASE UNCHANGED stopped /\ session' = Retry(session)
           /\ output'.type = session.pending.type
  <2>1. /\ session'.pending.active = session.pending.active
        /\ session'.pending.sequence = session.pending.sequence
    BY <1>0, <1>3, RetriedSession
  <2>2. InFlight' \subseteq InFlight \union {output'}
    BY <1>0 DEF InFlight
  <2>3. upgrade.state # "TRANSFER" => output'.type # "FW_DATA"
    BY <1>0, <1>3 DEF RequestType
  <2>4. ChunksBelong'
    BY <1>0, <2>2, <2>3 DEF OutageInv, ChunksBelong, Untried
  <2>5. HostWaits' /\ SilenceHolds'
    BY <1>0, <1>3, <2>1
      DEF OutageInv, HostWaits, SilenceHolds, Untried, Unanswered, Pending
  <2> QED
    BY <1>0, <1>1, <2>4, <2>5, OutageByHost DEF OutageInv, OutageTypeOK
<1>4. \/ UNCHANGED <<session, output>> /\ stopped' = TRUE
      \/ /\ UNCHANGED stopped /\ session' = Retry(session)
         /\ output' = [type |-> session.pending.type, sequence |-> session.pending.sequence,
                       payload |-> RequestPayload(upgrade)]
  BY <1>0 DEF TickRetry
<1>5. ASSUME output' = [type |-> session.pending.type, sequence |-> session.pending.sequence,
                        payload |-> RequestPayload(upgrade)]
      PROVE  output'.type = session.pending.type
  BY <1>5
<1> QED
  BY <1>2, <1>3, <1>4, <1>5

(* The last deadline: in a transfer it begins the first recovery cycle. *)
LEMMA OutageExhausted ==
  ASSUME OutageOutlasts, TransferInv, RetriesAccepted, OutageInv, TimedExhausted
  PROVE  OutageInv'
<1>0. /\ TickExhausted /\ SetDeadline /\ UNCHANGED <<operations, requests, responses, device>>
      /\ UNCHANGED <<outage, injected, percent, stopped>>
      /\ ~stopped /\ session.pending.active /\ session \in Sessions
      /\ upgrade \in UpgradeRecords /\ UpgradeActive(upgrade)
  BY DEF TimedExhausted, TickExhausted, Due, TransferInv, TransferTypeOK, TransferLine,
         PendingIsAsked
<1>1. /\ elapsed' = elapsed \/ elapsed' = 0
      /\ operations' \in Nat /\ operations' # 0
  <2>1. upgrade # InitialUpgrade
    BY <1>0 DEF UpgradeActive, InitialUpgrade
  <2> QED
    BY <1>0, <2>1 DEF SetDeadline, OutageInv, OutageTypeOK
<1> DEFINE s == Expire(session)
           u == IF CanRecover(upgrade) THEN BeginRecovery(upgrade) ELSE upgrade
           ended == IF CanRecover(upgrade) THEN NotQueued(s, u) ELSE s
<1>2. \/ CanRecover(upgrade) /\ Queue(s, u)
      \/ Finish(ended, Fail(u), "TIMEOUT") /\ UNCHANGED output
  BY <1>0 DEF TickExhausted
<1>3. s \in Sessions
  BY <1>0, CancelledSession DEF Idle, Expire
<1>4. /\ u \in UpgradeRecords /\ upgrade.recovery_attempts \in Nat
      /\ CanRecover(upgrade) => u.recovery_attempts = upgrade.recovery_attempts + 1
      /\ ~CanRecover(upgrade) => u = upgrade
  BY <1>0, RecoveredUpgrade, AttemptsKept DEF UpgradeRecords
<1>5. upgrade.state = "TRANSFER" /\ Untried => CanRecover(upgrade)
  <2> SUFFICES ASSUME upgrade.state = "TRANSFER", Untried PROVE CanRecover(upgrade)
    OBVIOUS
  <2>1. device.sid = upgrade.session_id /\ device.upgrading
    BY DEF TransferInv, TransferLine, HostKnowsDevice, HostKnows, Loaded, OutageInv,
           OutageTypeOK
  <2>2. upgrade.session_id # 0
    BY <2>1 DEF RetriesAccepted, OutageInv, OutageTypeOK
  <2> QED
    BY <2>2 DEF CanRecover, Untried, OutageOutlasts
<1> HIDE DEF s, u, ended
<1>6. CASE CanRecover(upgrade) /\ Queue(s, u)
  <2>1. session'.pending.active /\ upgrade'.recovery_attempts = upgrade.recovery_attempts + 1
    BY <1>0, <1>3, <1>4, <1>6, QueuedWaits
  <2>2. ~Untried'
    BY <1>4, <2>1 DEF Untried
  <2>3. HostWaits' /\ NotFinishing' /\ ChunksBelong' /\ SilenceHolds'
    BY <2>1, <2>2 DEF HostWaits, NotFinishing, ChunksBelong, SilenceHolds
  <2> QED
    BY <1>0, <1>1, <2>3, OutageByHost
<1>7. CASE Finish(ended, Fail(u), "TIMEOUT") /\ UNCHANGED output
  <2>1. upgrade'.state = "ERROR" /\ upgrade'.recovery_attempts = u.recovery_attempts
    BY <1>4, <1>7, FailedUpgrade, AttemptsKept DEF Finish
  <2>2. Untried' => Untried /\ upgrade.state # "TRANSFER"
    <3>1. CASE CanRecover(upgrade)
      <4>1. upgrade'.recovery_attempts = upgrade.recovery_attempts + 1
        BY <1>4, <2>1, <3>1
      <4> QED
        BY <1>4, <4>1 DEF Untried
    <3>2. CASE ~CanRecover(upgrade)
      <4>1. upgrade'.recovery_attempts = upgrade.recovery_attempts
        BY <1>4, <2>1, <3>2
      <4> QED
        BY <1>5, <3>2, <4>1 DEF Untried
    <3> QED
      BY <3>1, <3>2
  <2>3. InFlight' = InFlight
    BY <1>0, <1>7 DEF InFlight
  <2>4. HostWaits' /\ NotFinishing' /\ ChunksBelong' /\ SilenceHolds'
    BY <1>0, <2>1, <2>2, <2>3
      DEF OutageInv, HostWaits, NotFinishing, ChunksBelong, SilenceHolds, UpgradeActive
  <2> QED
    BY <1>0, <1>1, <2>4, OutageByHost
<1> QED
  BY <1>2, <1>6, <1>7

(* The answer to a request before the outage does not end the transfer:    *)
(* with the last byte the percentage is reached, whatever it is.           *)
LEMMA TransferGoesOn ==
  ASSUME CrcTellsApart, TransferInv, RetriesAccepted, OutageInv,
         Untried, ~injected, UpgradeActive(upgrade), NEW r, Answers(r), Welcome(r)
  PROVE  LET u == AcceptResponse(upgrade, RequestType(upgrade), r)
         IN  \/ u.state = "BEGIN" /\ upgrade.state = "ENTER_BOOTLOADER"
             \/ u.state = "TRANSFER"
<1> DEFINE u == AcceptResponse(upgrade, RequestType(upgrade), r)
<1>1. Moved(u)
  BY AcceptedResponse
<1>2. u.state # "ERROR"
  BY AnswerIsTaken DEF OutageInv, OutageTypeOK
<1> HIDE DEF u
<1>3. upgrade.state \in {"ENTER_BOOTLOADER", "BEGIN", "TRANSFER"}
  BY DEF OutageInv, NotFinishing, UpgradeActive
<1>4. CASE /\ upgrade.state \in {"BEGIN", "TRANSFER", "RECOVER"} /\ u.state = "END"
           /\ Holds(Requested) /\ u.offset = device.offset /\ u.offset = Len(u.image)
           /\ u.image = upgrade.image
  <2>1. Requested \in Upgrades /\ Requested.image = upgrade.image
    BY <1>4 DEF TransferInv, TransferLine, TransferTypeOK, HostKnowsDevice, HostKnows,
                Requested
  <2>2. Len(upgrade.image) \in Nat /\ Len(upgrade.image) # 0
    <3>1. upgrade.image \in Seq(Nat) /\ upgrade.image # <<>>
      BY <2>1, TransferAssumption DEF NoImage
    <3> QED
      BY <3>1
  <2>3. device.size = device.offset /\ device.offset \in Nat /\ device.offset # 0
    BY <1>4, <2>1, <2>2 DEF Holds
  <2>4. (device.offset * 100) \div device.size < percent
    <3>1. device.offset > 0
      BY <2>3
    <3> QED
      BY <3>1 DEF OutageInv, PercentNotReached
  <2>5. 100 < percent
    <3>1. (device.offset * 100) \div device.offset = 100
      BY <2>3, WholeIsHundred
    <3> QED
      BY <2>3, <2>4, <3>1
  <2>6. percent \in 0 .. 100
    BY DEF OutageInv, OutageTypeOK
  <2> QED
    BY <2>5, <2>6
<1> QED
  BY <1>1, <1>2, <1>3, <1>4 DEF Moved, u

(* A frame from the device. *)
LEMMA OutageRead ==
  ASSUME CrcTellsApart, TransferInv, RetriesAccepted, OutageInv, TimedRead
  PROVE  OutageInv'
<1>0. /\ ~stopped /\ responses # <<>> /\ responses' = Tail(responses)
      /\ UpgradeReply(Head(responses)) \/ IgnoreFrame(Head(responses))
      /\ UNCHANGED <<operations, requests, device>>
      /\ SetDeadline /\ UNCHANGED <<outage, injected, percent>>
  BY DEF TimedRead, ReadTransport
<1>i. /\ responses \in Seq(Replies) /\ session \in Sessions /\ upgrade \in UpgradeRecords
      /\ PendingIsAsked /\ AnswersAreCurrent /\ IsSimulator
      /\ HostWaits /\ NotFinishing /\ ChunksBelong /\ SilenceHolds
  BY DEF TransferInv, TransferTypeOK, TransferLine, OutageInv, OutageTypeOK
<1>c. elapsed' = elapsed \/ elapsed' = 0
  BY <1>0 DEF SetDeadline
<1>1. CASE IgnoreFrame(Head(responses))
  <2>1. UNCHANGED <<session, upgrade, output, stopped, elapsed>>
    BY <1>0, <1>1 DEF IgnoreFrame, SetDeadline
  <2>2. InFlight' = InFlight
    BY <1>0, <2>1 DEF InFlight
  <2>3. HostWaits' /\ NotFinishing' /\ ChunksBelong'
    BY <1>i, <2>1, <2>2 DEF HostWaits, NotFinishing, ChunksBelong, Untried
  <2>4. \A k \in 1 .. Len(responses') :
          \E m \in 1 .. Len(responses) : responses'[k] = responses[m]
    BY <1>0, <1>i, FewerResponses
  <2>5. Unanswered => Unanswered'
    BY <1>0, <2>1, <2>4 DEF Unanswered, Pending
  <2>6. SilenceHolds'
    BY <1>0, <1>i, <2>1, <2>5 DEF SilenceHolds, Untried
  <2> QED
    BY <1>0, <1>c, <2>1, <2>3, <2>6, OutageByHost DEF OutageInv, OutageTypeOK
<1>2. CASE UpgradeReply(Head(responses))
  <2> DEFINE r == Head(responses)
             u == AcceptResponse(upgrade, session.pending.type, r)
             s == Complete(session)
  <2>1. 1 \in 1 .. Len(responses) /\ r = responses[1]
    BY <1>0, <1>i, HeadTailProperties
  <2>2. Pending(r)
    BY <1>2 DEF UpgradeReply, Matches, Pending
  <2>3. /\ UpgradeActive(upgrade) /\ session.pending.type = RequestType(upgrade)
        /\ Answers(r) /\ Welcome(r)
    BY <1>i, <2>1, <2>2 DEF PendingIsAsked, Pending, AnswersAreCurrent, RetriesAccepted
  <2>4. Untried => ~injected
    BY <1>0, <1>i, <2>1, <2>2 DEF SilenceHolds, Unanswered
  <2>5. Untried => \/ u.state = "BEGIN" /\ upgrade.state = "ENTER_BOOTLOADER"
                   \/ u.state = "TRANSFER"
    BY <2>3, <2>4, TransferGoesOn
  <2>6. u \in UpgradeRecords /\ u.recovery_attempts = upgrade.recovery_attempts
    BY <1>i, <2>3, AcceptedResponse, AnswerKeepsAttempts DEF Moved
  <2>7. s \in Sessions
    BY <1>i, CancelledSession DEF Idle, Complete
  <2>8. \/ u.state \in {"COMPLETE", "ERROR"} /\ upgrade' = u
        \/ Queue(s, u)
        \/ upgrade' = Built(u) /\ stopped' = TRUE /\ UNCHANGED output
    BY <1>2 DEF UpgradeReply, Finish
  <2>9. operations' \in Nat /\ operations' # 0
    <3>1. upgrade # InitialUpgrade
      BY <2>3 DEF UpgradeActive, InitialUpgrade
    <3> QED
      BY <1>0, <3>1 DEF OutageInv, OutageTypeOK
  <2> HIDE DEF r, u, s
  <2>10. ASSUME upgrade'.recovery_attempts = upgrade.recovery_attempts,
                HostWaits',
                Untried => /\ upgrade'.state = u.state
                           /\ InFlight' \subseteq InFlight \union {output'}
                           /\ u.state = "TRANSFER" \/ output'.type # "FW_DATA"
                              \/ output' = output
         PROVE  OutageInv'
    <3>1. Untried' <=> Untried
      BY <2>10 DEF Untried
    <3>2. NotFinishing'
      BY <2>5, <2>10, <3>1 DEF NotFinishing
    <3>3. SilenceHolds'
      BY <1>0, <2>4, <3>1 DEF SilenceHolds
    <3>4. ASSUME Untried, upgrade'.state # "TRANSFER", NEW f \in InFlight'
          PROVE  f.type # "FW_DATA"
      <4>1. upgrade.state = "ENTER_BOOTLOADER" /\ u.state # "TRANSFER"
        BY <2>5, <2>10, <3>4
      <4>2. \A g \in InFlight : g.type # "FW_DATA"
        BY <1>i, <3>4, <4>1 DEF ChunksBelong
      <4>3. CASE f \in InFlight
        BY <4>2, <4>3
      <4>4. CASE f = output' /\ output' # output
        BY <2>10, <3>4, <4>1, <4>4
      <4>5. CASE f = output' /\ output' = output
        BY <3>4, <4>2, <4>5, <1>0 DEF InFlight
      <4> QED
        BY <2>10, <3>4, <4>3, <4>4, <4>5
    <3>5. ChunksBelong'
      BY <3>1, <3>4 DEF ChunksBelong
    <3> QED
      BY <1>0, <1>c, <2>9, <2>10, <3>2, <3>3, <3>5, OutageByHost
  <2>11. CASE u.state \in {"COMPLETE", "ERROR"} /\ upgrade' = u
    <3>1. ~Untried
      BY <2>5, <2>11
    <3>2. HostWaits'
      BY <2>11 DEF HostWaits, UpgradeActive
    <3> QED
      BY <2>6, <2>10, <2>11, <3>1, <3>2
  <2>12. CASE Queue(s, u)
    <3>1. /\ session'.pending.active = TRUE /\ upgrade'.state = u.state
          /\ upgrade'.recovery_attempts = u.recovery_attempts
          /\ output'.type = RequestType(u)
          /\ InFlight' \subseteq InFlight \union {output'}
      BY <1>0, <2>6, <2>7, <2>12, QueuedWaits
    <3>2. u.state # "TRANSFER" => output'.type # "FW_DATA"
      BY <3>1 DEF RequestType
    <3>3. HostWaits'
      BY <3>1 DEF HostWaits
    <3> QED
      BY <2>6, <2>10, <3>1, <3>2, <3>3
  <2>13. CASE upgrade' = Built(u) /\ stopped' = TRUE /\ UNCHANGED output
    <3>1. /\ upgrade'.state = u.state
          /\ upgrade'.recovery_attempts = u.recovery_attempts
      BY <2>6, <2>13, BuiltFacts, AttemptsKept
    <3>2. InFlight' = InFlight /\ HostWaits'
      BY <1>0, <2>13 DEF InFlight, HostWaits
    <3> QED
      BY <2>6, <2>10, <2>13, <3>1, <3>2
  <2> QED
    BY <2>8, <2>11, <2>12, <2>13
<1> QED
  BY <1>0, <1>1, <1>2

(* Time passes: what the outage has left goes to the age of the request.   *)
LEMMA OutageTime ==
  ASSUME OutageInv, TimePasses
  PROVE  OutageInv'
<1>0. /\ UNCHANGED <<session, upgrade, operations, output, stopped, requests, responses, device>>
      /\ UNCHANGED <<injected, percent>>
      /\ outage' = IF outage = 0 THEN 0 ELSE outage - 1
      /\ elapsed' = IF session.pending.active THEN elapsed + 1 ELSE elapsed
  BY DEF TimePasses, vars, hostVars
<1>1. outage \in Nat /\ elapsed \in Nat /\ HostWaits /\ SilenceHolds
  BY DEF OutageInv, OutageTypeOK
<1>2. OutageTypeOK'
  <2>1. outage' \in Nat /\ elapsed' \in Nat
    BY <1>0, <1>1
  <2> QED
    BY <1>0, <2>1 DEF OutageInv, OutageTypeOK, IsSimulator
<1>3. PercentNotReached' /\ HostWaits' /\ NotFinishing'
  BY <1>0 DEF OutageInv, PercentNotReached, HostWaits, NotFinishing, Untried
<1>4. ChunksBelong'
  BY <1>0 DEF OutageInv, ChunksBelong, Untried, InFlight
<1>5. SilenceHolds'
  <2> SUFFICES ASSUME injected, Untried, ~stopped
               PROVE  upgrade.state = "TRANSFER" /\ Unanswered'
    BY <1>0, <1>1 DEF SilenceHolds, Untried
  <2>1. upgrade.state = "TRANSFER" /\ Unanswered
    BY <1>1 DEF SilenceHolds
  <2>2. session.pending.active
    BY <1>1, <2>1 DEF HostWaits, UpgradeActive
  <2>3. outage' + elapsed' >= Outage
    <3>1. outage + elapsed >= Outage
      BY <2>1 DEF Unanswered
    <3> QED
      BY <1>0, <1>1, <2>2, <3>1, TimingAssumption
  <2> QED
    BY <1>0, <2>1, <2>3 DEF Unanswered, Pending
<1> QED
  BY <1>2, <1>3, <1>4, <1>5 DEF OutageInv

LEMMA OutageKept ==
  ASSUME CrcTellsApart, OnlyLoss, OutageOutlasts, TransferInv, RetriesAccepted,
         Requests!EndsInTime, OutageInv, [TimedNext]_timedVars
  PROVE  OutageInv'
<1>1. CASE UNCHANGED timedVars
  BY <1>1 DEF timedVars, clocks, vars, hostVars, OutageInv, OutageTypeOK, IsSimulator,
              PercentNotReached, HostWaits, NotFinishing, ChunksBelong, SilenceHolds,
              Untried, Unanswered, InFlight, Pending
<1>2. CASE TimedNext
  BY <1>2, OutageStart, OutageFlush, OutageRead, OutageRetry, OutageExhausted,
     OutageDevice, OutageTime DEF TimedNext
<1> QED
  BY <1>1, <1>2

LEMMA OutageBegins ==
  ASSUME OutageOutlasts, TimedInit
  PROVE  OutageInv
<1>1. /\ upgrade = InitialUpgrade /\ operations = 0 /\ ~injected /\ injected \in BOOLEAN
      /\ outage = 0 /\ elapsed = 0 /\ percent \in 0 .. 100
      /\ output = NoFrame /\ requests = <<>>
  BY TimingAssumption DEF TimedInit, TransferInit
<1>2. upgrade.state = "IDLE"
  BY <1>1 DEF InitialUpgrade
<1>3. device = BootSimulator
  BY DEF TimedInit, TransferInit, OutageOutlasts
<1>4. IsSimulator /\ device.offset = 0
  BY <1>3 DEF IsSimulator, BootSimulator
<1>5. OutageTypeOK
  BY <1>1, <1>4 DEF OutageTypeOK
<1>6. PercentNotReached
  BY <1>4 DEF PercentNotReached
<1>7. InFlight = {}
  BY <1>1 DEF InFlight
<1> QED
  BY <1>1, <1>2, <1>5, <1>6, <1>7 DEF OutageInv, HostWaits, NotFinishing, ChunksBelong,
     SilenceHolds, UpgradeActive

(* docs/reliability.md: the outage "deterministically exhausts normal data *)
(* retries and exercises FW_STATUS resume".  Whatever the image and the    *)
(* percentage, an outage longer than a request's policy allows is followed *)
(* by a recovery cycle before the transfer is over: in the upgrade of one  *)
(* session with the simulator, on a line that loses frames to the outage   *)
(* only.                                                                   *)
THEOREM OutageIsRecovered ==
  CrcTellsApart /\ OnlyLoss /\ OutageOutlasts =>
    (TimedSpec /\ [][NoWrap]_session => []OutageForcesRecovery)
<1> SUFFICES ASSUME CrcTellsApart, OnlyLoss, OutageOutlasts
             PROVE  TimedSpec /\ [][NoWrap]_session => []OutageForcesRecovery
  OBVIOUS
<1>1. TimedSpec => TransferSpec
  <2>1. TimedInit => TransferInit
    BY DEF TimedInit
  <2>2. [TimedNext]_timedVars => [TransferNext]_vars
    BY DEF TimedNext, TimedStart, TimedFlush, TimedRead, TimedRetry, TimedExhausted,
           TimedDevice, TimePasses, timedVars, TransferNext
  <2> QED
    BY <2>1, <2>2, PTL DEF TimedSpec, TransferSpec
<1>2. TransferSpec /\ [][NoWrap]_session => []SequenceIsFresh
  BY FreshUntilWrap, TimingAssumption
<1>3. TransferSpec /\ []SequenceIsFresh => []TransferInv
  BY TransferInvariance
<1>4. TransferSpec /\ []SequenceIsFresh => []RetriesAccepted
  BY RetriesStayAccepted
<1>5. TimedSpec => []Requests!EndsInTime
  BY UpgradeRequestsEndInTime
<1>6. TimedInit => OutageInv
  BY OutageBegins
<1>7. TransferInv /\ RetriesAccepted /\ Requests!EndsInTime /\ OutageInv
        /\ [TimedNext]_timedVars => OutageInv'
  BY OutageKept
<1>8. TransferInv /\ OutageInv => OutageForcesRecovery
  <2> SUFFICES ASSUME TransferInv, OutageInv, injected,
                      upgrade.state \notin {"TRANSFER", "RECOVER"}
               PROVE  upgrade.recovery_attempts > 0
    BY DEF OutageForcesRecovery
  <2>1. upgrade.recovery_attempts \in Nat
    BY DEF TransferInv, TransferTypeOK, UpgradeRecords
  <2>2. ~Untried
    BY DEF OutageInv, SilenceHolds
  <2> QED
    BY <2>1, <2>2 DEF Untried
<1> QED
  BY <1>1, <1>2, <1>3, <1>4, <1>5, <1>6, <1>7, <1>8, PTL DEF TimedSpec
=============================================================================
