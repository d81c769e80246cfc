-------------------------------- MODULE Wire --------------------------------
(***************************************************************************)
(* The byte formats: the frame codec of the host (src/protocol/frame.c),   *)
(* the one of the STM32 firmware (firmware/stm32f103/common/protocol.c)    *)
(* and the IPC codec (src/ipc/codec.c).  A frame is encoded by one side,   *)
(* damaged on the line bit by bit, and decoded by the other; the loop of   *)
(* the CRC is one step for each byte.                                      *)
(*                                                                         *)
(* A 32-bit field is a word of Crc32, a 16-bit one an integer.             *)
(***************************************************************************)
EXTENDS Crc32

CONSTANTS
  Frames,         \* the frames sent: [type, flags, sequence, payload]
  Statuses,       \* the values of an IPC status, an int32_t
  MaxPayload,     \* DEVMGR_PROTOCOL_MAX_PAYLOAD, 4096 in the program
  DamagedBits,    \* the bits of a byte that may be damaged
  MaxFlips        \* bound on the bits damaged in one frame

Byte == 0 .. 255
Int32(value) == value \in Int /\ -2147483647 - 1 <= value /\ value <= 2147483647

ASSUME MessageAssumption ==
  /\ \A f \in Frames : /\ f.type \in Byte /\ f.flags \in Byte /\ f.sequence \in Word
                      /\ f.payload \in Seq(Byte) /\ Len(f.payload) <= MaxPayload
  /\ \A status \in Statuses : Int32(status)

ASSUME BoundAssumption ==
  /\ MaxPayload \in Nat /\ MaxPayload <= 65535
  /\ MaxFlips \in Nat /\ DamagedBits \subseteq 0 .. 7

VARIABLES
  sender, receiver,   \* which codec each side uses: "host" or "stm32"
  frame,              \* the frame that is sent
  line,               \* its bytes, as written, damaged and read
  pc,                 \* "encode", "line", "decode", "accepted", "refused"
  n, crc,             \* the CRC loop: bytes done, register
  rest,               \* history: the remainder of those bytes
  flips, cut          \* history: the damage

vars == <<sender, receiver, frame, line, pc, n, crc, rest, flips, cut>>

PutLe16(value) == <<value % 256, value \div 256>>
GetLe16(data, at) == data[at] + 256 * data[at + 1]

PutLe32(word) ==
  [k \in 1 .. 4 |-> SumSet({2 ^ i : i \in {j \in 0 .. 7 : 8 * (k - 1) + j \in word}})]
GetLe32(data, at) ==
  {i \in 0 .. 31 : i % 8 \in ByteBits(data[at + i \div 8])}

(* The same for an int32_t, or a uint32_t below 2^31, as a number: the     *)
(* casts to uint32_t and back are two's complement.                        *)
PutInt32(value) ==
  <<value % 256, (value \div 256) % 256, (value \div 65536) % 256,
    (value \div 16777216) % 256>>
GetInt32(data, at) ==
  data[at] + 256 * data[at + 1] + 65536 * data[at + 2]
    + 16777216 * (IF data[at + 3] < 128 THEN data[at + 3] ELSE data[at + 3] - 256)

(***************************************************************************)
(* Device frames, positions counted from 1                                 *)
(***************************************************************************)
Magic == 19780              \* 0x4D44
HeaderSize == 12
CrcSize == 4

(* devmgr_frame_encode and stm32_frame_encode up to the CRC. *)
Body(f) ==
  PutLe16(Magic) \o <<1, f.type, f.flags, 0>> \o PutLe32(f.sequence)
    \o PutLe16(Len(f.payload)) \o f.payload

Stm32Body(f) ==
  PutLe16(Magic) \o <<1, f.type, f.flags, 0>> \o PutLe32(f.sequence)
    \o PutLe16(Len(f.payload)) \o f.payload

(* What a decoder reads from bytes it accepts. *)
Decoded(data) ==
  [type |-> data[4], flags |-> data[5], sequence |-> GetLe32(data, 7),
   payload |-> SubSeq(data, HeaderSize + 1, Len(data) - CrcSize)]
PayloadLength(data) == GetLe16(data, 11)

(* What devmgr_frame_decode checks before the CRC. *)
GoodHeader(data) ==
  /\ Len(data) >= HeaderSize + CrcSize
  /\ GetLe16(data, 1) = Magic /\ data[3] = 1 /\ data[6] = 0
  /\ PayloadLength(data) <= MaxPayload
  /\ Len(data) = HeaderSize + PayloadLength(data) + CrcSize

Stm32GoodHeader(data) ==
  /\ Len(data) >= HeaderSize + CrcSize
  /\ GetLe16(data, 1) = Magic /\ data[3] = 1 /\ data[6] = 0
  /\ PayloadLength(data) <= MaxPayload
  /\ Len(data) = HeaderSize + PayloadLength(data) + CrcSize

(* One round of the loop of stm32_crc32. *)
Stm32UpdateByte(word, byte) ==
  LET after[bit \in 0 .. 8] ==
        IF bit = 0 THEN Xor(word, ByteBits(byte)) ELSE Step(after[bit - 1])
  IN  after[8]

(***************************************************************************)
(* IPC messages                                                            *)
(***************************************************************************)
IpcMagic == 20553           \* 0x5049
RequestHeaderSize == 8
ResponseHeaderSize == 12

EncodeRequest(request) ==
  PutLe16(IpcMagic) \o <<1, request.command>>
    \o PutInt32(Len(request.payload)) \o request.payload

(* Mutant: the status is cut to its low byte. *)
EncodeStatusByte(response) ==
  PutLe16(IpcMagic) \o <<1, response.command>>
    \o PutInt32(response.status % 256)
    \o PutInt32(Len(response.payload)) \o response.payload

EncodeResponse(response) ==
  PutLe16(IpcMagic) \o <<1, response.command>> \o PutInt32(response.status)
    \o PutInt32(Len(response.payload)) \o response.payload

ValidHeader(data, header) ==
  Len(data) >= header /\ GetLe16(data, 1) = IpcMagic /\ data[3] = 1

(* devmgr_ipc_decode_request and _response return DEVMGR_OK. *)
DecodesRequest(data) ==
  /\ ValidHeader(data, RequestHeaderSize)
  /\ GetInt32(data, 5) \in 0 .. MaxPayload
  /\ Len(data) = RequestHeaderSize + GetInt32(data, 5)
DecodedRequest(data) ==
  [command |-> data[4], payload |-> SubSeq(data, RequestHeaderSize + 1, Len(data))]

DecodesResponse(data) ==
  /\ ValidHeader(data, ResponseHeaderSize)
  /\ GetInt32(data, 9) \in 0 .. MaxPayload
  /\ Len(data) = ResponseHeaderSize + GetInt32(data, 9)
DecodedResponse(data) ==
  [command |-> data[4], status |-> GetInt32(data, 5),
   payload |-> SubSeq(data, ResponseHeaderSize + 1, Len(data))]

(***************************************************************************)
(* The line                                                                *)
(***************************************************************************)
BodyOf(f) == IF sender = "host" THEN Body(f) ELSE Stm32Body(f)

Init ==
  /\ sender \in {"host", "stm32"} /\ receiver \in {"host", "stm32"}
  /\ frame \in Frames
  /\ line = BodyOf(frame) /\ pc = "encode"
  /\ n = 0 /\ crc = CrcInit /\ rest = CrcInit
  /\ flips = {} /\ cut = FALSE

Covered == IF pc = "encode" THEN Len(line) ELSE Len(line) - CrcSize
Side == IF pc = "encode" THEN sender ELSE receiver

CrcByte ==
  /\ pc \in {"encode", "decode"} /\ n < Covered
  /\ crc' = IF Side = "host" THEN UpdateByte(crc, line[n + 1])
                             ELSE Stm32UpdateByte(crc, line[n + 1])
  /\ rest' = Divide(rest, line[n + 1])
  /\ n' = n + 1
  /\ UNCHANGED <<sender, receiver, frame, line, pc, flips, cut>>

Send ==
  /\ pc = "encode" /\ n = Covered
  /\ line' = line \o PutLe32(Finish(crc))
  /\ pc' = "line"
  /\ n' = 0 /\ crc' = CrcInit /\ rest' = CrcInit
  /\ UNCHANGED <<sender, receiver, frame, flips, cut>>

(* One more bit is damaged, later in the frame than the ones before. *)
Flip ==
  \E at \in 1 .. Len(line), bit \in DamagedBits :
    /\ pc = "line" /\ Cardinality(flips) < MaxFlips
    /\ \A p \in flips : p[1] < at \/ (p[1] = at /\ p[2] < bit)
    /\ line' = [line EXCEPT ![at] = IF bit \in ByteBits(@) THEN @ - 2 ^ bit
                                                           ELSE @ + 2 ^ bit]
    /\ flips' = flips \union {<<at, bit>>}
    /\ UNCHANGED <<sender, receiver, frame, pc, n, crc, rest, cut>>

(* The end of the frame is lost. *)
Truncate ==
  /\ pc = "line" /\ ~cut /\ flips = {}
  /\ \E length \in 0 .. Len(line) - 1 : line' = SubSeq(line, 1, length)
  /\ cut' = TRUE
  /\ UNCHANGED <<sender, receiver, frame, pc, n, crc, rest, flips>>

Receive ==
  /\ pc = "line"
  /\ pc' = IF IF receiver = "host" THEN GoodHeader(line) ELSE Stm32GoodHeader(line)
           THEN "decode" ELSE "refused"
  /\ UNCHANGED <<sender, receiver, frame, line, n, crc, rest, flips, cut>>

(* Mutant: the CRC is not compared. *)
AcceptAnyCrc ==
  /\ pc = "decode" /\ n = Covered
  /\ pc' = "accepted"
  /\ UNCHANGED <<sender, receiver, frame, line, n, crc, rest, flips, cut>>

CompareCrc ==
  /\ pc = "decode" /\ n = Covered
  /\ pc' = IF Finish(crc) = GetLe32(line, Covered + 1) THEN "accepted" ELSE "refused"
  /\ UNCHANGED <<sender, receiver, frame, line, n, crc, rest, flips, cut>>

Next == CrcByte \/ Send \/ Flip \/ Truncate \/ Receive \/ CompareCrc

Spec == Init /\ [][Next]_vars

(***************************************************************************)
(* Properties                                                              *)
(***************************************************************************)
(* At every byte the register of the bitwise loop is the remainder of the  *)
(* polynomial division of docs/protocol.md, on both sides, whatever the    *)
(* bytes are.                                                              *)
CrcIsRemainder == crc = Mirrored(rest)

Damaged == flips # {} \/ cut

(* What one side encodes the other decodes to the same frame; and a frame  *)
(* with up to MaxFlips damaged bits anywhere, the length and the CRC       *)
(* itself included, or cut short, is refused by either side.               *)
FrameIntactOrRefused == /\ pc = "refused" => Damaged
                        /\ pc = "accepted" => ~Damaged /\ Decoded(line) = frame

(* Every IPC message decodes to what was encoded, negative statuses        *)
(* included, and no proper part of it decodes: a reader that stops early   *)
(* is told so.                                                             *)
IpcSurvives ==
  LET request == [command |-> frame.type, payload |-> frame.payload]
      bytes == EncodeRequest(request)
  IN  pc = "encode" =>
      /\ DecodesRequest(bytes) /\ DecodedRequest(bytes) = request
      /\ \A part \in 0 .. Len(bytes) - 1 : ~DecodesRequest(SubSeq(bytes, 1, part))
      /\ \A status \in Statuses :
           LET response == [command |-> frame.type, status |-> status,
                            payload |-> frame.payload]
               answer == EncodeResponse(response)
           IN  /\ DecodesResponse(answer) /\ DecodedResponse(answer) = response
               /\ \A part \in 0 .. Len(answer) - 1 : ~DecodesResponse(SubSeq(answer, 1, part))
=============================================================================
