------------------------------- MODULE Parser -------------------------------
(***************************************************************************)
(* The stream parser of src/protocol/parser.c with the frame codec of      *)
(* src/protocol/frame.c, fed by a caller that reads a byte stream in       *)
(* pieces of any size.  The stream is chosen at the start: frames as they  *)
(* were sent, frames that were damaged on the way, and noise.              *)
(*                                                                         *)
(* A byte is represented by its position in the stream, and Value gives    *)
(* what the byte is; so the history can tell which bytes a delivered frame *)
(* was made of.  The header is four units (magic, magic, everything else,  *)
(* length) and the CRC one unit.                                           *)
(***************************************************************************)
EXTENDS RingBuffer

CONSTANTS
  Magic,            \* the two magic units
  GoodTags,         \* what the rest of a valid header may be: version 1,
                    \* reserved 0, any type, flags and sequence
  MaxPayload,       \* DEVMGR_PROTOCOL_MAX_PAYLOAD, 4096 in the program
  Crc(_),           \* devmgr_crc32 of a header and payload
  Streams,          \* the streams: [units, frames], where frames are the
                    \* <<first, last>> positions of the undamaged frames
  Damaged(_),       \* the positions of a stream inside a damaged frame
  MaxRead,          \* sizeof(input) of the caller, 2048 in the program
  ReadSizes,        \* how many bytes one read may return
  MaxFailures       \* bound on the callbacks that fail

HeaderSize == 4
CrcSize == 1
MaxFrame == HeaderSize + MaxPayload + CrcSize

ASSUME ParserAssumption ==
  /\ Capacity = 2 * MaxFrame              \* DEVMGR_PARSER_CAPACITY
  /\ MaxPayload \in Nat /\ MaxFailures \in Nat
  /\ MaxRead \in 1 .. MaxFrame /\ ReadSizes \subseteq 1 .. MaxRead
  /\ \A s \in Streams : s.units \in Seq(Nat)

VARIABLES
  stream,           \* the bytes on their way
  taken,            \* how many of them the caller has read
  input, stats,     \* the parser
  feed,             \* the locals of devmgr_parser_feed
  pc,               \* where it is: "idle", "write", "drain", "last_drain"
  result,           \* what the last call returned
  failures,         \* how many callbacks have failed
  delivered,        \* history: the bytes of the frames given to the callback
  handed,           \* history: how many bytes those calls were given
  dropped           \* history: bytes a failed call never put into the ring

vars == <<stream, taken, input, stats, feed, pc, result, failures, delivered, handed, dropped>>
callerVars == <<stream, taken>>

Value(window) == [i \in 1 .. Len(window) |-> stream.units[window[i]]]

NoStats == [bytes_received |-> 0, frames_decoded |-> 0, crc_errors |-> 0,
            length_errors |-> 0, discarded_bytes |-> 0]
NoFeed == [data |-> <<>>, offset |-> 0]

(***************************************************************************)
(* The frame codec                                                         *)
(***************************************************************************)
Encode(tag, payload) ==
  LET body == Magic \o <<tag, Len(payload)>> \o payload
  IN  Append(body, Crc(body))

(* Mutant: the CRC is not compared. *)
AnyCrc(units) == TRUE

(* devmgr_frame_decode of a window whose header has been looked at. *)
Decodes(units) ==
  units[Len(units)] = Crc(SubSeq(units, 1, Len(units) - CrcSize))

(***************************************************************************)
(* devmgr_parser_feed                                                      *)
(***************************************************************************)
Init ==
  /\ stream \in Streams
  /\ taken = 0
  /\ input = RingInit([p \in Positions |-> 0])
  /\ stats = NoStats /\ feed = NoFeed
  /\ pc = "idle" /\ result = "OK" /\ failures = 0
  /\ delivered = {} /\ handed = 0 /\ dropped = {}

(* The caller has read the next n bytes and calls devmgr_parser_feed. *)
Feed ==
  /\ pc = "idle"
  /\ \E n \in ReadSizes :
       /\ taken + n <= Len(stream.units)
       /\ taken' = taken + n
       /\ feed' = [NoFeed EXCEPT !.data = [i \in 1 .. n |-> taken + i]]
  /\ pc' = "write"
  /\ UNCHANGED <<stream, input, stats, result, failures, delivered, handed, dropped>>

Rest == SubSeq(feed.data, feed.offset + 1, Len(feed.data))

(* A write that finds no room would end the call with OVERFLOW; that it    *)
(* never happens is part of RoomForReads.                                  *)
Write ==
  LET written == RingWritten(input, Rest)
  IN  /\ pc = "write"
      /\ input' = RingWrite(input, Rest)
      /\ stats' = [stats EXCEPT !.bytes_received = @ + written]
      /\ feed' = [feed EXCEPT !.offset = @ + written]
      /\ pc' = "drain"
      /\ UNCHANGED <<callerVars, result, failures, delivered, handed, dropped>>

(***************************************************************************)
(* parser_drain: one action for each way through its loop                  *)
(***************************************************************************)
Draining == pc \in {"drain", "last_drain"}
HasMagic == /\ input.size >= 2
            /\ Value(RingPeek(input, 0, 2)) = Magic
Header == Value(RingPeek(input, 0, HeaderSize))
HasHeader == HasMagic /\ input.size >= HeaderSize
GoodHeader == HasHeader /\ Header[3] \in GoodTags

(* Mutant: the length is not checked. *)
AnyLength == TRUE

LengthFits == Header[4] <= MaxPayload

FrameLength == HeaderSize + Header[4] + CrcSize

Complete == GoodHeader /\ LengthFits /\ input.size >= FrameLength

Window == RingPeek(input, 0, FrameLength)

(* Mutant: all that was read of a bad frame is thrown away. *)
SkipFrame(counted) ==
  /\ Draining
  /\ input' = RingDiscard(input, IF Complete THEN FrameLength ELSE 1)
  /\ stats' = counted
  /\ UNCHANGED <<callerVars, feed, pc, result, failures, delivered, handed, dropped>>

(* Discard one byte and go round again. *)
Resync(counted) ==
  /\ Draining
  /\ input' = RingDiscard(input, 1)
  /\ stats' = counted
  /\ UNCHANGED <<callerVars, feed, pc, result, failures, delivered, handed, dropped>>

DiscardNoise == /\ input.size >= 2 /\ ~HasMagic
                /\ Resync([stats EXCEPT !.discarded_bytes = @ + 1])
DiscardBadHeader == /\ HasHeader /\ ~GoodHeader
                    /\ Resync([stats EXCEPT !.discarded_bytes = @ + 1])
DiscardTooLong == /\ GoodHeader /\ ~LengthFits
                  /\ Resync([stats EXCEPT !.discarded_bytes = @ + 1,
                                          !.length_errors = @ + 1])
DiscardBadCrc == /\ Complete /\ ~Decodes(Value(Window))
                 /\ Resync([stats EXCEPT !.discarded_bytes = @ + 1,
                                         !.crc_errors = @ + 1])

Emit ==
  /\ Draining /\ Complete /\ Decodes(Value(Window))
  /\ input' = RingDiscard(input, FrameLength)
  /\ stats' = [stats EXCEPT !.frames_decoded = @ + 1]
  /\ delivered' = delivered \union {Window}
  /\ handed' = handed + Len(Window)

EmitFrame == /\ Emit
             /\ UNCHANGED <<callerVars, feed, pc, result, failures, dropped>>

(* Mutant: the frame is discarded only after the callback succeeded. *)
CallbackFailsFirst ==
  /\ Draining /\ Complete /\ Decodes(Value(Window))
  /\ failures < MaxFailures /\ failures' = failures + 1
  /\ result' = "IO" /\ pc' = "idle" /\ feed' = NoFeed
  /\ dropped' = dropped \union {feed.data[i] : i \in feed.offset + 1 .. Len(feed.data)}
  /\ UNCHANGED <<callerVars, input, stats, delivered, handed>>

(* The callback fails (on_frame: the answer cannot be written): the call   *)
(* returns at once, and the bytes not yet in the ring are lost.            *)
CallbackFails ==
  /\ Emit
  /\ failures < MaxFailures /\ failures' = failures + 1
  /\ result' = "IO" /\ pc' = "idle" /\ feed' = NoFeed
  /\ dropped' = dropped \union {feed.data[i] : i \in feed.offset + 1 .. Len(feed.data)}
  /\ UNCHANGED callerVars

(* The loop ends: two bytes, a header or a frame are not complete. *)
Starved == \/ input.size < 2
           \/ HasMagic /\ input.size < HeaderSize
           \/ GoodHeader /\ LengthFits /\ ~Complete

DrainEnds ==
  /\ Draining /\ Starved
  /\ \/ /\ pc = "drain"
        /\ pc' = IF feed.offset < Len(feed.data) THEN "write" ELSE "last_drain"
        /\ UNCHANGED <<feed, result>>
     \/ /\ pc = "last_drain"
        /\ pc' = "idle" /\ result' = "OK" /\ feed' = NoFeed
  /\ UNCHANGED <<callerVars, input, stats, failures, delivered, handed, dropped>>

Next == \/ Feed \/ Write \/ DiscardNoise \/ DiscardBadHeader \/ DiscardTooLong
        \/ DiscardBadCrc \/ EmitFrame \/ CallbackFails \/ DrainEnds

Spec == Init /\ [][Next]_vars

(***************************************************************************)
(* Properties                                                              *)
(***************************************************************************)
Span(frame) == frame[1] .. frame[2]
Bytes(window) == {window[i] : i \in 1 .. Len(window)}
Waiting == Bytes(Contents(input)) \union Bytes(Rest)
WasDelivered(frame) ==
  \E window \in delivered : window[1] = frame[1] /\ Bytes(window) = Span(frame)

(* No byte is lost or reordered inside the parser, at every fill and       *)
(* wherever the ring has wrapped round: until a failed call drops bytes,   *)
(* the ring holds the last bytes written in the order they arrived, and    *)
(* devmgr_parser_get_stats accounts for the others: what was received was  *)
(* discarded, delivered in frames, or is still in the ring.                *)
RingKeepsOrder ==
  LET written == taken - Len(Rest)
  IN  dropped = {} =>
        Contents(input) = [i \in 1 .. input.size |-> written - input.size + i]

StatsAddUp ==
  stats.bytes_received = stats.discarded_bytes + handed + input.size

BytesAccountedFor == RingKeepsOrder /\ StatsAddUp

(* An undamaged frame is never skipped, whatever precedes it and however   *)
(* the stream is cut: once its first byte has left the parser it has been  *)
(* handed to the callback, unless a failed call lost part of it.           *)
NoFrameLost ==
  \A frame \in stream.frames :
    \/ frame[1] > taken \/ frame[1] \in Waiting
    \/ Span(frame) \intersect dropped # {}
    \/ WasDelivered(frame)

(* Nothing else is handed over: not a frame quoted in the payload of an    *)
(* undamaged frame, and none made of the bytes of two.  Only inside what   *)
(* was damaged can a quoted frame be taken for one that was sent.          *)
OnlyFramesSent ==
  \A window \in delivered :
    \/ \E frame \in stream.frames : window[1] = frame[1] /\ Bytes(window) = Span(frame)
    \/ Bytes(window) \subseteq Damaged(stream) \union
         UNION {Span(frame) : frame \in {f \in stream.frames :
                                            Span(f) \intersect dropped # {}}}

(* A damaged length makes the parser wait for bytes that will never come,  *)
(* and every later frame waits with it; but never for longer than the      *)
(* largest frame: a frame is delivered before MaxFrame bytes, counted from *)
(* its first, have arrived.                                                *)
DeliveredInTime ==
  pc = "idle" /\ failures = 0 =>
    \A frame \in stream.frames :
      frame[1] + MaxFrame - 1 <= taken => WasDelivered(frame)

(* The ring has room whenever devmgr_parser_feed writes to it: the         *)
(* OVERFLOW return and the overflow_bytes counter are never reached.  A    *)
(* failing callback leaves the frames behind it in the ring, and the next  *)
(* read adds to them; no byte read from the line is lost as long as what   *)
(* the failed calls may have read is not more than the largest frame (two  *)
(* failures, with the program's 2048 of 4112 bytes).                       *)
RoomForReads == /\ pc = "write" => RingSpace(input) > 0
                /\ failures * MaxRead <= MaxFrame => dropped = {}
=============================================================================
