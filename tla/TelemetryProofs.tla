--------------------------- MODULE TelemetryProofs ---------------------------
(***************************************************************************)
(* Host and device agree on the stream, for every number of commands,      *)
(* retries and frames on the line, also when sequence numbers are reused.  *)
(* AnsweredStreamAgrees is not inductive: that no copy of an earlier       *)
(* command changes the stream behind the daemon's back follows from the    *)
(* order of the line, in which the last stream command and its copies come *)
(* after all of the other kind.                                            *)
(***************************************************************************)
EXTENDS Telemetry, SequenceTheorems, TLAPS

(***************************************************************************)
(* Types                                                                   *)
(***************************************************************************)
Payloads == {<<>>} \union {<<n>> : n \in Intervals}
Frames == [type : Commands, sequence : Nat, payload : Payloads]

Replies == [type : Commands \union {"NACK", "TELEMETRY"}, response : BOOLEAN,
            sequence : Nat,
            payload : Payloads \union {<<n>> : n \in Nat} \union {<<FactoryFirmware.version>>}]

Pendings == [active : BOOLEAN, type : Commands \union {"NONE"}, sequence : Nat,
             retries_done : Nat, max_retries : Nat]
Sessions == [state : {"READY", "STREAMING"}, next_sequence : Nat, pending : Pendings]

(* The stream commands leave the firmware of the device alone. *)
Devices ==
  [bootloader_active : {FALSE}, upgrading : {FALSE}, verified : {FALSE},
   telemetry : BOOLEAN, interval : Nat, samples : Nat, size : {0}, crc : {0},
   chunk : {0}, sid : {0}, offset : {0}, flash : {<<>>}, pending_version : {"NONE"},
   active : {FactoryFirmware}]

TelemetryTypeOK ==
  /\ session \in Sessions
  /\ output \in Frames \union {NoFrame} /\ copy \in Frames \union {NoFrame}
  /\ stream \in StreamCommands \union {"NONE"}
  /\ requests \in Seq(Frames) /\ responses \in Seq(Replies)
  /\ device \in Devices

(***************************************************************************)
(* The inductive invariant                                                 *)
(***************************************************************************)
(* The stream command that the last one revokes. *)
Revoked == IF stream = "START_TELEMETRY" THEN "STOP_TELEMETRY" ELSE "START_TELEMETRY"

NotUnderway(types) ==
  /\ \A i \in 1 .. Len(requests) : requests[i].type \notin types
  /\ output.type \notin types
NotAnswered(types) == \A k \in 1 .. Len(responses) : responses[k].type \notin types

AsCommanded == device.telemetry <=> stream = "START_TELEMETRY"

(* A stream command that is pending is the last one, and so are its copies. *)
PendingIsLast ==
  session.pending.active =>
    /\ copy.type = session.pending.type
    /\ session.pending.type \in StreamCommands => session.pending.type = stream

(* In each direction of the line, what belongs to the last stream command  *)
(* comes after what belongs to those it revokes; and once it was answered  *)
(* the device is as it was told, and nothing is underway to change that.   *)
LastComesLast ==
  stream # "NONE" =>
    /\ \A i, j \in 1 .. Len(requests) :
         i < j /\ requests[i].type = stream => requests[j].type # Revoked
    /\ \A i \in 1 .. Len(requests) : requests[i].type = stream => output.type # Revoked
    /\ \A i, j \in 1 .. Len(responses) :
         i < j /\ responses[i].type = stream => responses[j].type # Revoked
    /\ ~NotAnswered({stream}) => AsCommanded /\ NotUnderway({Revoked})

(* The session has been told that the last stream command was obeyed.      *)
Settled == \/ session.state = "STREAMING" /\ stream = "START_TELEMETRY"
           \/ session.state = "READY" /\ stream = "STOP_TELEMETRY"

SettledStays == Settled =>
  AsCommanded /\ NotUnderway({Revoked}) /\ NotAnswered({Revoked})

NothingYet == stream = "NONE" =>
  /\ session.state = "READY"
  /\ NotUnderway(StreamCommands) /\ NotAnswered(StreamCommands)

TelemetryInv ==
  /\ TelemetryTypeOK /\ PendingIsLast /\ LastComesLast /\ SettledStays /\ NothingYet

(***************************************************************************)
(* Facts about lines and frames                                            *)
(***************************************************************************)
LEMMA AddedToLine ==
  ASSUME NEW S, NEW line \in Seq(S), NEW f \in S, NEW next, next \in Sent(line, f)
  PROVE  /\ next \in Seq(S)
         /\ \/ next = line
            \/ /\ Len(next) = Len(line) + 1
               /\ next[Len(line) + 1] = f
               /\ \A i \in 1 .. Len(line) : next[i] = line[i]
<1>1. next = line \/ next = Append(line, f)
  BY DEF Sent
<1>2. CASE next = line
  BY <1>2
<1>3. CASE next = Append(line, f)
  BY <1>3, AppendProperties
<1> QED
  BY <1>1, <1>2, <1>3

LEMMA TakenFromLine ==
  ASSUME NEW S, NEW line \in Seq(S), line # <<>>
  PROVE  /\ Len(line) \in Nat /\ Len(line) >= 1
         /\ Head(line) = line[1] /\ Head(line) \in S
         /\ Tail(line) \in Seq(S) /\ Len(Tail(line)) = Len(line) - 1
         /\ \A i \in 1 .. Len(line) - 1 : Tail(line)[i] = line[i + 1]
  BY HeadTailProperties

LEMMA FrameTypes ==
  ASSUME TelemetryTypeOK
  PROVE  /\ Len(requests) \in Nat /\ Len(responses) \in Nat
         /\ \A i \in 1 .. Len(requests) : requests[i] \in Frames
         /\ \A k \in 1 .. Len(responses) : responses[k] \in Replies
  BY ElementOfSeq, LenProperties DEF TelemetryTypeOK

(***************************************************************************)
(* The device                                                              *)
(***************************************************************************)
(* What one frame does to the stream. *)
LEMMA HandledFrame ==
  ASSUME NEW d \in Devices, NEW f \in Frames, NEW o \in SimulatorHandle(d, f)
  PROVE  /\ o.device \in Devices /\ o.frame \in Replies
         /\ o.frame.type \in {f.type, "NACK"}
         /\ f.type \notin StreamCommands => o.device.telemetry = d.telemetry
         /\ f.type = "START_TELEMETRY" =>
              \/ o.frame.type = "NACK" /\ o.device.telemetry = d.telemetry
              \/ o.device.telemetry = TRUE
         /\ f.type = "STOP_TELEMETRY" => o.device.telemetry = FALSE
<1>1. f.type \in Commands /\ f.sequence \in Nat /\ f.payload \in Payloads
  BY DEF Frames
<1>2. /\ Nack(f) \in Replies /\ Nack(f).type = "NACK"
  <2>1. <<>> \in Payloads
    BY DEF Payloads
  <2> QED
    BY <1>1, <2>1 DEF Nack, Replies
<1>3. ASSUME NEW p \in Payloads \union {<<n>> : n \in Nat} \union {<<FactoryFirmware.version>>}
      PROVE  Respond(f, p) \in Replies /\ Respond(f, p).type = f.type
  BY <1>1 DEF Respond, Replies
<1>4. <<>> \in Payloads /\ d.active = FactoryFirmware
  BY DEF Payloads, Devices
<1>5. CASE f.type \in Queries
  <2>1. f.type \in {"PING", "GET_INFO", "GET_HEALTH", "GET_STATS"}
    BY <1>5, TelemetryAssumption
  <2>2. \E p \in Payloads \union {<<n>> : n \in Nat} \union {<<FactoryFirmware.version>>} :
          o = [device |-> d, frame |-> Respond(f, p)]
    <3>1. CASE f.type = "PING"
      BY <1>1, <3>1 DEF SimulatorHandle, Ping, Accepted, Outcome
    <3>2. CASE f.type = "GET_INFO"
      BY <1>4, <3>2 DEF SimulatorHandle, GetInfo, Accepted, Outcome
    <3>3. CASE f.type = "GET_HEALTH"
      BY <1>4, <3>3 DEF SimulatorHandle, GetHealth, Accepted, Outcome
    <3>4. CASE f.type = "GET_STATS"
      BY <1>4, <3>4 DEF SimulatorHandle, GetStats, Accepted, Outcome
    <3> QED
      BY <2>1, <3>1, <3>2, <3>3, <3>4
  <2>3. f.type \notin StreamCommands
    BY <2>1 DEF StreamCommands
  <2> QED
    BY <1>3, <2>2, <2>3 DEF StreamCommands
<1>6. CASE f.type = "STOP_TELEMETRY"
  <2>1. o = [device |-> [d EXCEPT !.telemetry = FALSE], frame |-> Respond(f, <<>>)]
    BY <1>6 DEF SimulatorHandle, StopTelemetry, Accepted, Outcome
  <2>2. [d EXCEPT !.telemetry = FALSE] \in Devices
    BY DEF Devices
  <2>3. [d EXCEPT !.telemetry = FALSE].telemetry = FALSE
    BY DEF Devices
  <2> QED
    BY <1>3, <1>4, <1>6, <2>1, <2>2, <2>3 DEF StreamCommands
<1>7. CASE f.type = "START_TELEMETRY"
  <2>1. o \in StartTelemetry(d, f)
    BY <1>7 DEF SimulatorHandle
  <2>2. CASE f.payload = <<>>
    <3>1. o = [device |-> d, frame |-> Nack(f)]
      BY <2>1, <2>2 DEF StartTelemetry, Refused, Outcome
    <3> QED
      BY <1>2, <1>7, <3>1 DEF StreamCommands
  <2>3. CASE f.payload # <<>>
    <3> DEFINE stored == [d EXCEPT !.interval = f.payload[1]]
    <3>1. f.payload[1] \in Nat
      BY <1>1, <2>3, TelemetryAssumption DEF Payloads
    <3>2. stored \in Devices /\ stored.telemetry = d.telemetry
      BY <3>1 DEF Devices
    <3>3. \/ o = [device |-> stored, frame |-> Nack(f)]
          \/ o = [device |-> [stored EXCEPT !.telemetry = TRUE],
                  frame |-> Respond(f, f.payload)]
      BY <2>1, <2>3 DEF StartTelemetry, Refused, Accepted, Outcome
    <3> HIDE DEF stored
    <3>4. /\ [stored EXCEPT !.telemetry = TRUE] \in Devices
          /\ [stored EXCEPT !.telemetry = TRUE].telemetry = TRUE
      BY <3>2 DEF Devices
    <3>5. CASE o = [device |-> stored, frame |-> Nack(f)]
      BY <1>2, <1>7, <3>2, <3>5 DEF StreamCommands
    <3>6. CASE o = [device |-> [stored EXCEPT !.telemetry = TRUE],
                    frame |-> Respond(f, f.payload)]
      <4>1. Respond(f, f.payload) \in Replies /\ Respond(f, f.payload).type = f.type
        BY <1>1, <1>3
      <4> QED
        BY <1>7, <3>4, <3>6, <4>1 DEF StreamCommands
    <3> QED
      BY <3>3, <3>5, <3>6
  <2> QED
    BY <2>2, <2>3
<1> QED
  BY <1>1, <1>5, <1>6, <1>7 DEF Commands, StreamCommands

(***************************************************************************)
(* The steps                                                               *)
(***************************************************************************)
(* A step after which the last command, the state of the session and the   *)
(* lines are as before, or emptier.                                        *)
LEMMA QuietStep ==
  ASSUME TelemetryInv, TelemetryTypeOK', PendingIsLast',
         stream' = stream, session'.state = session.state,
         device'.telemetry = device.telemetry,
         requests' = requests, output' = output \/ output'.type = "NONE",
         responses' = responses
  PROVE  TelemetryInv'
<1>1. Len(requests) \in Nat /\ Len(responses) \in Nat
  BY FrameTypes DEF TelemetryInv
<1>2. Revoked' = Revoked /\ (AsCommanded' <=> AsCommanded) /\ (Settled' <=> Settled)
  BY DEF Revoked, AsCommanded, Settled
<1>3. \A types \in SUBSET StreamCommands :
        /\ NotUnderway(types) => NotUnderway(types)'
        /\ NotAnswered(types) <=> NotAnswered(types)'
  BY DEF NotUnderway, NotAnswered, StreamCommands
<1>5. LastComesLast'
  <2> SUFFICES ASSUME stream # "NONE"
               PROVE  LastComesLast'
    BY DEF LastComesLast
  <2>1. Revoked # "NONE"
    BY DEF Revoked
  <2>2. /\ \A i, j \in 1 .. Len(requests) :
            i < j /\ requests[i].type = stream => requests[j].type # Revoked
        /\ \A i \in 1 .. Len(requests) : requests[i].type = stream => output.type # Revoked
        /\ \A i, j \in 1 .. Len(responses) :
            i < j /\ responses[i].type = stream => responses[j].type # Revoked
        /\ ~NotAnswered({stream}) => AsCommanded /\ NotUnderway({Revoked})
    BY DEF TelemetryInv, LastComesLast
  <2>3. /\ NotAnswered({stream}) <=> NotAnswered({stream})'
        /\ NotUnderway({Revoked}) => NotUnderway({Revoked})'
    <3>1. NotUnderway({Revoked}) => NotUnderway({Revoked})'
      BY <1>2, <2>1 DEF NotUnderway
    <3>2. NotAnswered({stream}) <=> NotAnswered({stream})'
      BY DEF NotAnswered
    <3> QED
      BY <3>1, <3>2
  <2> QED
    BY <1>2, <2>1, <2>2, <2>3 DEF LastComesLast
<1>6. SettledStays'
  <2>1. NotUnderway({Revoked}) => NotUnderway({Revoked})'
    BY <1>2 DEF NotUnderway, Revoked
  <2>2. NotAnswered({Revoked}) => NotAnswered({Revoked})'
    BY <1>2 DEF NotAnswered
  <2> QED
    BY <1>2, <2>1, <2>2 DEF TelemetryInv, SettledStays
<1>7. NothingYet'
  BY <1>3 DEF TelemetryInv, NothingYet
<1> QED
  BY <1>5, <1>6, <1>7 DEF TelemetryInv

(* A frame is put into the empty output that does not revoke the last      *)
(* stream command.                                                         *)
LEMMA OutputStep ==
  ASSUME TelemetryInv, TelemetryTypeOK', PendingIsLast',
         stream' = stream, session'.state = session.state, device' = device,
         requests' = requests, responses' = responses,
         output'.type \notin StreamCommands \/ output'.type = stream
  PROVE  TelemetryInv'
<1>1. Len(requests) \in Nat /\ Len(responses) \in Nat
  BY FrameTypes DEF TelemetryInv
<1>2. Revoked' = Revoked /\ (AsCommanded' <=> AsCommanded) /\ (Settled' <=> Settled)
  BY DEF Revoked, AsCommanded, Settled
<1>3. Revoked \in StreamCommands /\ Revoked # stream
  BY DEF Revoked, StreamCommands
<1>4. NotUnderway({Revoked}) => NotUnderway({Revoked})'
  BY <1>2, <1>3 DEF NotUnderway
<1>5. \A types : NotAnswered(types) <=> NotAnswered(types)'
  BY DEF NotAnswered
<1>6. LastComesLast'
  <2> SUFFICES ASSUME stream # "NONE"
               PROVE  LastComesLast'
    BY DEF LastComesLast
  <2>1. /\ \A i, j \in 1 .. Len(requests) :
            i < j /\ requests[i].type = stream => requests[j].type # Revoked
        /\ \A i, j \in 1 .. Len(responses) :
            i < j /\ responses[i].type = stream => responses[j].type # Revoked
        /\ ~NotAnswered({stream}) => AsCommanded /\ NotUnderway({Revoked})
    BY DEF TelemetryInv, LastComesLast
  <2>2. output'.type # Revoked
    BY <1>3
  <2>3. NotAnswered({stream}) <=> NotAnswered({stream})'
    BY DEF NotAnswered
  <2> QED
    BY <1>2, <1>4, <2>1, <2>2, <2>3 DEF LastComesLast
<1>7. SettledStays'
  <2>1. NotAnswered({Revoked}) => NotAnswered({Revoked})'
    BY <1>2 DEF NotAnswered
  <2> QED
    BY <1>2, <1>4, <2>1 DEF TelemetryInv, SettledStays
<1>8. NothingYet'
  <2> SUFFICES ASSUME stream = "NONE"
               PROVE  /\ session.state = "READY"
                      /\ NotUnderway(StreamCommands)' /\ NotAnswered(StreamCommands)'
    BY DEF NothingYet
  <2>1. output'.type \notin StreamCommands
    BY DEF StreamCommands
  <2>2. /\ session.state = "READY"
        /\ NotUnderway(StreamCommands) /\ NotAnswered(StreamCommands)
    BY DEF TelemetryInv, NothingYet
  <2>3. NotUnderway(StreamCommands)'
    BY <2>1, <2>2 DEF NotUnderway, StreamCommands
  <2>4. NotAnswered(StreamCommands)'
    BY <2>2 DEF NotAnswered, StreamCommands
  <2> QED
    BY <2>2, <2>3, <2>4
<1> QED
  BY <1>6, <1>7, <1>8 DEF TelemetryInv

(* The first command of the other kind after one that was obeyed.          *)
LEMMA RevokingStep ==
  ASSUME TelemetryInv, TelemetryTypeOK', PendingIsLast',
         stream # stream', stream' \in StreamCommands, output'.type = stream',
         session'.state = session.state, device' = device,
         stream' = "START_TELEMETRY" => session.state = "READY",
         stream' = "STOP_TELEMETRY" => session.state = "STREAMING",
         requests' = requests, responses' = responses
  PROVE  TelemetryInv'
<1>1. Len(requests) \in Nat /\ Len(responses) \in Nat
  BY FrameTypes DEF TelemetryInv
<1>2. ~Settled'
  BY DEF Settled, StreamCommands
<1>3. /\ \A i \in 1 .. Len(requests) : requests[i].type # stream'
      /\ \A k \in 1 .. Len(responses) : responses[k].type # stream'
  <2>1. CASE stream = "NONE"
    BY <2>1 DEF TelemetryInv, NothingYet, NotUnderway, NotAnswered
  <2>2. CASE stream # "NONE"
    <3>1. Settled /\ Revoked = stream'
      BY <2>2 DEF TelemetryInv, TelemetryTypeOK, Settled, Revoked, StreamCommands
    <3> QED
      BY <3>1 DEF TelemetryInv, SettledStays, NotUnderway, NotAnswered
  <2> QED
    BY <2>1, <2>2
<1>4. NotAnswered({stream})'
  BY <1>3 DEF NotAnswered
<1>5. stream' # "NONE" /\ Revoked' # stream'
  BY DEF Revoked, StreamCommands
<1>6. LastComesLast'
  BY <1>3, <1>4, <1>5 DEF LastComesLast
<1>7. SettledStays' /\ NothingYet'
  BY <1>2, <1>5 DEF SettledStays, NothingYet
<1> QED
  BY <1>6, <1>7 DEF TelemetryInv

(***************************************************************************)
(* The daemon                                                              *)
(***************************************************************************)
LEMMA SessionSteps ==
  ASSUME NEW s \in Sessions
  PROVE  /\ Cancel(s) \in Sessions /\ Cancel(s).state = s.state
         /\ Cancel(s).pending.active = FALSE
         /\ Retry(s) \in Sessions /\ Retry(s).state = s.state
         /\ Retry(s).pending.active = s.pending.active
         /\ Retry(s).pending.type = s.pending.type
         /\ \A command \in Commands :
              LET begun == BeginRequest(s, command, ClientRetries)
              IN  begun \in Sessions /\ begun.state = s.state /\ begun.pending.type = command
<1>1. NoRequest \in Pendings /\ NoRequest.active = FALSE
  BY DEF NoRequest, Pendings
<1>2. s.pending \in Pendings /\ s.pending.retries_done + 1 \in Nat
  BY DEF Sessions, Pendings
<1>3. /\ Cancel(s) \in Sessions /\ Cancel(s).state = s.state
      /\ Cancel(s).pending.active = FALSE
  BY <1>1 DEF Cancel, Sessions
<1>4. /\ Retry(s) \in Sessions /\ Retry(s).state = s.state
      /\ Retry(s).pending.active = s.pending.active
      /\ Retry(s).pending.type = s.pending.type
  BY <1>2 DEF Retry, Sessions, Pendings
<1>5. ASSUME NEW command \in Commands
      PROVE  LET begun == BeginRequest(s, command, ClientRetries)
             IN  begun \in Sessions /\ begun.state = s.state /\ begun.pending.type = command
  <2>1. s.next_sequence \in Nat
    BY DEF Sessions
  <2>2. NextSequence(s.next_sequence) \in Nat
    BY <2>1, ModulusAssumption DEF NextSequence
  <2>3. [active |-> TRUE, type |-> command, sequence |-> s.next_sequence,
         retries_done |-> 0, max_retries |-> ClientRetries] \in Pendings
    BY <2>1, TelemetryAssumption DEF Pendings
  <2> QED
    BY <2>2, <2>3 DEF BeginRequest, Sessions
<1> QED
  BY <1>3, <1>4, <1>5

LEMMA StartRequestStep == TelemetryInv /\ StartRequest => TelemetryInv'
<1> SUFFICES ASSUME TelemetryInv, StartRequest
             PROVE  TelemetryInv'
  OBVIOUS
<1>1. PICK command \in Commands, payload \in {<<>>} \union {<<n>> : n \in Intervals} :
        /\ Allowed(command)
        /\ session' = BeginRequest(session, command, ClientRetries)
        /\ output' = [type |-> command, sequence |-> session.next_sequence,
                      payload |-> payload]
        /\ stream' = IF command \in StreamCommands THEN command ELSE stream
  BY DEF StartRequest
<1>2. /\ copy' = output' /\ UNCHANGED <<device, requests, responses>>
  BY DEF StartRequest, deviceVars
<1>3. session \in Sessions /\ session.next_sequence \in Nat
  BY DEF TelemetryInv, TelemetryTypeOK, Sessions
<1>4. /\ session' \in Sessions /\ session'.state = session.state
      /\ session'.pending.type = command
  BY <1>1, <1>3, SessionSteps
<1>5. output' \in Frames /\ output'.type = command
  BY <1>1, <1>3 DEF Frames, Payloads
<1>6. TelemetryTypeOK'
  BY <1>1, <1>2, <1>4, <1>5 DEF TelemetryInv, TelemetryTypeOK
<1>7. PendingIsLast'
  BY <1>1, <1>2, <1>4, <1>5 DEF PendingIsLast
<1>8. CASE stream' = stream
  BY <1>1, <1>2, <1>4, <1>5, <1>6, <1>7, <1>8, OutputStep
<1>9. CASE stream' # stream
  <2>1. stream' = command /\ command \in StreamCommands
    BY <1>1, <1>9
  <2>2. /\ command = "START_TELEMETRY" => session.state = "READY"
        /\ command = "STOP_TELEMETRY" => session.state = "STREAMING"
    BY <1>1 DEF Allowed
  <2> QED
    BY <1>2, <1>4, <1>5, <1>6, <1>7, <1>9, <2>1, <2>2, RevokingStep
<1> QED
  BY <1>8, <1>9

LEMMA TickRetryStep == TelemetryInv /\ TickRetry => TelemetryInv'
<1> SUFFICES ASSUME TelemetryInv, TickRetry
             PROVE  TelemetryInv'
  OBVIOUS
<1>1. /\ session.pending.active /\ session' = Retry(session) /\ output' = copy
      /\ UNCHANGED <<copy, stream, device, requests, responses>>
  BY DEF TickRetry, deviceVars
<1>2. /\ session' \in Sessions /\ session'.state = session.state
      /\ session'.pending.active = session.pending.active
      /\ session'.pending.type = session.pending.type
  BY <1>1, SessionSteps DEF TelemetryInv, TelemetryTypeOK
<1>3. TelemetryTypeOK'
  BY <1>1, <1>2 DEF TelemetryInv, TelemetryTypeOK
<1>4. PendingIsLast'
  BY <1>1, <1>2 DEF TelemetryInv, PendingIsLast
<1>5. output'.type \notin StreamCommands \/ output'.type = stream
  BY <1>1 DEF TelemetryInv, PendingIsLast
<1> QED
  BY <1>1, <1>2, <1>3, <1>4, <1>5, OutputStep

(* Steps of the daemon and of the loop that only wait, test or give up.    *)
LEMMA QuietSteps ==
  TelemetryInv /\ (ClientLeaves \/ TickTimeout \/ Signal \/ LoopTest \/ Poll \/ Elapse
                     \/ Noise \/ ReadNoise \/ UNCHANGED vars)
    => TelemetryInv'
<1> SUFFICES ASSUME TelemetryInv,
                    ClientLeaves \/ TickTimeout \/ Signal \/ LoopTest \/ Poll \/ Elapse
                      \/ Noise \/ ReadNoise \/ UNCHANGED vars
             PROVE  TelemetryInv'
  OBVIOUS
<1>1. UNCHANGED <<stream, output, copy, device, requests, responses>>
  BY DEF ClientLeaves, TickTimeout, Signal, LoopTest, Poll, Elapse, Noise, ReadNoise,
         vars, hostVars, deviceVars
<1>2. UNCHANGED session \/ session' = Cancel(session)
  BY DEF ClientLeaves, TickTimeout, Signal, LoopTest, Poll, Elapse, Noise, ReadNoise,
         vars, hostVars, deviceVars, Expire
<1>3. /\ session' \in Sessions /\ session'.state = session.state
      /\ session' = session \/ session'.pending.active = FALSE
  <2>1. session \in Sessions
    BY DEF TelemetryInv, TelemetryTypeOK
  <2>2. CASE UNCHANGED session
    BY <2>1, <2>2
  <2>3. CASE session' = Cancel(session)
    BY <2>1, <2>3, SessionSteps
  <2> QED
    BY <1>2, <2>2, <2>3
<1>4. TelemetryTypeOK'
  BY <1>1, <1>3 DEF TelemetryInv, TelemetryTypeOK
<1>5. PendingIsLast'
  BY <1>1, <1>3 DEF TelemetryInv, PendingIsLast
<1> QED
  BY <1>1, <1>3, <1>4, <1>5, QuietStep

(* What is in transport_output is put on the line, or lost.                *)
LEMMA FlushStep == TelemetryInv /\ FlushTransport => TelemetryInv'
<1> SUFFICES ASSUME TelemetryInv, FlushTransport
             PROVE  TelemetryInv'
  OBVIOUS
<1>1. /\ output # NoFrame /\ requests' \in Sent(requests, output) /\ output' = NoFrame
      /\ UNCHANGED <<session, copy, stream, device, responses>>
  BY DEF FlushTransport, deviceVars
<1>2. output \in Frames /\ requests \in Seq(Frames)
  BY <1>1 DEF TelemetryInv, TelemetryTypeOK
<1>3. requests' \in Seq(Frames)
  BY <1>1, <1>2, AddedToLine
<1>4. TelemetryTypeOK'
  BY <1>1, <1>3 DEF TelemetryInv, TelemetryTypeOK
<1>5. PendingIsLast'
  BY <1>1 DEF TelemetryInv, PendingIsLast
<1>6. output'.type = "NONE"
  BY <1>1 DEF NoFrame
<1>7. CASE requests' = requests
  BY <1>1, <1>4, <1>5, <1>6, <1>7, QuietStep
<1>8. CASE /\ Len(requests') = Len(requests) + 1
           /\ requests'[Len(requests) + 1] = output
           /\ \A i \in 1 .. Len(requests) : requests'[i] = requests[i]
  <2>1. Len(requests) \in Nat
    BY FrameTypes DEF TelemetryInv
  <2>2. Revoked' = Revoked /\ (AsCommanded' <=> AsCommanded) /\ (Settled' <=> Settled)
    BY <1>1 DEF Revoked, AsCommanded, Settled
  <2>3. Revoked # "NONE" /\ Revoked # stream
    BY DEF Revoked
  <2>4. \A j \in 1 .. Len(requests') :
          \/ j \in 1 .. Len(requests) /\ requests'[j] = requests[j]
          \/ j = Len(requests) + 1 /\ requests'[j] = output
    BY <1>8, <2>1
  <2>5. NotUnderway({Revoked}) => NotUnderway({Revoked})'
    BY <1>6, <2>2, <2>3, <2>4 DEF NotUnderway
  <2>6. /\ NotAnswered({stream}) <=> NotAnswered({stream})'
        /\ NotAnswered({Revoked}) <=> NotAnswered({Revoked})'
        /\ NotAnswered(StreamCommands) <=> NotAnswered(StreamCommands)'
    BY <1>1, <2>2 DEF NotAnswered
  <2>7. LastComesLast'
    <3> SUFFICES ASSUME stream # "NONE"
                 PROVE  LastComesLast'
      BY <1>1 DEF LastComesLast
    <3>1. /\ \A i, j \in 1 .. Len(requests) :
              i < j /\ requests[i].type = stream => requests[j].type # Revoked
          /\ \A i \in 1 .. Len(requests) : requests[i].type = stream => output.type # Revoked
          /\ \A i, j \in 1 .. Len(responses) :
              i < j /\ responses[i].type = stream => responses[j].type # Revoked
          /\ ~NotAnswered({stream}) => AsCommanded /\ NotUnderway({Revoked})
      BY DEF TelemetryInv, LastComesLast
    <3>2. ASSUME NEW i \in 1 .. Len(requests'), NEW j \in 1 .. Len(requests'),
                 i < j, requests'[i].type = stream
          PROVE  requests'[j].type # Revoked
      <4>1. i \in 1 .. Len(requests) /\ requests'[i] = requests[i]
        BY <1>8, <2>1, <3>2
      <4>2. CASE j \in 1 .. Len(requests) /\ requests'[j] = requests[j]
        BY <3>1, <3>2, <4>1, <4>2
      <4>3. CASE j = Len(requests) + 1 /\ requests'[j] = output
        BY <3>1, <3>2, <4>1, <4>3
      <4> QED
        BY <2>4, <4>2, <4>3
    <3>3. output'.type # Revoked'
      BY <1>6, <2>2, <2>3
    <3> QED
      BY <1>1, <2>2, <2>5, <2>6, <3>1, <3>2, <3>3 DEF LastComesLast
  <2>8. SettledStays'
    BY <2>2, <2>5, <2>6 DEF TelemetryInv, SettledStays
  <2>9. NothingYet'
    <3> SUFFICES ASSUME stream = "NONE"
                 PROVE  /\ session.state = "READY"
                        /\ NotUnderway(StreamCommands)' /\ NotAnswered(StreamCommands)'
      BY <1>1 DEF NothingYet
    <3>1. /\ session.state = "READY"
          /\ NotUnderway(StreamCommands) /\ NotAnswered(StreamCommands)
      BY DEF TelemetryInv, NothingYet
    <3>2. "NONE" \notin StreamCommands
      BY DEF StreamCommands
    <3>3. NotUnderway(StreamCommands)'
      BY <1>6, <2>4, <3>1, <3>2 DEF NotUnderway
    <3> QED
      BY <2>6, <3>1, <3>3
  <2> QED
    BY <1>4, <1>5, <2>7, <2>8, <2>9 DEF TelemetryInv
<1> QED
  BY <1>1, <1>2, <1>7, <1>8, AddedToLine

(* A frame is read that leaves the session where it is, or that answers    *)
(* the last stream command.                                                *)
LEMMA ConsumedStep ==
  ASSUME TelemetryInv, TelemetryTypeOK', PendingIsLast',
         UNCHANGED <<output, stream, device, requests>>,
         responses # <<>>, responses' = Tail(responses),
         session'.state # session.state =>
           stream # "NONE" /\ Head(responses).type = stream
  PROVE  TelemetryInv'
<1>1. /\ responses \in Seq(Replies) /\ Len(responses) \in Nat /\ Len(responses) >= 1
      /\ Head(responses) = responses[1] /\ Len(responses') = Len(responses) - 1
      /\ \A k \in 1 .. Len(responses) - 1 : responses'[k] = responses[k + 1]
  BY TakenFromLine DEF TelemetryInv, TelemetryTypeOK
<1>2. Revoked' = Revoked /\ (AsCommanded' <=> AsCommanded)
  BY DEF Revoked, AsCommanded
<1>3. \A k \in 1 .. Len(responses') :
        k + 1 \in 2 .. Len(responses) /\ responses'[k] = responses[k + 1]
  BY <1>1
<1>4. /\ NotAnswered({stream}) => NotAnswered({stream})'
      /\ NotAnswered({Revoked}) => NotAnswered({Revoked})'
      /\ NotAnswered(StreamCommands) => NotAnswered(StreamCommands)'
  <2>1. \A k \in 1 .. Len(responses') :
          k + 1 \in 1 .. Len(responses) /\ responses'[k] = responses[k + 1]
    BY <1>1
  <2> QED
    BY <1>2, <2>1 DEF NotAnswered
<1>5. /\ NotUnderway({Revoked}) <=> NotUnderway({Revoked})'
      /\ NotUnderway(StreamCommands) <=> NotUnderway(StreamCommands)'
  BY <1>2 DEF NotUnderway
<1>6. LastComesLast'
  <2> SUFFICES ASSUME stream # "NONE"
               PROVE  LastComesLast'
    BY DEF LastComesLast
  <2>1. /\ \A i, j \in 1 .. Len(requests) :
            i < j /\ requests[i].type = stream => requests[j].type # Revoked
        /\ \A i \in 1 .. Len(requests) : requests[i].type = stream => output.type # Revoked
        /\ \A i, j \in 1 .. Len(responses) :
            i < j /\ responses[i].type = stream => responses[j].type # Revoked
        /\ ~NotAnswered({stream}) => AsCommanded /\ NotUnderway({Revoked})
    BY DEF TelemetryInv, LastComesLast
  <2>2. ASSUME NEW i \in 1 .. Len(responses'), NEW j \in 1 .. Len(responses'),
               i < j, responses'[i].type = stream
        PROVE  responses'[j].type # Revoked
    <3>1. /\ i + 1 \in 1 .. Len(responses) /\ j + 1 \in 1 .. Len(responses) /\ i + 1 < j + 1
      BY <1>1, <2>2
    <3>2. responses'[i] = responses[i + 1] /\ responses'[j] = responses[j + 1]
      BY <1>3
    <3> QED
      BY <2>1, <2>2, <3>1, <3>2
  <2> QED
    BY <1>2, <1>4, <1>5, <2>1, <2>2 DEF LastComesLast
<1>7. SettledStays'
  <2>1. CASE session'.state = session.state
    <3>1. Settled' <=> Settled
      BY <2>1 DEF Settled
    <3> QED
      BY <1>2, <1>4, <1>5, <3>1 DEF TelemetryInv, SettledStays
  <2>2. CASE session'.state # session.state
    <3>1. stream # "NONE" /\ responses[1].type = stream /\ 1 \in 1 .. Len(responses)
      BY <1>1, <2>2
    <3>2. ~NotAnswered({stream})
      BY <3>1 DEF NotAnswered
    <3>3. /\ AsCommanded /\ NotUnderway({Revoked})
          /\ \A j \in 1 .. Len(responses) : 1 < j => responses[j].type # Revoked
      BY <3>1, <3>2 DEF TelemetryInv, LastComesLast
    <3>4. NotAnswered({Revoked})'
      <4> SUFFICES ASSUME NEW k \in 1 .. Len(responses')
                   PROVE  responses'[k].type # Revoked
        BY <1>2 DEF NotAnswered
      <4>1. k + 1 \in 1 .. Len(responses) /\ 1 < k + 1
        BY <1>1
      <4> QED
        BY <1>3, <3>3, <4>1
    <3> QED
      BY <1>2, <1>5, <3>3, <3>4 DEF SettledStays
  <2> QED
    BY <2>1, <2>2
<1>8. NothingYet'
  BY <1>4, <1>5 DEF TelemetryInv, NothingYet
<1> QED
  BY <1>6, <1>7, <1>8 DEF TelemetryInv

(* What an answer does to the session. *)
LEMMA MovedSession ==
  ASSUME NEW s \in Sessions, NEW command \in Commands
  PROVE  /\ Moved(Complete(s), command) \in Sessions
         /\ Moved(Complete(s), command).pending.active = FALSE
         /\ command \notin StreamCommands => Moved(Complete(s), command).state = s.state
<1> DEFINE c == Complete(s)
<1>1. c \in Sessions /\ c.state = s.state /\ c.pending.active = FALSE
  BY SessionSteps DEF Complete
<1> HIDE DEF c
<1>2. CASE command = "START_TELEMETRY"
  <2>1. Successor(c.state, "START_STREAM") \in {"READY", "STREAMING"}
    BY <1>1 DEF Successor, Sessions
  <2>2. Moved(c, command) = [c EXCEPT !.state = Successor(c.state, "START_STREAM")]
    BY <1>2 DEF Moved, Transition
  <2> QED
    BY <1>1, <1>2, <2>1, <2>2 DEF Sessions, StreamCommands, c
<1>3. CASE command = "STOP_TELEMETRY"
  <2>1. Successor(c.state, "STOP_STREAM") \in {"READY", "STREAMING"}
    BY <1>1 DEF Successor, Sessions
  <2>2. Moved(c, command) = [c EXCEPT !.state = Successor(c.state, "STOP_STREAM")]
    BY <1>3 DEF Moved, Transition
  <2> QED
    BY <1>1, <1>3, <2>1, <2>2 DEF Sessions, StreamCommands, c
<1>4. CASE command \notin StreamCommands
  BY <1>1, <1>4 DEF Moved, StreamCommands, c
<1> QED
  BY <1>2, <1>3, <1>4 DEF StreamCommands

LEMMA ReadTransportStep == TelemetryInv /\ ReadTransport => TelemetryInv'
<1> SUFFICES ASSUME TelemetryInv, ReadTransport
             PROVE  TelemetryInv'
  OBVIOUS
<1> DEFINE f == Head(responses)
<1>1. /\ responses # <<>> /\ responses' = Tail(responses)
      /\ KeepSample(f) \/ IgnoreFrame(f) \/ Reply(f)
      /\ UNCHANGED <<output, copy, stream, device, requests>>
  BY DEF ReadTransport, deviceVars
<1>2. f \in Replies /\ responses' \in Seq(Replies)
  BY <1>1, TakenFromLine DEF TelemetryInv, TelemetryTypeOK
<1> HIDE DEF f
<1>3. session \in Sessions
  BY DEF TelemetryInv, TelemetryTypeOK
<1>4. CASE session' = session
  <2>1. TelemetryTypeOK' /\ PendingIsLast'
    BY <1>1, <1>2, <1>4 DEF TelemetryInv, TelemetryTypeOK, PendingIsLast
  <2> QED
    BY <1>1, <1>4, <2>1, ConsumedStep
<1>5. CASE session' = Complete(session)
  <2>1. session' \in Sessions /\ session'.state = session.state /\ ~session'.pending.active
    BY <1>3, <1>5, SessionSteps DEF Complete
  <2>2. TelemetryTypeOK' /\ PendingIsLast'
    BY <1>1, <1>2, <2>1 DEF TelemetryInv, TelemetryTypeOK, PendingIsLast
  <2> QED
    BY <1>1, <2>1, <2>2, ConsumedStep
<1>6. CASE /\ Matches(session, f) /\ f.type \notin ErrorTypes
           /\ session' = Moved(Complete(session), session.pending.type)
  <2>1. f.type \in Commands \union {"NACK", "TELEMETRY"}
    BY <1>2 DEF Replies
  <2>2. f.type \notin AckTypes
    BY <1>6, <2>1, TelemetryAssumption DEF AckTypes, Commands, StreamCommands
  <2>3. session.pending.active /\ f.type = session.pending.type
    BY <1>6, <2>2 DEF Matches
  <2>4. session.pending.type \in Commands \union {"NONE"}
    BY <1>3 DEF Sessions, Pendings
  <2>5. session.pending.type \in Commands
    BY <2>1, <2>3, <2>4, TelemetryAssumption DEF Commands, StreamCommands
  <2>6. /\ session' \in Sessions /\ session'.pending.active = FALSE
        /\ session.pending.type \notin StreamCommands => session'.state = session.state
    BY <1>3, <1>6, <2>5, MovedSession
  <2>7. TelemetryTypeOK'
    BY <1>1, <1>2, <2>6 DEF TelemetryInv, TelemetryTypeOK
  <2>8. PendingIsLast'
    BY <2>6 DEF PendingIsLast
  <2>9. ASSUME session'.state # session.state
        PROVE  stream # "NONE" /\ Head(responses).type = stream
    BY <2>3, <2>6, <2>9 DEF TelemetryInv, PendingIsLast, StreamCommands, f
  <2> QED
    BY <1>1, <2>7, <2>8, <2>9, ConsumedStep
<1> QED
  BY <1>1, <1>4, <1>5, <1>6 DEF KeepSample, IgnoreFrame, Reply

(***************************************************************************)
(* The loop of the device                                                  *)
(***************************************************************************)
(* A sample, or nothing, is put on the line. *)
LEMMA SampleStep ==
  ASSUME TelemetryInv, TelemetryTypeOK',
         UNCHANGED <<session, output, copy, stream, requests>>,
         device'.telemetry = device.telemetry,
         NEW f \in Replies, f.type = "TELEMETRY", responses' \in Sent(responses, f)
  PROVE  TelemetryInv'
<1>1. PendingIsLast'
  BY DEF TelemetryInv, PendingIsLast
<1>2. CASE responses' = responses
  BY <1>1, <1>2, QuietStep
<1>3. CASE /\ Len(responses') = Len(responses) + 1
           /\ responses'[Len(responses) + 1] = f
           /\ \A i \in 1 .. Len(responses) : responses'[i] = responses[i]
  <2>1. Len(responses) \in Nat
    BY FrameTypes DEF TelemetryInv
  <2>2. Revoked' = Revoked /\ (AsCommanded' <=> AsCommanded) /\ (Settled' <=> Settled)
    BY DEF Revoked, AsCommanded, Settled
  <2>3. Revoked # "TELEMETRY" /\ stream # "TELEMETRY" /\ "TELEMETRY" \notin StreamCommands
    BY DEF Revoked, StreamCommands, TelemetryInv, TelemetryTypeOK
  <2>4. \A j \in 1 .. Len(responses') :
          \/ j \in 1 .. Len(responses) /\ responses'[j] = responses[j]
          \/ j = Len(responses) + 1 /\ responses'[j] = f
    BY <1>3, <2>1
  <2>5. /\ NotUnderway({Revoked}) <=> NotUnderway({Revoked})'
        /\ NotUnderway(StreamCommands) <=> NotUnderway(StreamCommands)'
    BY <2>2 DEF NotUnderway
  <2>6. /\ NotAnswered({stream}) => NotAnswered({stream})'
        /\ NotAnswered({Revoked}) => NotAnswered({Revoked})'
        /\ NotAnswered(StreamCommands) => NotAnswered(StreamCommands)'
    BY <2>2, <2>3, <2>4 DEF NotAnswered
  <2>7. LastComesLast'
    <3> SUFFICES ASSUME stream # "NONE"
                 PROVE  LastComesLast'
      BY DEF LastComesLast
    <3>1. /\ \A i, j \in 1 .. Len(requests) :
              i < j /\ requests[i].type = stream => requests[j].type # Revoked
          /\ \A i \in 1 .. Len(requests) : requests[i].type = stream => output.type # Revoked
          /\ \A i, j \in 1 .. Len(responses) :
              i < j /\ responses[i].type = stream => responses[j].type # Revoked
          /\ ~NotAnswered({stream}) => AsCommanded /\ NotUnderway({Revoked})
      BY DEF TelemetryInv, LastComesLast
    <3>2. ASSUME NEW i \in 1 .. Len(responses'), NEW j \in 1 .. Len(responses'),
                 i < j, responses'[i].type = stream
          PROVE  responses'[j].type # Revoked
      <4>1. i \in 1 .. Len(responses) /\ responses'[i] = responses[i]
        BY <1>3, <2>1, <3>2
      <4>2. CASE j \in 1 .. Len(responses) /\ responses'[j] = responses[j]
        BY <3>1, <3>2, <4>1, <4>2
      <4>3. CASE j = Len(responses) + 1 /\ responses'[j] = f
        BY <2>3, <4>3
      <4> QED
        BY <2>4, <4>2, <4>3
    <3> QED
      BY <2>2, <2>5, <2>6, <3>1, <3>2 DEF LastComesLast
  <2>8. SettledStays' /\ NothingYet'
    BY <2>2, <2>5, <2>6 DEF TelemetryInv, SettledStays, NothingYet
  <2> QED
    BY <1>1, <2>7, <2>8 DEF TelemetryInv
<1> QED
  BY <1>2, <1>3, AddedToLine DEF TelemetryInv, TelemetryTypeOK

LEMMA EmitStep == TelemetryInv /\ (Emit \/ EmitFails) => TelemetryInv'
<1> SUFFICES ASSUME TelemetryInv, Emit \/ EmitFails
             PROVE  TelemetryInv'
  OBVIOUS
<1>1. UNCHANGED <<session, output, copy, stream, requests>>
  BY DEF Emit, EmitFails, hostVars
<1>2. /\ device \in Devices /\ responses \in Seq(Replies) /\ device.samples \in Nat
  BY DEF TelemetryInv, TelemetryTypeOK, Devices
<1>3. Sampled(device) \in Devices /\ Sampled(device).telemetry = device.telemetry
  <2>1. (device.samples + 1) % SampleModulus \in Nat
    BY <1>2, SimulatorAssumption
  <2> QED
    BY <1>2, <2>1 DEF Sampled, Devices
<1>4. Sample(device) \in Replies /\ Sample(device).type = "TELEMETRY"
  BY <1>2 DEF Sample, Replies
<1>5. CASE UNCHANGED <<device, responses>>
  BY <1>1, <1>5, QuietStep DEF TelemetryInv, TelemetryTypeOK, PendingIsLast
<1>6. CASE device' = Sampled(device) /\ UNCHANGED responses
  <2>1. TelemetryTypeOK' /\ PendingIsLast'
    BY <1>1, <1>3, <1>6 DEF TelemetryInv, TelemetryTypeOK, PendingIsLast
  <2> QED
    BY <1>1, <1>3, <1>6, <2>1, QuietStep
<1>7. CASE device' = Sampled(device) /\ responses' \in Sent(responses, Sample(device))
  <2>1. responses' \in Seq(Replies)
    BY <1>2, <1>4, <1>7, AddedToLine
  <2>2. TelemetryTypeOK'
    BY <1>1, <1>3, <1>7, <2>1 DEF TelemetryInv, TelemetryTypeOK
  <2> QED
    BY <1>1, <1>3, <1>4, <1>7, <2>2, SampleStep
<1> QED
  BY <1>5, <1>6, <1>7 DEF Emit, EmitFails

(* A request is handled, and its answer put on the line, lost or given up. *)
LEMMA ReadRequestStep == TelemetryInv /\ ReadRequest => TelemetryInv'
<1> SUFFICES ASSUME TelemetryInv, ReadRequest
             PROVE  TelemetryInv'
  OBVIOUS
<1> DEFINE h == Head(requests)
<1>1. PICK o \in SimulatorHandle(device, h) :
        /\ device' = o.device
        /\ responses' \in Sent(responses, o.frame) \/ responses' = responses
  BY DEF ReadRequest
<1>2. /\ requests # <<>> /\ requests' = Tail(requests)
      /\ UNCHANGED <<session, output, copy, stream>>
  BY DEF ReadRequest, hostVars
<1>3. device \in Devices /\ responses \in Seq(Replies) /\ requests \in Seq(Frames)
  BY DEF TelemetryInv, TelemetryTypeOK
<1>4. /\ Len(requests) \in Nat /\ Len(requests) >= 1
      /\ h = requests[1] /\ h \in Frames
      /\ requests' \in Seq(Frames) /\ Len(requests') = Len(requests) - 1
      /\ \A i \in 1 .. Len(requests) - 1 : requests'[i] = requests[i + 1]
  BY <1>2, <1>3, TakenFromLine
<1> HIDE DEF h
<1>5. /\ o.device \in Devices /\ o.frame \in Replies
      /\ o.frame.type \in {h.type, "NACK"}
      /\ h.type \notin StreamCommands => device'.telemetry = device.telemetry
      /\ h.type = "START_TELEMETRY" =>
           \/ o.frame.type = "NACK" /\ device'.telemetry = device.telemetry
           \/ device'.telemetry = TRUE
      /\ h.type = "STOP_TELEMETRY" => device'.telemetry = FALSE
  <2>1. h \in Frames
    BY <1>4
  <2> QED
    BY <1>1, <1>3, <2>1, HandledFrame
<1>6. /\ responses' \in Seq(Replies)
      /\ \/ responses' = responses
         \/ /\ Len(responses') = Len(responses) + 1
            /\ responses'[Len(responses) + 1] = o.frame
            /\ \A k \in 1 .. Len(responses) : responses'[k] = responses[k]
  BY <1>1, <1>3, <1>5, AddedToLine
<1>7. Len(responses) \in Nat
  BY FrameTypes DEF TelemetryInv
<1>8. \A k \in 1 .. Len(responses') :
        \/ k \in 1 .. Len(responses) /\ responses'[k] = responses[k]
        \/ k = Len(responses) + 1 /\ responses'[k] = o.frame
  BY <1>6, <1>7
<1>9. TelemetryTypeOK' /\ PendingIsLast'
  BY <1>1, <1>2, <1>4, <1>5, <1>6 DEF TelemetryInv, TelemetryTypeOK, PendingIsLast
<1>10. Revoked' = Revoked /\ (Settled' <=> Settled) /\ Revoked \in StreamCommands
  BY <1>2 DEF Revoked, Settled, StreamCommands
<1>11. \A types : NotUnderway(types) => NotUnderway(types)' /\ h.type \notin types
  <2>1. \A i \in 1 .. Len(requests') :
          i + 1 \in 1 .. Len(requests) /\ requests'[i] = requests[i + 1]
    BY <1>4
  <2>2. 1 \in 1 .. Len(requests)
    BY <1>4
  <2> QED
    BY <1>2, <1>4, <2>1, <2>2 DEF NotUnderway
<1>12. ASSUME AsCommanded, h.type # Revoked
       PROVE  AsCommanded'
  BY <1>2, <1>5, <1>12 DEF AsCommanded, Revoked, StreamCommands
<1>13. LastComesLast'
  <2> SUFFICES ASSUME stream # "NONE"
               PROVE  LastComesLast'
    BY <1>2 DEF LastComesLast
  <2>1. /\ \A i, j \in 1 .. Len(requests) :
            i < j /\ requests[i].type = stream => requests[j].type # Revoked
        /\ \A i \in 1 .. Len(requests) : requests[i].type = stream => output.type # Revoked
        /\ \A i, j \in 1 .. Len(responses) :
            i < j /\ responses[i].type = stream => responses[j].type # Revoked
        /\ ~NotAnswered({stream}) => AsCommanded /\ NotUnderway({Revoked})
    BY DEF TelemetryInv, LastComesLast
  <2>2. stream \in StreamCommands
    BY DEF TelemetryInv, TelemetryTypeOK
  <2>3. ASSUME NEW i \in 1 .. Len(requests'), NEW j \in 1 .. Len(requests'),
               i < j, requests'[i].type = stream
        PROVE  requests'[j].type # Revoked
    <3>1. /\ i + 1 \in 1 .. Len(requests) /\ j + 1 \in 1 .. Len(requests) /\ i + 1 < j + 1
          /\ requests'[i] = requests[i + 1] /\ requests'[j] = requests[j + 1]
      BY <1>4, <2>3
    <3> QED
      BY <2>1, <2>3, <3>1
  <2>4. ASSUME NEW i \in 1 .. Len(requests'), requests'[i].type = stream
        PROVE  output.type # Revoked
    <3>1. i + 1 \in 1 .. Len(requests) /\ requests'[i] = requests[i + 1]
      BY <1>4
    <3> QED
      BY <2>1, <2>4, <3>1
  <2>5. ASSUME NEW i \in 1 .. Len(responses'), NEW j \in 1 .. Len(responses'),
               i < j, responses'[i].type = stream
        PROVE  responses'[j].type # Revoked
    <3>1. i \in 1 .. Len(responses) /\ responses'[i] = responses[i]
      BY <1>6, <1>7, <2>5
    <3>2. CASE j \in 1 .. Len(responses) /\ responses'[j] = responses[j]
      BY <2>1, <2>5, <3>1, <3>2
    <3>3. CASE j = Len(responses) + 1 /\ responses'[j] = o.frame
      <4>1. NotUnderway({Revoked})
        BY <2>1, <2>5, <3>1 DEF NotAnswered
      <4>2. h.type # Revoked /\ Revoked # "NACK"
        BY <1>11, <4>1 DEF Revoked
      <4> QED
        BY <1>5, <3>3, <4>2
    <3> QED
      BY <1>8, <3>2, <3>3
  <2>6. ASSUME ~NotAnswered({stream})'
        PROVE  AsCommanded' /\ NotUnderway({Revoked})'
    <3>1. CASE ~NotAnswered({stream})
      <4>1. AsCommanded /\ NotUnderway({Revoked})
        BY <2>1, <3>1
      <4>2. NotUnderway({Revoked})' /\ h.type # Revoked
        BY <1>10, <1>11, <4>1 DEF NotUnderway
      <4> QED
        BY <1>12, <4>1, <4>2
    <3>2. CASE NotAnswered({stream})
      <4>1. o.frame.type = stream
        BY <1>2, <1>8, <2>6, <3>2 DEF NotAnswered
      <4>2. h.type = stream /\ o.frame.type # "NACK"
        BY <1>5, <2>2, <4>1 DEF StreamCommands
      <4>3. AsCommanded'
        BY <1>2, <1>5, <2>2, <4>2 DEF AsCommanded, StreamCommands
      <4>4. /\ 1 \in 1 .. Len(requests) /\ requests[1].type = stream
        BY <1>4, <4>2
      <4>5. output'.type # Revoked
        BY <1>2, <2>1, <4>4
      <4>6. ASSUME NEW i \in 1 .. Len(requests')
            PROVE  requests'[i].type # Revoked
        <5>1. i + 1 \in 1 .. Len(requests) /\ 1 < i + 1 /\ requests'[i] = requests[i + 1]
          BY <1>4
        <5> QED
          BY <2>1, <4>4, <5>1
      <4>7. NotUnderway({Revoked})'
        BY <1>10, <4>5, <4>6 DEF NotUnderway
      <4> QED
        BY <4>3, <4>7
    <3> QED
      BY <3>1, <3>2
  <2> QED
    BY <1>2, <1>10, <2>3, <2>4, <2>5, <2>6 DEF LastComesLast
<1>14. SettledStays'
  <2> SUFFICES ASSUME Settled
               PROVE  AsCommanded' /\ NotUnderway({Revoked})' /\ NotAnswered({Revoked})'
    BY <1>10 DEF SettledStays
  <2>1. AsCommanded /\ NotUnderway({Revoked}) /\ NotAnswered({Revoked})
    BY DEF TelemetryInv, SettledStays
  <2>2. NotUnderway({Revoked})' /\ h.type # Revoked
    BY <1>10, <1>11, <2>1 DEF NotUnderway
  <2>3. o.frame.type # Revoked
    BY <1>5, <2>2 DEF Revoked
  <2>4. NotAnswered({Revoked})'
    BY <1>8, <1>10, <2>1, <2>3 DEF NotAnswered
  <2> QED
    BY <1>12, <2>1, <2>2, <2>4
<1>15. NothingYet'
  <2> SUFFICES ASSUME stream = "NONE"
               PROVE  /\ session.state = "READY"
                      /\ NotUnderway(StreamCommands)' /\ NotAnswered(StreamCommands)'
    BY <1>2 DEF NothingYet
  <2>1. /\ session.state = "READY"
        /\ NotUnderway(StreamCommands) /\ NotAnswered(StreamCommands)
    BY DEF TelemetryInv, NothingYet
  <2>2. NotUnderway(StreamCommands)' /\ h.type \notin StreamCommands
    BY <1>11, <2>1
  <2>3. o.frame.type \notin StreamCommands
    BY <1>5, <2>2 DEF StreamCommands
  <2>4. NotAnswered(StreamCommands)'
    BY <1>8, <2>1, <2>3 DEF NotAnswered
  <2> QED
    BY <2>1, <2>2, <2>4
<1> QED
  BY <1>9, <1>13, <1>14, <1>15 DEF TelemetryInv

(***************************************************************************)
(* The theorems                                                            *)
(***************************************************************************)
LEMMA TelemetryInitially == Init => TelemetryInv
<1> SUFFICES ASSUME Init
             PROVE  TelemetryInv
  OBVIOUS
<1>1. NoRequest \in Pendings
  BY DEF NoRequest, Pendings
<1>2. session \in Sessions /\ session.pending.active = FALSE /\ session.state = "READY"
  BY <1>1 DEF Init, InitialSession, Sessions, NoRequest
<1>3. device \in Devices
  BY DEF Init, BootSimulator, Devices
<1>4. TelemetryTypeOK
  BY <1>2, <1>3 DEF Init, TelemetryTypeOK
<1>5. /\ Len(requests) = 0 /\ Len(responses) = 0 /\ output.type = "NONE"
      /\ stream = "NONE"
  BY DEF Init, NoFrame
<1>6. NotUnderway(StreamCommands) /\ NotAnswered(StreamCommands)
  BY <1>5 DEF NotUnderway, NotAnswered, StreamCommands
<1>7. ~Settled
  BY <1>5 DEF Settled
<1> QED
  BY <1>2, <1>4, <1>5, <1>6, <1>7
  DEF TelemetryInv, PendingIsLast, LastComesLast, SettledStays, NothingYet

(* Every step of the daemon, of the line and of simulator_run keeps the    *)
(* order of stream commands on both directions of the line, whatever is    *)
(* lost, repeated or given up: what belongs to the last one comes last,    *)
(* and once it is answered nothing that is underway revokes it.            *)
THEOREM TelemetryInvariance == Spec => []TelemetryInv
<1>1. Init => TelemetryInv
  BY TelemetryInitially
<1>2. TelemetryInv /\ [Next]_vars => TelemetryInv'
  <2> SUFFICES ASSUME TelemetryInv, [Next]_vars
               PROVE  TelemetryInv'
    OBVIOUS
  <2>1. CASE StartRequest
    BY <2>1, StartRequestStep
  <2>2. CASE FlushTransport
    BY <2>2, FlushStep
  <2>3. CASE ReadTransport
    BY <2>3, ReadTransportStep
  <2>4. CASE TickRetry
    BY <2>4, TickRetryStep
  <2>5. CASE Emit \/ EmitFails
    BY <2>5, EmitStep
  <2>6. CASE ReadRequest
    BY <2>6, ReadRequestStep
  <2>7. CASE ClientLeaves \/ TickTimeout \/ Signal \/ LoopTest \/ Poll \/ Elapse
               \/ Noise \/ ReadNoise \/ UNCHANGED vars
    BY <2>7, QuietSteps
  <2> QED
    BY <2>1, <2>2, <2>3, <2>4, <2>5, <2>6, <2>7 DEF Next, Loop
<1> QED
  BY <1>1, <1>2, PTL DEF Spec

(* Once a stream command was answered to its client, the device is as it   *)
(* was told: no copy of an earlier command that timed out, and no answer   *)
(* that came late, turns the stream on or off behind the daemon's back,    *)
(* for every number of commands and retries, every capacity of the line    *)
(* and also after sequence numbers came round.                             *)
THEOREM StreamAgreement == Spec => []AnsweredStreamAgrees
<1>1. TelemetryInv => AnsweredStreamAgrees
  BY DEF TelemetryInv, SettledStays, Settled, AsCommanded, AnsweredStreamAgrees
<1> QED
  BY <1>1, TelemetryInvariance, PTL
=============================================================================
