----------------------------- MODULE Telemetry -----------------------------
(***************************************************************************)
(* Telemetry from end to end: a client's START and STOP commands through   *)
(* the session of daemon.c, the serial line, and the main loop of the      *)
(* device simulator (simulator_run), which answers requests, emits samples *)
(* on its own and ends on a signal.                                        *)
(*                                                                         *)
(* The line keeps the order of frames and may lose any of them, by a drop  *)
(* or by damage that the CRC of the receiver's parser refuses.  Deadlines  *)
(* of the host pass at any time; whether next_telemetry_ns has passed is   *)
(* the flag due.                                                           *)
(***************************************************************************)
EXTENDS Session, Simulator

CONSTANTS
  Queries,         \* the commands of this model other than the stream commands
  Intervals,       \* the intervals that START_TELEMETRY of this model carries
  Lossy,           \* whether the line loses frames
  Capacity,        \* bound on the frames of one direction of the line
  MaxRequests,     \* bound on the commands of one behaviour
  ClientRetries    \* max_retries of a client's command, 2 in the program

ASSUME TelemetryAssumption ==
  /\ Queries \subseteq {"PING", "GET_INFO", "GET_HEALTH", "GET_STATS"}
  /\ Intervals \subseteq Nat /\ Lossy \in BOOLEAN
  /\ Capacity \in Nat \ {0} /\ MaxRequests \in Nat /\ ClientRetries \in Nat

VARIABLES
  session,         \* context->session
  waiting,         \* active_client >= 0: somebody waits for the answer
  latest,          \* latest_telemetry, the number of the sample or None
  output,          \* the frame in transport_output
  copy,            \* pending.frame, what a retry sends again
  issued,          \* commands forwarded so far
  stream,          \* history: the last stream command forwarded
  requests, responses,  \* the two directions of the line
  device,          \* struct simulator_state
  due,             \* now_ns >= next_telemetry_ns
  loop,            \* where simulator_run is
  stop_requested   \* set by the signal handler

hostVars == <<session, waiting, latest, output, copy, issued, stream>>
deviceVars == <<device, due, loop, stop_requested>>
vars == <<hostVars, deviceVars, requests, responses>>

None == -1
NoFrame == [type |-> "NONE", sequence |-> 0, payload |-> <<>>]

Init ==
  /\ session = [InitialSession EXCEPT !.state = "READY"]
  /\ waiting = FALSE /\ latest = None
  /\ output = NoFrame /\ copy = NoFrame
  /\ issued = 0 /\ stream = "NONE"
  /\ requests = <<>> /\ responses = <<>>
  /\ device = BootSimulator
  /\ due = FALSE /\ loop = "test" /\ stop_requested = FALSE

(***************************************************************************)
(* The daemon                                                              *)
(***************************************************************************)
StreamCommands == {"START_TELEMETRY", "STOP_TELEMETRY"}
Commands == Queries \union StreamCommands

Allowed(command) ==
  /\ command = "START_TELEMETRY" => session.state = "READY"
  /\ command = "STOP_TELEMETRY" => session.state = "STREAMING"
  /\ ~waiting /\ CanBegin(session) /\ output = NoFrame

(* start_request for a command that is not refused. *)
StartRequest ==
  /\ issued < MaxRequests
  /\ \E command \in Commands, payload \in {<<>>} \union {<<n>> : n \in Intervals} :
       /\ payload # <<>> => command = "START_TELEMETRY"
       /\ Allowed(command)
       /\ session' = BeginRequest(session, command, ClientRetries)
       /\ output' = [type |-> command, sequence |-> session.next_sequence,
                     payload |-> payload]
       /\ stream' = IF command \in StreamCommands THEN command ELSE stream
  /\ copy' = output'
  /\ waiting' = TRUE
  /\ issued' = issued + 1
  /\ UNCHANGED <<latest, deviceVars, requests, responses>>

(* close_client of the client that waits. *)
ClientLeaves ==
  /\ waiting
  /\ waiting' = FALSE
  /\ UNCHANGED <<session, latest, output, copy, issued, stream, deviceVars,
                 requests, responses>>

(* A frame put on a direction of the line, which may lose it. *)
Sent(line, frame) ==
  (IF Len(line) < Capacity THEN {Append(line, frame)} ELSE {})
    \union (IF Lossy THEN {line} ELSE {})

FlushTransport ==
  /\ output # NoFrame
  /\ requests' \in Sent(requests, output)
  /\ output' = NoFrame
  /\ UNCHANGED <<session, waiting, latest, copy, issued, stream, deviceVars,
                 responses>>

(* The move of the session when a command was accepted by the device. *)
Moved(s, command) ==
  CASE command = "START_TELEMETRY" -> Transition(s, "START_STREAM")
    [] command = "STOP_TELEMETRY"  -> Transition(s, "STOP_STREAM")
    [] OTHER                       -> s

KeepSample(f) ==
  /\ f.type = "TELEMETRY" /\ f.sequence = 0
  /\ latest' = f.payload[1]
  /\ UNCHANGED <<session, waiting>>

IgnoreFrame(f) ==
  /\ f.type # "TELEMETRY" /\ ~Matches(session, f)
  /\ UNCHANGED <<session, waiting, latest>>

(* Mutant: a refusal moves the session too. *)
ReplyWhateverType(f) ==
  /\ f.type # "TELEMETRY" /\ Matches(session, f)
  /\ session' = IF waiting THEN Moved(Complete(session), session.pending.type)
                ELSE Complete(session)
  /\ waiting' = FALSE
  /\ UNCHANGED latest

(* The answer: only one that a client waits for moves the session. *)
Reply(f) ==
  /\ f.type # "TELEMETRY" /\ Matches(session, f)
  /\ session' = IF waiting /\ f.type \notin ErrorTypes
                THEN Moved(Complete(session), session.pending.type)
                ELSE Complete(session)
  /\ waiting' = FALSE
  /\ UNCHANGED latest

ReadTransport ==
  /\ responses # <<>>
  /\ responses' = Tail(responses)
  /\ LET f == Head(responses) IN KeepSample(f) \/ IgnoreFrame(f) \/ Reply(f)
  /\ UNCHANGED <<output, copy, issued, stream, deviceVars, requests>>

TickRetry ==
  /\ session.pending.active /\ ~Exhausted(session) /\ output = NoFrame
  /\ session' = Retry(session)
  /\ output' = copy
  /\ UNCHANGED <<waiting, latest, copy, issued, stream, deviceVars, requests,
                 responses>>

(* The client is told TIMEOUT.  With no client the daemon ends: that end   *)
(* is a finding of Daemon and left out here.                               *)
TickTimeout ==
  /\ session.pending.active /\ Exhausted(session) /\ waiting
  /\ session' = Expire(session)
  /\ waiting' = FALSE
  /\ UNCHANGED <<latest, output, copy, issued, stream, deviceVars, requests,
                 responses>>

(***************************************************************************)
(* simulator_run                                                           *)
(***************************************************************************)
(* The handler only sets a flag; a poll that is waiting returns EINTR. *)
Signal ==
  /\ ~stop_requested
  /\ stop_requested' = TRUE
  /\ loop' = IF loop = "poll" THEN "test" ELSE loop
  /\ UNCHANGED <<hostVars, device, due, requests, responses>>

LoopTest ==
  /\ loop = "test"
  /\ loop' = IF stop_requested THEN "exited" ELSE "enter"
  /\ UNCHANGED <<hostVars, device, due, stop_requested, requests, responses>>

(* Mutant: poll waits without a timeout. *)
PollWithoutTimeout ==
  /\ \/ /\ loop \in {"enter", "poll"} /\ requests # <<>>
        /\ loop' = "emit_read"
     \/ loop = "enter" /\ loop' = "poll"
  /\ UNCHANGED <<hostVars, device, due, stop_requested, requests, responses>>

(* The call and the wait: input, or a timeout of 100 ms with telemetry and *)
(* 1 s without, or an event that is not POLLIN.                            *)
Poll ==
  /\ \/ /\ loop \in {"enter", "poll"} /\ requests # <<>>
        /\ loop' = "emit_read"
     \/ loop = "enter" /\ loop' = "poll"
     \/ loop = "poll" /\ loop' = "emit"
  /\ UNCHANGED <<hostVars, device, due, stop_requested, requests, responses>>

(* Bytes come in that make no frame, such as what is left of a damaged     *)
(* one: poll returns for them too.  No fairness asks for them.             *)
Noise ==
  /\ Lossy /\ loop \in {"enter", "poll"}
  /\ loop' = "emit_read"
  /\ UNCHANGED <<hostVars, device, due, stop_requested, requests, responses>>

(* Mutant: a sample is emitted only when poll has timed out. *)
EmitOnTimeout ==
  /\ loop \in {"emit", "emit_read"}
  /\ IF device.telemetry /\ due /\ loop = "emit"
     THEN /\ responses' \in Sent(responses, Sample(device))
          /\ device' = Sampled(device) /\ due' = FALSE
     ELSE UNCHANGED <<responses, device, due>>
  /\ loop' = IF loop = "emit_read" THEN "read" ELSE "test"
  /\ UNCHANGED <<hostVars, stop_requested, requests>>

Emit ==
  /\ loop \in {"emit", "emit_read"}
  /\ IF device.telemetry /\ due
     THEN /\ responses' \in Sent(responses, Sample(device))
          /\ device' = Sampled(device) /\ due' = FALSE
     ELSE UNCHANGED <<responses, device, due>>
  /\ loop' = IF loop = "emit_read" THEN "read" ELSE "test"
  /\ UNCHANGED <<hostVars, stop_requested, requests>>

(* write_frame finds the terminal full for a second: a sample ends the     *)
(* simulator, an answer is given up.                                       *)
EmitFails ==
  /\ loop \in {"emit", "emit_read"}
  /\ device.telemetry /\ due /\ Len(responses) = Capacity
  /\ device' = Sampled(device) /\ due' = FALSE
  /\ loop' = "exited"
  /\ UNCHANGED <<hostVars, stop_requested, requests, responses>>

(* A read takes some of the frames on the line and answers each, or gets   *)
(* nothing but noise.                                                      *)
ReadRequest ==
  /\ loop = "read" /\ requests # <<>>
  /\ requests' = Tail(requests)
  /\ \E outcome \in SimulatorHandle(device, Head(requests)) :
       /\ device' = outcome.device
       /\ due' = (due /\ outcome.frame.type # "START_TELEMETRY")
       /\ responses' \in Sent(responses, outcome.frame)
                           \union (IF Len(responses) = Capacity THEN {responses} ELSE {})
  /\ loop' \in (IF requests' = <<>> THEN {"test"} ELSE {"test", "read"})
  /\ UNCHANGED <<hostVars, stop_requested>>

ReadNoise ==
  /\ loop = "read" /\ Lossy
  /\ loop' = "test"
  /\ UNCHANGED <<hostVars, device, due, stop_requested, requests, responses>>

(* CLOCK_MONOTONIC passes next_telemetry_ns. *)
Elapse ==
  /\ device.telemetry /\ ~due
  /\ due' = TRUE
  /\ UNCHANGED <<hostVars, device, loop, stop_requested, requests, responses>>

Loop == LoopTest \/ Poll \/ Emit \/ EmitFails \/ ReadRequest \/ ReadNoise

Next == \/ StartRequest \/ ClientLeaves \/ FlushTransport \/ ReadTransport
        \/ TickRetry \/ TickTimeout \/ Signal \/ Loop \/ Noise \/ Elapse

(***************************************************************************)
(* Both processes are scheduled, and time passes.                          *)
(***************************************************************************)
Fairness == WF_vars(Loop) /\ WF_vars(ReadTransport) /\ WF_vars(Elapse)

Spec == Init /\ [][Next]_vars /\ Fairness

(***************************************************************************)
(* Properties                                                              *)
(***************************************************************************)
(* Host and device agree once a stream command has been answered to its    *)
(* client: no copy of an earlier command that timed out, and no stale      *)
(* answer, turns the stream on or off behind the daemon's back.            *)
AnsweredStreamAgrees ==
  /\ session.state = "STREAMING" /\ stream = "START_TELEMETRY" => device.telemetry
  /\ session.state = "READY" /\ stream = "STOP_TELEMETRY" => ~device.telemetry

(* A device that streams goes on delivering samples to the daemon, when    *)
(* nobody sends it anything as well as when its input never ceases and     *)
(* poll never times out, once the line no longer loses them.               *)
SampleArrives ==
  /\ <>[](device.telemetry /\ loop # "exited")
  /\ <>[][device'.samples # device.samples => responses' # responses]_vars
  => []<><<latest' # latest>>_latest

(* A signal ends the simulator wherever in its loop it arrives, between    *)
(* the test of stop_requested and poll() too.                              *)
SimulatorStops == stop_requested ~> loop = "exited"
=============================================================================
