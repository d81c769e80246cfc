------------------------------ MODULE Exchange ------------------------------
(***************************************************************************)
(* One exchange of a local client with the daemon, down to partial reads   *)
(* and writes: connect_socket, write_all, read_all and exchange of         *)
(* apps/devctl/main.c against accept_clients, handle_client_input,         *)
(* queue_client_response and handle_client_output of daemon.c.             *)
(*                                                                         *)
(* Bytes are counted in units, so that a header is HeaderSize units.  A    *)
(* request needs no content beyond its length, so the way up is a count;   *)
(* the way down carries units of a particular answer, as an answer that is *)
(* queued a second time would mix with the first.                          *)
(***************************************************************************)
EXTENDS Integers, Sequences, FiniteSets

CONSTANTS
  Clients,
  MaxClients,     \* MAX_CLIENTS, 16 in the program
  HeaderSize,     \* units of a header
  MaxPayload,     \* DEVMGR_IPC_MAX_PAYLOAD
  Requests,       \* [declared, total]: payload length announced, units sent
  AnswerSizes,    \* the payload lengths of the daemon's answers
  Window,         \* the units a socket buffer holds, at least a header
  Impatient       \* whether SO_RCVTIMEO may expire

ASSUME ExchangeAssumption ==
  /\ MaxClients \in Nat \ {0} /\ HeaderSize \in Nat \ {0}
  /\ MaxPayload \in Nat /\ AnswerSizes \subseteq 0 .. MaxPayload
  /\ \A r \in Requests : r.declared \in Nat /\ r.total \in Nat
  /\ Window \in Nat /\ Window >= HeaderSize /\ Impatient \in BOOLEAN

VARIABLES
  client,   \* exchange() of each client: where it is, what it sends and has read
  slot,     \* struct daemon_client of each connection
  up,       \* units on the way to the daemon
  down,     \* units on the way to the client
  killed    \* the daemon died of SIGPIPE

vars == <<client, slot, up, down, killed>>

NoAnswer == [size |-> -1, number |-> 0]

(* state: pending in the backlog, open, or closed by the daemon *)
NoSlot == [state |-> "none", input |-> 0, expected |-> 0, asked |-> FALSE,
           output |-> NoAnswer, offset |-> 0, answers |-> 0]

Init ==
  /\ client \in [Clients -> [pc : {"connect"}, request : Requests,
                             sent : {0}, read : {<<>>}]]
  /\ slot = [c \in Clients |-> NoSlot]
  /\ up = [c \in Clients |-> 0]
  /\ down = [c \in Clients |-> <<>>]
  /\ killed = FALSE

Shorter(a, b) == IF a <= b THEN a ELSE b

(* Unit i of an answer; a unit of the header tells the payload length. *)
Unit(answer, i) == [number |-> answer.number, size |-> answer.size, at |-> i]
Units(answer) == [i \in 1 .. HeaderSize + answer.size |-> Unit(answer, i)]

(***************************************************************************)
(* devctl                                                                  *)
(***************************************************************************)
Ends == {"OK", "DISCONNECTED", "IO", "killed"}
Gone(c) == client[c].pc \in Ends

Connect(c) ==
  /\ client[c].pc = "connect" /\ ~killed
  /\ client' = [client EXCEPT ![c].pc = "write"]
  /\ slot' = [slot EXCEPT ![c].state = "pending"]
  /\ UNCHANGED <<up, down, killed>>

(* write_all: any part that fits. *)
WriteSome(c) ==
  /\ client[c].pc = "write"
  /\ slot[c].state # "closed"
  /\ \E n \in 1 .. Shorter(client[c].request.total - client[c].sent,
                           Window - up[c]) :
       /\ up' = [up EXCEPT ![c] = @ + n]
       /\ client' = [client EXCEPT ![c].sent = @ + n,
                       ![c].pc = IF client[c].sent + n = client[c].request.total
                                 THEN "read" ELSE "write"]
  /\ UNCHANGED <<slot, down, killed>>

(* The daemon has closed: SIGPIPE ends devctl before write_all returns. *)
WriteToClosed(c) ==
  /\ client[c].pc = "write"
  /\ slot[c].state = "closed"
  /\ client' = [client EXCEPT ![c].pc = "killed"]
  /\ UNCHANGED <<slot, up, down, killed>>

(* What read_all asks for next: the rest of the header, then of the payload. *)
Wanted(read) ==
  IF Len(read) < HeaderSize THEN HeaderSize - Len(read)
  ELSE HeaderSize + read[HeaderSize].size - Len(read)

ReadSome(c) ==
  /\ client[c].pc = "read" /\ down[c] # <<>>
  /\ \E n \in 1 .. Shorter(Wanted(client[c].read), Len(down[c])) :
       LET read == client[c].read \o SubSeq(down[c], 1, n)
       IN  /\ client' = [client EXCEPT ![c].read = read,
                           ![c].pc = IF Wanted(read) = 0 THEN "OK" ELSE "read"]
           /\ down' = [down EXCEPT ![c] = SubSeq(@, n + 1, Len(@))]
  /\ UNCHANGED <<slot, up, killed>>

ReadEnd(c) ==
  /\ client[c].pc = "read" /\ down[c] = <<>> /\ slot[c].state = "closed"
  /\ client' = [client EXCEPT ![c].pc = "DISCONNECTED"]
  /\ UNCHANGED <<slot, up, down, killed>>

(* SO_RCVTIMEO or SO_SNDTIMEO expires. *)
GiveUp(c) ==
  /\ Impatient /\ client[c].pc \in {"write", "read"}
  /\ client' = [client EXCEPT ![c].pc = "IO"]
  /\ UNCHANGED <<slot, up, down, killed>>

Devctl(c) == \/ Connect(c) \/ WriteSome(c) \/ WriteToClosed(c) \/ ReadSome(c)
             \/ ReadEnd(c)

(***************************************************************************)
(* The daemon                                                              *)
(***************************************************************************)
Open == {c \in Clients : slot[c].state = "open"}

Accept(c) ==
  /\ ~killed /\ slot[c].state = "pending"
  /\ slot' = [slot EXCEPT ![c].state = IF Cardinality(Open) < MaxClients
                                       THEN "open" ELSE "closed"]
  /\ UNCHANGED <<client, up, down, killed>>

CloseClient(c) == slot' = [slot EXCEPT ![c] = [NoSlot EXCEPT !.state = "closed"]]

(* queue_client_response on the slot s *)
Queued(s, size) ==
  [s EXCEPT !.output = [size |-> size, number |-> s.answers + 1],
            !.offset = 0, !.answers = @ + 1, !.asked = FALSE]

(* Mutant: a header is complete only with a unit after it. *)
FilledLate(c, n) ==
  LET s == slot[c]
      input == s.input + n
      declared == client[c].request.declared
  IN  [s EXCEPT !.input = input,
         !.expected = IF input > HeaderSize /\ @ = 0 /\ declared <= MaxPayload
                      THEN HeaderSize + declared ELSE @]

(* The buffer after a read of n units, and the expected size once the      *)
(* header is complete.                                                     *)
Filled(c, n) ==
  LET s == slot[c]
      input == s.input + n
      declared == client[c].request.declared
  IN  [s EXCEPT !.input = input,
         !.expected = IF input >= HeaderSize /\ @ = 0 /\ declared <= MaxPayload
                      THEN HeaderSize + declared ELSE @]

(* One read of handle_client_input.  A payload length above the limit is   *)
(* answered at once; a buffer that holds exactly the request is decoded,   *)
(* and start_request answers it or forwards it to the device.              *)
HandleInput(c) ==
  LET s == slot[c]
      n == Shorter(up[c], HeaderSize + MaxPayload - s.input)
      filled == Filled(c, n)
  IN  /\ ~killed /\ s.state = "open" /\ n > 0
      /\ up' = [up EXCEPT ![c] = @ - n]
      /\ \/ /\ filled.input >= HeaderSize /\ filled.expected = 0
            /\ slot' = [slot EXCEPT ![c] = Queued(filled, 0)]
         \/ /\ filled.expected # 0 /\ filled.input = filled.expected
            /\ \/ slot' = [slot EXCEPT ![c] = [filled EXCEPT !.asked = TRUE]]
               \/ \E size \in AnswerSizes :
                    slot' = [slot EXCEPT ![c] = Queued(filled, size)]
         \/ /\ IF filled.expected = 0 THEN filled.input < HeaderSize
               ELSE filled.input # filled.expected
            /\ slot' = [slot EXCEPT ![c] = filled]
      /\ UNCHANGED <<client, down, killed>>

(* A full buffer leaves read() a length of 0, whose result looks like the  *)
(* end of the stream; a client that has closed gives the same result.      *)
InputEnds(c) ==
  /\ ~killed /\ slot[c].state = "open"
  /\ \/ up[c] > 0 /\ slot[c].input = HeaderSize + MaxPayload
     \/ up[c] = 0 /\ Gone(c)
  /\ CloseClient(c)
  /\ UNCHANGED <<client, up, down, killed>>

(* The device answers or its retries are exhausted. *)
Reply(c) ==
  /\ ~killed /\ slot[c].state = "open" /\ slot[c].asked
  /\ \E size \in AnswerSizes : slot' = [slot EXCEPT ![c] = Queued(@, size)]
  /\ UNCHANGED <<client, up, down, killed>>

Unwritten(s) == IF s.output = NoAnswer THEN 0
                ELSE HeaderSize + s.output.size - s.offset

(* A write takes what the socket buffer has room for. *)
Writable(c) == Shorter(Unwritten(slot[c]), Window - Len(down[c]))

(* Mutant: output_offset is not kept between two writes. *)
HandleOutputAgain(c) ==
  LET s == slot[c]
      n == Writable(c)
  IN  /\ ~killed /\ s.state = "open" /\ n > 0 /\ ~Gone(c)
      /\ down' = [down EXCEPT ![c] = @ \o SubSeq(Units(s.output), 1, n)]
      /\ IF n = Unwritten(s) THEN CloseClient(c)
         ELSE slot' = [slot EXCEPT ![c].offset = @ + n]
      /\ UNCHANGED <<client, up, killed>>

(* handle_client_output: the connection is closed after the last part. *)
HandleOutput(c) ==
  LET s == slot[c]
      n == Writable(c)
  IN  /\ ~killed /\ s.state = "open" /\ n > 0 /\ ~Gone(c)
      /\ down' = [down EXCEPT ![c] =
           @ \o SubSeq(Units(s.output), s.offset + 1, s.offset + n)]
      /\ IF n = Unwritten(s) THEN CloseClient(c)
         ELSE slot' = [slot EXCEPT ![c].offset = @ + n]
      /\ UNCHANGED <<client, up, killed>>

(* SIGPIPE ends the daemon when the client has closed; the kernel closes   *)
(* every connection.                                                       *)
WriteToGone(c) ==
  /\ ~killed /\ slot[c].state = "open" /\ Unwritten(slot[c]) > 0 /\ Gone(c)
  /\ killed' = TRUE
  /\ slot' = [d \in Clients |-> IF slot[d].state \in {"open", "pending"}
                                THEN [NoSlot EXCEPT !.state = "closed"]
                                ELSE slot[d]]
  /\ UNCHANGED <<client, up, down>>

Serve(c) == \/ Accept(c) \/ HandleInput(c) \/ InputEnds(c) \/ Reply(c)
            \/ HandleOutput(c)

Next == \E c \in Clients : Devctl(c) \/ GiveUp(c) \/ Serve(c) \/ WriteToGone(c)

(* Each handler of the reactor and each step of devctl is taken in the     *)
(* end; Reply because the session gives up on a device that is silent.     *)
Spec == Init /\ [][Next]_vars
          /\ \A c \in Clients : WF_vars(Devctl(c)) /\ WF_vars(Serve(c))

(***************************************************************************)
(* Properties                                                              *)
(***************************************************************************)
(* An exchange that succeeds has read one answer, whole and in order, of   *)
(* the daemon to this client, however the writes and reads were cut up.    *)
WholeAnswer ==
  \A c \in Clients :
    client[c].pc = "OK" =>
      LET first == client[c].read[1]
      IN  client[c].read = Units([size |-> first.size, number |-> first.number])

(* A client that has a slot and sends what it announced ends with the      *)
(* whole answer, unless it stops waiting or the daemon dies: no write      *)
(* waits for a read that waits for the write, wherever the bytes are cut.  *)
ExchangeCompletes ==
  \A c \in Clients :
    slot[c].state = "open" /\ client[c].request.declared <= MaxPayload
      ~> client[c].pc \in {"OK", "IO"} \/ killed
=============================================================================
