--------------------------- MODULE ExchangeProofs ---------------------------
(***************************************************************************)
(* An exchange that succeeds has read one whole answer, for every number   *)
(* of clients, size of the messages and of the socket buffers.             *)
(***************************************************************************)
EXTENDS Exchange, SequenceTheorems, TLAPS

(***************************************************************************)
(* The inductive invariant                                                 *)
(***************************************************************************)
Answers == [size : Nat, number : Nat]
UnitRecords == [number : Nat, size : Nat, at : Nat]

ClientRecords == [pc : {"connect", "write", "read"} \union Ends, request : Requests,
                  sent : Nat, read : Seq(UnitRecords)]

SlotRecords == [state : {"none", "pending", "open", "closed"}, input : Nat, expected : Nat,
                asked : BOOLEAN, output : Answers \union {NoAnswer}, offset : Nat,
                answers : Nat]

ExchangeTypeOK ==
  /\ client \in [Clients -> ClientRecords]
  /\ slot \in [Clients -> SlotRecords]
  /\ up \in [Clients -> Nat]
  /\ down \in [Clients -> Seq(UnitRecords)]

(* What the client has read, and behind it what is on the way, is a        *)
(* beginning of one answer.                                                *)
Carried(read, line, answer) ==
  /\ Len(read) + Len(line) <= HeaderSize + answer.size
  /\ \A i \in 1 .. Len(read) : read[i] = Unit(answer, i)
  /\ \A i \in 1 .. Len(line) : line[i] = Unit(answer, Len(read) + i)

(* The answer in output continues what has been written of it; before one  *)
(* is queued nothing has been.                                             *)
Continues(s, read, line) ==
  /\ s.state # "closed" /\ s.output = NoAnswer =>
       read = <<>> /\ line = <<>> /\ s.offset = 0
  /\ s.output # NoAnswer =>
       /\ s.state = "open"
       /\ Carried(read, line, s.output)
       /\ s.offset = Len(read) + Len(line)

(* An answer is queued when the request is complete, and queued again only *)
(* where the first is a header of which nothing has been written.          *)
AnsweredOnce(s, declared) ==
  /\ s.state \in {"none", "pending"} => s.input = 0 /\ s.output = NoAnswer
  /\ s.expected # 0 => s.expected = HeaderSize + declared
  /\ s.expected = 0 /\ s.input >= HeaderSize => declared > MaxPayload
  /\ s.asked => s.output = NoAnswer /\ s.expected # 0 /\ s.input >= s.expected
  /\ s.output # NoAnswer =>
       /\ ~s.asked
       /\ s.expected = 0 => s.input >= HeaderSize /\ s.output.size = 0 /\ s.offset = 0
       /\ s.expected # 0 => s.input >= s.expected

(* What read_all has read when exchange returns DEVMGR_OK. *)
Ended(one) == one.pc = "OK" => Len(one.read) >= HeaderSize /\ Wanted(one.read) = 0

ClientInv(c) ==
  /\ \E answer \in Answers : Carried(client[c].read, down[c], answer)
  /\ Continues(slot[c], client[c].read, down[c])
  /\ AnsweredOnce(slot[c], client[c].request.declared)
  /\ Ended(client[c])
  /\ client[c].pc = "connect" => slot[c].state = "none"

ExchangeInv == ExchangeTypeOK /\ \A c \in Clients : ClientInv(c)

(***************************************************************************)
(* The parts of the invariant                                              *)
(***************************************************************************)
LEMMA ClosedSlot ==
  LET closed == [NoSlot EXCEPT !.state = "closed"]
  IN  /\ closed \in SlotRecords
      /\ \A read, line : Continues(closed, read, line)
      /\ \A declared : AnsweredOnce(closed, declared)
<1> DEFINE closed == [NoSlot EXCEPT !.state = "closed"]
<1>1. NoSlot \in SlotRecords
  BY DEF NoSlot, SlotRecords
<1>2. /\ closed \in SlotRecords /\ closed.state = "closed" /\ closed.output = NoAnswer
      /\ closed.input = 0 /\ closed.expected = 0 /\ closed.asked = FALSE
  BY <1>1 DEF NoSlot, SlotRecords
<1> HIDE DEF closed
<1>3. \A read, line : Continues(closed, read, line)
  BY <1>2 DEF Continues
<1>4. \A declared : AnsweredOnce(closed, declared)
  BY <1>2, ExchangeAssumption DEF AnsweredOnce
<1> QED
  BY <1>2, <1>3, <1>4 DEF closed

(* Nothing of an answer is carried yet. *)
LEMMA NothingCarried ==
  ASSUME NEW answer, answer.size \in Nat
  PROVE  Carried(<<>>, <<>>, answer)
  BY ExchangeAssumption DEF Carried

(* The answer of a slot of which nothing has been written. *)
LEMMA QueuedSlot ==
  ASSUME NEW s \in SlotRecords, NEW size \in 0 .. MaxPayload
  PROVE  LET q == Queued(s, size)
         IN  /\ q \in SlotRecords /\ q.state = s.state
             /\ q.input = s.input /\ q.expected = s.expected
             /\ q.asked = FALSE /\ q.offset = 0
             /\ q.output \in Answers /\ q.output # NoAnswer /\ q.output.size = size
<1> DEFINE q == Queued(s, size)
           output == [size |-> size, number |-> s.answers + 1]
<1>1. output \in Answers /\ output # NoAnswer /\ output.size = size
  <2>1. s.answers + 1 \in Nat /\ size \in Nat
    BY ExchangeAssumption DEF SlotRecords
  <2>2. output \in Answers /\ output.size = size
    BY <2>1 DEF Answers
  <2>3. NoAnswer.size = -1
    BY DEF NoAnswer
  <2> QED
    BY <2>1, <2>2, <2>3
<1>2. s.answers + 1 \in Nat
  BY DEF SlotRecords
<1> HIDE DEF output
<1>3. q = [s EXCEPT !.output = output, !.offset = 0, !.answers = @ + 1, !.asked = FALSE]
  BY DEF Queued, output
<1>4. q \in SlotRecords
  <2>1. [s EXCEPT !.output = output, !.offset = 0] \in SlotRecords
    BY <1>1 DEF SlotRecords
  <2>2. [[s EXCEPT !.output = output, !.offset = 0]
           EXCEPT !.answers = s.answers + 1, !.asked = FALSE] \in SlotRecords
    BY <1>2, <2>1 DEF SlotRecords
  <2> QED
    BY <1>3, <2>2 DEF SlotRecords
<1> HIDE DEF q
<1>5. /\ q.state = s.state /\ q.input = s.input /\ q.expected = s.expected
      /\ q.asked = FALSE /\ q.offset = 0 /\ q.output = output
  BY <1>3 DEF SlotRecords
<1> QED
  BY <1>1, <1>4, <1>5 DEF q

LEMMA QueuedContinues ==
  ASSUME NEW q, q.output # NoAnswer, q.output.size \in Nat,
         q.state = "open", q.offset = 0
  PROVE  Continues(q, <<>>, <<>>)
  BY NothingCarried DEF Continues

(***************************************************************************)
(* A step for client c                                                     *)
(***************************************************************************)
(* The new records of c, and nothing else, have to satisfy the invariant. *)
LEMMA StepFor ==
  ASSUME ExchangeInv, NEW c \in Clients,
         NEW one \in ClientRecords, NEW s \in SlotRecords,
         NEW line \in Seq(UnitRecords),
         client' = [client EXCEPT ![c] = one], slot' = [slot EXCEPT ![c] = s],
         down' = [down EXCEPT ![c] = line], up' \in [Clients -> Nat],
         \E answer \in Answers : Carried(one.read, line, answer),
         Continues(s, one.read, line),
         AnsweredOnce(s, one.request.declared),
         Ended(one),
         one.pc = "connect" => s.state = "none"
  PROVE  ExchangeInv'
<1>1. ExchangeTypeOK'
  BY DEF ExchangeInv, ExchangeTypeOK
<1>2. client'[c] = one /\ slot'[c] = s /\ down'[c] = line
  BY DEF ExchangeInv, ExchangeTypeOK
<1>3. ASSUME NEW d \in Clients, d # c
      PROVE  client'[d] = client[d] /\ slot'[d] = slot[d] /\ down'[d] = down[d]
  BY <1>3 DEF ExchangeInv, ExchangeTypeOK
<1>4. ASSUME NEW d \in Clients PROVE ClientInv(d)'
  <2>1. CASE d = c
    BY <1>2, <2>1 DEF ClientInv
  <2>2. CASE d # c
    BY <1>3, <2>2 DEF ExchangeInv, ClientInv
  <2> QED
    BY <2>1, <2>2
<1> QED
  BY <1>1, <1>4 DEF ExchangeInv

LEMMA Records ==
  ASSUME ExchangeInv, NEW c \in Clients
  PROVE  /\ client[c] \in ClientRecords /\ slot[c] \in SlotRecords
         /\ up[c] \in Nat /\ down[c] \in Seq(UnitRecords)
         /\ client[c].read \in Seq(UnitRecords) /\ client[c].request \in Requests
         /\ client[c].request.declared \in Nat
         /\ ClientInv(c)
         /\ client = [client EXCEPT ![c] = client[c]]
         /\ slot = [slot EXCEPT ![c] = slot[c]]
         /\ down = [down EXCEPT ![c] = down[c]]
         /\ up \in [Clients -> Nat]
<1>1. /\ client[c] \in ClientRecords /\ slot[c] \in SlotRecords
      /\ up[c] \in Nat /\ down[c] \in Seq(UnitRecords)
      /\ ClientInv(c)
      /\ client = [client EXCEPT ![c] = client[c]]
      /\ slot = [slot EXCEPT ![c] = slot[c]]
      /\ down = [down EXCEPT ![c] = down[c]]
      /\ up \in [Clients -> Nat]
  BY DEF ExchangeInv, ExchangeTypeOK
<1>2. client[c].read \in Seq(UnitRecords) /\ client[c].request \in Requests
  BY <1>1 DEF ClientRecords
<1> QED
  BY <1>1, <1>2, ExchangeAssumption

(* A step in which the client only moves on, without having read. *)
LEMMA ClientMoves ==
  ASSUME ExchangeInv, NEW c \in Clients, NEW one \in ClientRecords,
         client' = [client EXCEPT ![c] = one],
         one.read = client[c].read, one.request = client[c].request, one.pc \notin {"connect", "OK"},
         UNCHANGED <<slot, down>>, up' \in [Clients -> Nat]
  PROVE  ExchangeInv'
<1>1. Ended(one)
  BY DEF Ended
<1>2. ClientInv(c) /\ slot[c] \in SlotRecords /\ down[c] \in Seq(UnitRecords)
      /\ slot' = [slot EXCEPT ![c] = slot[c]] /\ down' = [down EXCEPT ![c] = down[c]]
  BY Records
<1> QED
  BY <1>1, <1>2, StepFor DEF ClientInv

LEMMA ConnectStep ==
  ASSUME ExchangeInv, NEW c \in Clients, Connect(c)
  PROVE  ExchangeInv'
<1> DEFINE one == [client[c] EXCEPT !.pc = "write"]
           s == [slot[c] EXCEPT !.state = "pending"]
<1>0. /\ client[c] \in ClientRecords /\ slot[c] \in SlotRecords /\ ClientInv(c)
      /\ client[c].pc = "connect" /\ client[c].request.declared \in Nat
  BY Records DEF Connect
<1>1. /\ client' = [client EXCEPT ![c] = one] /\ slot' = [slot EXCEPT ![c] = s]
      /\ UNCHANGED <<up, down>>
  BY DEF Connect, ExchangeInv, ExchangeTypeOK
<1>2. /\ one \in ClientRecords /\ one.read = client[c].read
      /\ one.request = client[c].request /\ one.pc = "write"
  BY <1>0 DEF ClientRecords
<1>3. /\ s \in SlotRecords /\ s.state = "pending" /\ s.output = slot[c].output
      /\ s.input = slot[c].input /\ s.expected = slot[c].expected
      /\ s.asked = slot[c].asked /\ s.offset = slot[c].offset
  BY <1>0 DEF SlotRecords
<1> HIDE DEF one, s
<1>4. slot[c].state = "none" /\ slot[c].input = 0 /\ slot[c].output = NoAnswer
  BY <1>0 DEF ClientInv, AnsweredOnce
<1>5. Continues(s, one.read, down[c])
  BY <1>0, <1>2, <1>3, <1>4 DEF ClientInv, Continues
<1>6. AnsweredOnce(s, one.request.declared)
  BY <1>0, <1>2, <1>3, <1>4 DEF ClientInv, AnsweredOnce
<1>7. Ended(one)
  BY <1>2 DEF Ended
<1>8. /\ \E answer \in Answers : Carried(one.read, down[c], answer)
      /\ down' = [down EXCEPT ![c] = down[c]] /\ up' \in [Clients -> Nat]
      /\ down[c] \in Seq(UnitRecords)
  BY <1>0, <1>1, <1>2, Records DEF ClientInv
<1> QED
  BY <1>1, <1>2, <1>3, <1>5, <1>6, <1>7, <1>8, StepFor

LEMMA WriteStep ==
  ASSUME ExchangeInv, NEW c \in Clients, WriteSome(c)
  PROVE  ExchangeInv'
<1>0. client[c] \in ClientRecords /\ up[c] \in Nat
  BY Records
<1>1. PICK n \in 1 .. Shorter(client[c].request.total - client[c].sent, Window - up[c]) :
        /\ up' = [up EXCEPT ![c] = @ + n]
        /\ client' = [client EXCEPT ![c].sent = @ + n,
                        ![c].pc = IF client[c].sent + n = client[c].request.total
                                  THEN "read" ELSE "write"]
  BY DEF WriteSome
<1>2. n \in Nat /\ client[c].sent + n \in Nat /\ up[c] + n \in Nat
  BY <1>0 DEF ClientRecords
<1> DEFINE pc == IF client[c].sent + n = client[c].request.total THEN "read" ELSE "write"
           one == [client[c] EXCEPT !.sent = @ + n, !.pc = pc]
<1>3. pc \in {"read", "write"}
  OBVIOUS
<1>4. client' = [client EXCEPT ![c] = one]
  BY <1>1 DEF ExchangeInv, ExchangeTypeOK
<1> HIDE DEF pc
<1>5. one \in ClientRecords
  BY <1>0, <1>2, <1>3 DEF ClientRecords
<1>6. one.read = client[c].read /\ one.request = client[c].request
      /\ one.pc \notin {"connect", "OK"}
  BY <1>0, <1>3 DEF ClientRecords
<1>7. up' \in [Clients -> Nat]
  BY <1>1, <1>2 DEF ExchangeInv, ExchangeTypeOK
<1> HIDE DEF one
<1> QED
  BY <1>4, <1>5, <1>6, <1>7, ClientMoves DEF WriteSome

(* The client ends without an answer. *)
LEMMA ClientEnds ==
  ASSUME ExchangeInv, NEW c \in Clients, NEW pc \in {"killed", "DISCONNECTED", "IO"},
         client' = [client EXCEPT ![c].pc = pc], UNCHANGED <<slot, up, down>>
  PROVE  ExchangeInv'
<1> DEFINE one == [client[c] EXCEPT !.pc = pc]
<1>1. client[c] \in ClientRecords /\ up \in [Clients -> Nat]
  BY Records
<1>2. client' = [client EXCEPT ![c] = one]
  BY DEF ExchangeInv, ExchangeTypeOK
<1>3. /\ one \in ClientRecords /\ one.read = client[c].read
      /\ one.request = client[c].request /\ one.pc \notin {"connect", "OK"}
  BY <1>1 DEF ClientRecords, Ends
<1> HIDE DEF one
<1> QED
  BY <1>1, <1>2, <1>3, ClientMoves

(***************************************************************************)
(* Reading moves the boundary between what has been read and the line      *)
(***************************************************************************)
LEMMA WantedOfAnswer ==
  ASSUME NEW read \in Seq(UnitRecords), NEW line \in Seq(UnitRecords),
         NEW answer \in Answers, Carried(read, line, answer)
  PROVE  /\ Wanted(read) = IF Len(read) < HeaderSize THEN HeaderSize - Len(read)
                           ELSE HeaderSize + answer.size - Len(read)
         /\ Wanted(read) \in Int
<1>1. answer.size \in Nat /\ HeaderSize \in Nat /\ HeaderSize > 0 /\ Len(read) \in Nat
  BY ExchangeAssumption DEF Answers
<1>2. CASE Len(read) < HeaderSize
  BY <1>1, <1>2 DEF Wanted
<1>3. CASE Len(read) >= HeaderSize
  <2>1. HeaderSize \in 1 .. Len(read)
    BY <1>1, <1>3
  <2>2. read[HeaderSize] = Unit(answer, HeaderSize)
    BY <2>1 DEF Carried
  <2>3. read[HeaderSize].size = answer.size
    BY <2>2 DEF Unit
  <2> QED
    BY <1>1, <1>3, <2>3 DEF Wanted
<1> QED
  BY <1>1, <1>2, <1>3

LEMMA ReadingCarries ==
  ASSUME NEW old \in Seq(UnitRecords), NEW line \in Seq(UnitRecords),
         NEW n \in 1 .. Len(line)
  PROVE  LET read == old \o SubSeq(line, 1, n)
             rest == SubSeq(line, n + 1, Len(line))
         IN  /\ read \in Seq(UnitRecords) /\ rest \in Seq(UnitRecords)
             /\ Len(read) + Len(rest) = Len(old) + Len(line)
             /\ \A a \in Answers : Carried(old, line, a) => Carried(read, rest, a)
<1> DEFINE part == SubSeq(line, 1, n)
           read == old \o part
           rest == SubSeq(line, n + 1, Len(line))
<1>1. Len(line) \in Nat /\ Len(old) \in Nat /\ n \in Nat /\ 1 <= n /\ n <= Len(line)
  OBVIOUS
<1>2. /\ part \in Seq(UnitRecords) /\ Len(part) = n
      /\ \A i \in 1 .. n : part[i] = line[i]
  <2>1. \A i \in 1 .. n : line[i] \in UnitRecords
    BY <1>1, ElementOfSeq
  <2> QED
    BY <1>1, <2>1, SubSeqProperties
<1> HIDE DEF part
<1>3. /\ read \in Seq(UnitRecords) /\ Len(read) = Len(old) + n
      /\ \A i \in 1 .. Len(old) + n :
           read[i] = IF i <= Len(old) THEN old[i] ELSE part[i - Len(old)]
  BY <1>2, ConcatProperties
<1>4. /\ rest \in Seq(UnitRecords) /\ Len(rest) = Len(line) - n
      /\ \A i \in 1 .. Len(line) - n : rest[i] = line[n + i]
  <2>1. \A i \in n + 1 .. Len(line) : line[i] \in UnitRecords
    BY <1>1, ElementOfSeq
  <2>2. /\ rest \in Seq(UnitRecords)
        /\ Len(rest) = IF n + 1 <= Len(line) THEN Len(line) - (n + 1) + 1 ELSE 0
        /\ \A i \in 1 .. Len(line) - (n + 1) + 1 : rest[i] = line[(n + 1) + i - 1]
    BY <1>1, <2>1, SubSeqProperties
  <2> HIDE DEF rest
  <2> QED
    BY <1>1, <2>2
<1> HIDE DEF read, rest
<1>5. ASSUME NEW a \in Answers, Carried(old, line, a)
      PROVE  Carried(read, rest, a)
  <2>1. Len(read) + Len(rest) <= HeaderSize + a.size
    <3>1. Len(old) + Len(line) <= HeaderSize + a.size
      BY <1>5 DEF Carried
    <3> QED
      BY <1>1, <1>3, <1>4, <3>1
  <2>2. ASSUME NEW i \in 1 .. Len(read) PROVE read[i] = Unit(a, i)
    <3>1. CASE i <= Len(old)
      <4>1. i \in 1 .. Len(old) /\ i \in 1 .. Len(old) + n
        BY <1>1, <1>3, <3>1
      <4>2. old[i] = Unit(a, i)
        BY <1>5, <4>1 DEF Carried
      <4> QED
        BY <1>3, <3>1, <4>1, <4>2
    <3>2. CASE ~(i <= Len(old))
      <4>1. i - Len(old) \in 1 .. Len(line) /\ i - Len(old) \in 1 .. n
            /\ i \in 1 .. Len(old) + n /\ Len(old) + (i - Len(old)) = i
        BY <1>1, <1>3, <3>2
      <4>2. line[i - Len(old)] = Unit(a, Len(old) + (i - Len(old)))
        BY <1>5, <4>1 DEF Carried
      <4> QED
        BY <1>2, <1>3, <3>2, <4>1, <4>2
    <3> QED
      BY <3>1, <3>2
  <2>3. ASSUME NEW i \in 1 .. Len(rest) PROVE rest[i] = Unit(a, Len(read) + i)
    <3>1. /\ n + i \in 1 .. Len(line) /\ Len(old) + (n + i) = Len(read) + i
          /\ i \in 1 .. Len(line) - n
      BY <1>1, <1>3, <1>4
    <3>2. line[n + i] = Unit(a, Len(old) + (n + i))
      BY <1>5, <3>1 DEF Carried
    <3> QED
      BY <1>4, <3>1, <3>2
  <2> QED
    BY <2>1, <2>2, <2>3 DEF Carried
<1>6. Len(read) + Len(rest) = Len(old) + Len(line)
  BY <1>1, <1>3, <1>4
<1> QED
  BY <1>3, <1>4, <1>5, <1>6 DEF read, rest, part

LEMMA ReadStep ==
  ASSUME ExchangeInv, NEW c \in Clients, ReadSome(c)
  PROVE  ExchangeInv'
<1>0. /\ client[c] \in ClientRecords /\ slot[c] \in SlotRecords
      /\ client[c].read \in Seq(UnitRecords) /\ down[c] \in Seq(UnitRecords)
      /\ ClientInv(c)
  BY Records
<1>1. PICK n \in 1 .. Shorter(Wanted(client[c].read), Len(down[c])) :
        LET read == client[c].read \o SubSeq(down[c], 1, n)
        IN  /\ client' = [client EXCEPT ![c].read = read,
                            ![c].pc = IF Wanted(read) = 0 THEN "OK" ELSE "read"]
            /\ down' = [down EXCEPT ![c] = SubSeq(@, n + 1, Len(@))]
  BY DEF ReadSome
<1> DEFINE read == client[c].read \o SubSeq(down[c], 1, n)
           rest == SubSeq(down[c], n + 1, Len(down[c]))
           pc == IF Wanted(read) = 0 THEN "OK" ELSE "read"
           one == [client[c] EXCEPT !.read = read, !.pc = pc]
<1>2. PICK answer \in Answers : Carried(client[c].read, down[c], answer)
  BY <1>0 DEF ClientInv
<1>3. n \in 1 .. Len(down[c])
  <2>1. Wanted(client[c].read) \in Int
    BY <1>0, <1>2, WantedOfAnswer
  <2>2. Len(down[c]) \in Nat
    BY <1>0
  <2> QED
    BY <2>1, <2>2 DEF Shorter
<1>4. /\ read \in Seq(UnitRecords) /\ rest \in Seq(UnitRecords)
      /\ Len(read) + Len(rest) = Len(client[c].read) + Len(down[c])
      /\ \A a \in Answers : Carried(client[c].read, down[c], a) => Carried(read, rest, a)
  BY <1>0, <1>3, ReadingCarries
<1>5. /\ client' = [client EXCEPT ![c] = one] /\ down' = [down EXCEPT ![c] = rest]
      /\ UNCHANGED <<slot, up>>
  BY <1>1 DEF ReadSome, ExchangeInv, ExchangeTypeOK
<1>6. pc \in {"OK", "read"} /\ (pc = "OK" => Wanted(read) = 0)
  OBVIOUS
<1> HIDE DEF read, rest, pc
<1>7. one \in ClientRecords /\ one.read = read /\ one.request = client[c].request
      /\ one.pc = pc
  BY <1>0, <1>4, <1>6 DEF ClientRecords, Ends
<1> HIDE DEF one
<1>8. Ended(one)
  <2>1. Wanted(read) = 0 => Len(read) >= HeaderSize
    BY <1>4, ExchangeAssumption DEF Wanted
  <2> QED
    BY <1>6, <1>7, <2>1 DEF Ended
<1>9. Continues(slot[c], one.read, rest)
  <2>1. slot[c].output \in Answers \union {NoAnswer}
    BY <1>0 DEF SlotRecords
  <2>2. ~(slot[c].state # "closed" /\ slot[c].output = NoAnswer)
    BY <1>0 DEF ClientInv, Continues, ReadSome
  <2>3. slot[c].output # NoAnswer =>
          /\ slot[c].state = "open" /\ Carried(read, rest, slot[c].output)
          /\ slot[c].offset = Len(read) + Len(rest)
    BY <1>0, <1>4, <2>1 DEF ClientInv, Continues
  <2> QED
    BY <1>7, <2>2, <2>3 DEF Continues
<1>10. \E a \in Answers : Carried(one.read, rest, a)
  BY <1>2, <1>4, <1>7
<1>11. AnsweredOnce(slot[c], one.request.declared)
  BY <1>0, <1>7 DEF ClientInv
<1>12. /\ slot' = [slot EXCEPT ![c] = slot[c]] /\ up' \in [Clients -> Nat]
       /\ one.pc # "connect"
  BY <1>5, <1>6, <1>7, Records
<1> QED
  BY <1>0, <1>4, <1>5, <1>7, <1>8, <1>9, <1>10, <1>11, <1>12, StepFor

(***************************************************************************)
(* The daemon                                                              *)
(***************************************************************************)
(* A step of the daemon that leaves the client and the line alone. *)
LEMMA SlotMoves ==
  ASSUME ExchangeInv, NEW c \in Clients, NEW s \in SlotRecords,
         slot' = [slot EXCEPT ![c] = s], UNCHANGED <<client, down>>,
         up' \in [Clients -> Nat], slot[c].state # "none",
         Continues(s, client[c].read, down[c]),
         AnsweredOnce(s, client[c].request.declared)
  PROVE  ExchangeInv'
<1>1. /\ client[c] \in ClientRecords /\ down[c] \in Seq(UnitRecords) /\ ClientInv(c)
      /\ client' = [client EXCEPT ![c] = client[c]]
      /\ down' = [down EXCEPT ![c] = down[c]]
  BY Records
<1>2. /\ \E answer \in Answers : Carried(client[c].read, down[c], answer)
      /\ Ended(client[c]) /\ client[c].pc # "connect"
  BY <1>1 DEF ClientInv
<1> QED
  BY <1>1, <1>2, StepFor

LEMMA AcceptStep ==
  ASSUME ExchangeInv, NEW c \in Clients, Accept(c)
  PROVE  ExchangeInv'
<1> DEFINE state == IF Cardinality(Open) < MaxClients THEN "open" ELSE "closed"
           s == [slot[c] EXCEPT !.state = state]
<1>0. /\ slot[c] \in SlotRecords /\ slot[c].state = "pending" /\ ClientInv(c)
      /\ UNCHANGED <<client, up, down>> /\ up' \in [Clients -> Nat]
  BY Records DEF Accept
<1>1. state \in {"open", "closed"}
  OBVIOUS
<1>2. slot' = [slot EXCEPT ![c] = s]
  BY DEF Accept, ExchangeInv, ExchangeTypeOK
<1> HIDE DEF state
<1>3. /\ s \in SlotRecords /\ s.state = state /\ s.output = slot[c].output
      /\ s.input = slot[c].input /\ s.expected = slot[c].expected
      /\ s.asked = slot[c].asked /\ s.offset = slot[c].offset
  BY <1>0, <1>1 DEF SlotRecords
<1> HIDE DEF s
<1>4. slot[c].input = 0 /\ slot[c].output = NoAnswer
  BY <1>0 DEF ClientInv, AnsweredOnce
<1>5. Continues(s, client[c].read, down[c])
  BY <1>0, <1>1, <1>3, <1>4 DEF ClientInv, Continues
<1>6. AnsweredOnce(s, client[c].request.declared)
  BY <1>0, <1>1, <1>3, <1>4 DEF ClientInv, AnsweredOnce
<1> QED
  BY <1>0, <1>2, <1>3, <1>5, <1>6, SlotMoves

LEMMA CloseStep ==
  ASSUME ExchangeInv, NEW c \in Clients, slot[c].state = "open", CloseClient(c),
         UNCHANGED <<client, up, down>>
  PROVE  ExchangeInv'
<1> DEFINE closed == [NoSlot EXCEPT !.state = "closed"]
<1>1. /\ closed \in SlotRecords /\ Continues(closed, client[c].read, down[c])
      /\ AnsweredOnce(closed, client[c].request.declared)
  BY ClosedSlot
<1>2. slot' = [slot EXCEPT ![c] = closed] /\ up' \in [Clients -> Nat]
  BY Records DEF CloseClient
<1> HIDE DEF closed
<1> QED
  BY <1>1, <1>2, SlotMoves

(* A slot of which nothing has been written may have an answer queued. *)
LEMMA QueueStep ==
  ASSUME ExchangeInv, NEW c \in Clients, NEW s \in SlotRecords,
         NEW size \in 0 .. MaxPayload,
         slot' = [slot EXCEPT ![c] = Queued(s, size)],
         UNCHANGED <<client, down>>, up' \in [Clients -> Nat],
         slot[c].state = "open", s.state = "open",
         client[c].read = <<>>, down[c] = <<>>,
         s.expected # 0 => /\ s.expected = HeaderSize + client[c].request.declared
                           /\ s.input >= s.expected,
         s.expected = 0 => /\ s.input >= HeaderSize /\ size = 0
                           /\ client[c].request.declared > MaxPayload
  PROVE  ExchangeInv'
<1> DEFINE q == Queued(s, size)
<1>1. /\ q \in SlotRecords /\ q.state = s.state
      /\ q.input = s.input /\ q.expected = s.expected
      /\ q.asked = FALSE /\ q.offset = 0
      /\ q.output \in Answers /\ q.output # NoAnswer /\ q.output.size = size
  BY QueuedSlot
<1> HIDE DEF q
<1>2. Continues(q, client[c].read, down[c])
  <2>1. q.output.size \in Nat
    BY <1>1, ExchangeAssumption
  <2> QED
    BY <1>1, <2>1, QueuedContinues
<1>3. AnsweredOnce(q, client[c].request.declared)
  BY <1>1 DEF AnsweredOnce
<1>4. slot' = [slot EXCEPT ![c] = q]
  BY DEF q
<1> QED
  BY <1>1, <1>2, <1>3, <1>4, SlotMoves

LEMMA ReplyStep ==
  ASSUME ExchangeInv, NEW c \in Clients, Reply(c)
  PROVE  ExchangeInv'
<1>0. /\ slot[c] \in SlotRecords /\ slot[c].state = "open" /\ slot[c].asked /\ ClientInv(c)
      /\ UNCHANGED <<client, up, down>> /\ up' \in [Clients -> Nat]
  BY Records DEF Reply
<1>1. PICK size \in AnswerSizes : slot' = [slot EXCEPT ![c] = Queued(slot[c], size)]
  BY DEF Reply, ExchangeInv, ExchangeTypeOK
<1>2. size \in 0 .. MaxPayload
  BY ExchangeAssumption
<1>3. /\ slot[c].output = NoAnswer /\ slot[c].expected # 0
      /\ slot[c].input >= slot[c].expected
      /\ slot[c].expected = HeaderSize + client[c].request.declared
  BY <1>0 DEF ClientInv, AnsweredOnce
<1>4. client[c].read = <<>> /\ down[c] = <<>>
  BY <1>0, <1>3 DEF ClientInv, Continues
<1> QED
  BY <1>0, <1>1, <1>2, <1>3, <1>4, QueueStep

LEMMA ShorterBounds ==
  ASSUME NEW a \in Nat, NEW b \in Int, Shorter(a, b) > 0
  PROVE  /\ Shorter(a, b) \in Nat /\ Shorter(a, b) <= a /\ Shorter(a, b) <= b
         /\ a - Shorter(a, b) \in Nat
  BY DEF Shorter

LEMMA NothingWritten ==
  ASSUME NEW p \in Seq(UnitRecords), NEW q \in Seq(UnitRecords), Len(p) + Len(q) = 0
  PROVE  p = <<>> /\ q = <<>>
<1>1. Len(p) \in Nat /\ Len(q) \in Nat
  OBVIOUS
<1>2. Len(p) = 0 /\ Len(q) = 0
  BY <1>1
<1>3. (p # <<>> => Len(p) \in Nat \ {0}) /\ (q # <<>> => Len(q) \in Nat \ {0})
  BY EmptySeq
<1> QED
  BY <1>2, <1>3

(* What a read of n units makes of an open slot. *)
LEMMA FilledSlot ==
  ASSUME ExchangeInv, NEW c \in Clients, NEW n \in Nat, slot[c].state = "open"
  PROVE  LET f == Filled(c, n)
         IN  /\ f \in SlotRecords /\ f.state = "open" /\ f.input = slot[c].input + n
             /\ f.expected =
                  IF /\ slot[c].input + n >= HeaderSize /\ slot[c].expected = 0
                     /\ client[c].request.declared <= MaxPayload
                  THEN HeaderSize + client[c].request.declared ELSE slot[c].expected
             /\ f.asked = slot[c].asked /\ f.output = slot[c].output
             /\ f.offset = slot[c].offset
<1> DEFINE s == slot[c]
           expected == IF /\ s.input + n >= HeaderSize /\ s.expected = 0
                          /\ client[c].request.declared <= MaxPayload
                       THEN HeaderSize + client[c].request.declared ELSE s.expected
           f == [s EXCEPT !.input = s.input + n, !.expected = expected]
<1>1. s \in SlotRecords /\ client[c].request.declared \in Nat
  BY Records
<1>2. s.input + n \in Nat /\ expected \in Nat
  BY <1>1, ExchangeAssumption DEF SlotRecords
<1>3. Filled(c, n) = f
  BY <1>1 DEF Filled, SlotRecords
<1> HIDE DEF expected
<1>4. /\ f \in SlotRecords /\ f.state = s.state /\ f.input = s.input + n
      /\ f.expected = expected /\ f.asked = s.asked /\ f.output = s.output
      /\ f.offset = s.offset
  BY <1>1, <1>2 DEF SlotRecords
<1> HIDE DEF f
<1> QED
  BY <1>3, <1>4 DEF expected

(* A request that has just become complete has not been answered, and one  *)
(* that is refused again has had nothing of the refusal written.           *)
LEMMA InputStep ==
  ASSUME ExchangeInv, NEW c \in Clients, HandleInput(c)
  PROVE  ExchangeInv'
<1> DEFINE n == Shorter(up[c], HeaderSize + MaxPayload - slot[c].input)
           f == Filled(c, n)
           declared == client[c].request.declared
<1>0. /\ slot[c] \in SlotRecords /\ slot[c].state = "open" /\ ClientInv(c)
      /\ declared \in Nat /\ up[c] \in Nat /\ up \in [Clients -> Nat]
      /\ UNCHANGED <<client, down>> /\ n > 0 /\ up' = [up EXCEPT ![c] = @ - n]
      /\ client[c].read \in Seq(UnitRecords) /\ down[c] \in Seq(UnitRecords)
  BY Records DEF HandleInput
<1>1. /\ slot[c].input \in Nat /\ slot[c].expected \in Nat /\ slot[c].offset \in Nat
      /\ slot[c].asked \in BOOLEAN
  BY <1>0 DEF SlotRecords
<1>2. n \in Nat /\ n <= up[c] /\ up[c] - n \in Nat
  <2>1. HeaderSize + MaxPayload - slot[c].input \in Int
    BY <1>1, ExchangeAssumption
  <2> QED
    BY <1>0, <2>1, ShorterBounds
<1>3. up' \in [Clients -> Nat]
  BY <1>0, <1>2
<1>4. \/ /\ f.input >= HeaderSize /\ f.expected = 0
         /\ slot' = [slot EXCEPT ![c] = Queued(f, 0)]
      \/ /\ f.expected # 0 /\ f.input = f.expected
         /\ \/ slot' = [slot EXCEPT ![c] = [f EXCEPT !.asked = TRUE]]
            \/ \E size \in AnswerSizes : slot' = [slot EXCEPT ![c] = Queued(f, size)]
      \/ /\ IF f.expected = 0 THEN f.input < HeaderSize ELSE f.input # f.expected
         /\ slot' = [slot EXCEPT ![c] = f]
  BY DEF HandleInput
<1> HIDE DEF n
<1>5. /\ f \in SlotRecords /\ f.state = "open" /\ f.input = slot[c].input + n
      /\ f.expected = IF slot[c].input + n >= HeaderSize /\ slot[c].expected = 0
                         /\ declared <= MaxPayload
                      THEN HeaderSize + declared ELSE slot[c].expected
      /\ f.asked = slot[c].asked /\ f.output = slot[c].output /\ f.offset = slot[c].offset
  BY <1>0, <1>2, FilledSlot
<1> HIDE DEF f, declared
<1>6. /\ AnsweredOnce(slot[c], declared)
      /\ Continues(slot[c], client[c].read, down[c])
  BY <1>0 DEF ClientInv, declared
<1>7. CASE /\ f.input >= HeaderSize /\ f.expected = 0
           /\ slot' = [slot EXCEPT ![c] = Queued(f, 0)]
  <2>1. slot[c].expected = 0 /\ declared > MaxPayload
    BY <1>0, <1>1, <1>2, <1>5, <1>7, ExchangeAssumption
  <2>2. slot[c].offset = 0
    BY <1>0, <1>6, <2>1 DEF AnsweredOnce, Continues
  <2>3. client[c].read = <<>> /\ down[c] = <<>>
    <3>1. CASE slot[c].output = NoAnswer
      BY <1>0, <1>6, <3>1 DEF Continues
    <3>2. CASE slot[c].output # NoAnswer
      <4>1. Len(client[c].read) + Len(down[c]) = 0
        BY <1>6, <2>2, <3>2 DEF Continues
      <4> QED
        BY <1>0, <4>1, NothingWritten
    <3> QED
      BY <3>1, <3>2
  <2>4. 0 \in 0 .. MaxPayload
    BY ExchangeAssumption
  <2> QED
    BY <1>0, <1>3, <1>5, <1>7, <2>1, <2>3, <2>4, QueueStep DEF declared
<1>8. CASE f.expected # 0 /\ f.input = f.expected
  <2>1. f.expected = HeaderSize + declared /\ f.input >= f.expected
    BY <1>0, <1>1, <1>2, <1>5, <1>6, <1>8, ExchangeAssumption DEF AnsweredOnce
  <2>2. slot[c].output = NoAnswer
    BY <1>0, <1>1, <1>2, <1>5, <1>6, <1>8, ExchangeAssumption DEF AnsweredOnce
  <2>3. client[c].read = <<>> /\ down[c] = <<>> /\ slot[c].offset = 0
    BY <1>0, <1>6, <2>2 DEF Continues
  <2>4. CASE slot' = [slot EXCEPT ![c] = [f EXCEPT !.asked = TRUE]]
    <3> DEFINE a == [f EXCEPT !.asked = TRUE]
    <3>1. /\ a \in SlotRecords /\ a.state = "open" /\ a.input = f.input
          /\ a.expected = f.expected /\ a.asked = TRUE /\ a.output = f.output
          /\ a.offset = f.offset
      BY <1>5 DEF SlotRecords
    <3>2. slot' = [slot EXCEPT ![c] = a]
      BY <2>4
    <3> HIDE DEF a
    <3>3. Continues(a, client[c].read, down[c])
      BY <1>5, <2>2, <2>3, <3>1 DEF Continues
    <3>4. AnsweredOnce(a, client[c].request.declared)
      BY <1>5, <1>8, <2>1, <2>2, <3>1 DEF AnsweredOnce, declared
    <3> QED
      BY <1>0, <1>3, <3>1, <3>2, <3>3, <3>4, SlotMoves
  <2>5. CASE \E size \in AnswerSizes : slot' = [slot EXCEPT ![c] = Queued(f, size)]
    <3>1. PICK size \in AnswerSizes : slot' = [slot EXCEPT ![c] = Queued(f, size)]
      BY <2>5
    <3>2. size \in 0 .. MaxPayload
      BY ExchangeAssumption
    <3> QED
      BY <1>0, <1>3, <1>5, <1>8, <2>1, <2>3, <3>1, <3>2, QueueStep DEF declared
  <2> QED
    BY <1>4, <1>8, <2>4, <2>5
<1>9. CASE /\ IF f.expected = 0 THEN f.input < HeaderSize ELSE f.input # f.expected
           /\ slot' = [slot EXCEPT ![c] = f]
  <2>1. Continues(f, client[c].read, down[c])
    BY <1>0, <1>5, <1>6 DEF Continues
  <2>2. f.expected # 0 => f.expected = HeaderSize + declared
    BY <1>5, <1>6 DEF AnsweredOnce
  <2>3. f.output # NoAnswer \/ f.asked => f.expected = slot[c].expected
    BY <1>1, <1>5, <1>6, <1>0, ExchangeAssumption DEF AnsweredOnce
  <2>4. f.input \in Nat /\ f.input >= slot[c].input /\ HeaderSize \in Nat /\ HeaderSize > 0
    BY <1>1, <1>2, <1>5, ExchangeAssumption
  <2>5. AnsweredOnce(f, declared)
    <3>1. f.asked => f.output = NoAnswer /\ f.expected # 0 /\ f.input >= f.expected
      BY <1>1, <1>5, <1>6, <2>3, <2>4 DEF AnsweredOnce
    <3>2. f.output # NoAnswer =>
            /\ ~f.asked
            /\ f.expected = 0 => f.input >= HeaderSize /\ f.output.size = 0 /\ f.offset = 0
            /\ f.expected # 0 => f.input >= f.expected
      BY <1>1, <1>5, <1>6, <2>3, <2>4 DEF AnsweredOnce
    <3>3. ~(f.expected = 0 /\ f.input >= HeaderSize)
      BY <1>9, <2>4
    <3> QED
      BY <1>5, <2>2, <3>1, <3>2, <3>3 DEF AnsweredOnce
  <2> QED
    BY <1>0, <1>3, <1>5, <1>9, <2>1, <2>5, SlotMoves DEF declared
<1> QED
  BY <1>4, <1>7, <1>8, <1>9

(* What is written next follows what has been written. *)
LEMMA WritingCarries ==
  ASSUME NEW read \in Seq(UnitRecords), NEW line \in Seq(UnitRecords),
         NEW answer \in Answers, Carried(read, line, answer),
         NEW n \in Nat, n > 0,
         Len(read) + Len(line) + n <= HeaderSize + answer.size
  PROVE  LET offset == Len(read) + Len(line)
             longer == line \o SubSeq(Units(answer), offset + 1, offset + n)
         IN  /\ longer \in Seq(UnitRecords) /\ Len(longer) = Len(line) + n
             /\ Carried(read, longer, answer)
<1> DEFINE offset == Len(read) + Len(line)
           all == Units(answer)
           part == SubSeq(all, offset + 1, offset + n)
           longer == line \o part
<1>1. /\ Len(read) \in Nat /\ Len(line) \in Nat /\ HeaderSize \in Nat
      /\ answer.size \in Nat /\ answer.number \in Nat /\ HeaderSize + answer.size \in Nat
  BY ExchangeAssumption DEF Answers
<1>2. \A i \in Nat : Unit(answer, i) \in UnitRecords
  BY <1>1 DEF Unit, UnitRecords
<1>3. /\ all \in Seq(UnitRecords) /\ Len(all) = HeaderSize + answer.size
      /\ \A i \in 1 .. HeaderSize + answer.size : all[i] = Unit(answer, i)
  <2>1. all \in [1 .. HeaderSize + answer.size -> UnitRecords]
    BY <1>1, <1>2 DEF Units
  <2>2. all \in Seq(UnitRecords)
    BY <1>1, <2>1, SeqDef
  <2>3. Len(all) = HeaderSize + answer.size
    BY <1>1, <2>1, <2>2, LenProperties
  <2> QED
    BY <2>2, <2>3 DEF Units
<1> HIDE DEF all
<1>4. /\ part \in Seq(UnitRecords) /\ Len(part) = n
      /\ \A i \in 1 .. n : part[i] = all[offset + i]
  <2>1. \A i \in offset + 1 .. offset + n : all[i] \in UnitRecords
    BY <1>1, <1>3, ElementOfSeq
  <2>2. offset \in Nat /\ offset + n <= Len(all)
    BY <1>1, <1>3
  <2> HIDE DEF offset
  <2>3. /\ part \in Seq(UnitRecords)
        /\ Len(part) = IF offset + 1 <= offset + n THEN (offset + n) - (offset + 1) + 1 ELSE 0
        /\ \A i \in 1 .. (offset + n) - (offset + 1) + 1 : part[i] = all[(offset + 1) + i - 1]
    BY <1>3, <2>1, <2>2, SubSeqProperties
  <2> HIDE DEF part
  <2> QED
    BY <2>2, <2>3
<1> HIDE DEF part
<1>5. /\ longer \in Seq(UnitRecords) /\ Len(longer) = Len(line) + n
      /\ \A i \in 1 .. Len(line) + n :
           longer[i] = IF i <= Len(line) THEN line[i] ELSE part[i - Len(line)]
  BY <1>4, ConcatProperties
<1> HIDE DEF longer
<1>6. ASSUME NEW i \in 1 .. Len(longer) PROVE longer[i] = Unit(answer, Len(read) + i)
  <2>1. CASE i <= Len(line)
    <3>1. i \in 1 .. Len(line) /\ i \in 1 .. Len(line) + n
      BY <1>1, <1>5, <2>1
    <3>2. line[i] = Unit(answer, Len(read) + i)
      BY <3>1 DEF Carried
    <3> QED
      BY <1>5, <2>1, <3>1, <3>2
  <2>2. CASE ~(i <= Len(line))
    <3>1. /\ i - Len(line) \in 1 .. n /\ i \in 1 .. Len(line) + n
          /\ offset + (i - Len(line)) \in 1 .. HeaderSize + answer.size
          /\ offset + (i - Len(line)) = Len(read) + i
      BY <1>1, <1>5, <2>2
    <3>2. all[offset + (i - Len(line))] = Unit(answer, offset + (i - Len(line)))
      BY <1>3, <3>1
    <3> HIDE DEF offset
    <3> QED
      BY <1>4, <1>5, <2>2, <3>1, <3>2
  <2> QED
    BY <2>1, <2>2
<1>7. Len(read) + Len(longer) <= HeaderSize + answer.size
  BY <1>1, <1>5
<1>8. Carried(read, longer, answer)
  BY <1>6, <1>7 DEF Carried
<1> QED
  BY <1>5, <1>8 DEF longer, part, all

LEMMA OutputStep ==
  ASSUME ExchangeInv, NEW c \in Clients, HandleOutput(c)
  PROVE  ExchangeInv'
<1> DEFINE n == Writable(c)
           s == slot[c]
           read == client[c].read
           line == down[c]
           longer == line \o SubSeq(Units(s.output), s.offset + 1, s.offset + n)
<1>0. /\ s \in SlotRecords /\ s.state = "open" /\ ClientInv(c) /\ n > 0
      /\ read \in Seq(UnitRecords) /\ line \in Seq(UnitRecords)
      /\ client[c] \in ClientRecords
      /\ client' = [client EXCEPT ![c] = client[c]] /\ up' \in [Clients -> Nat]
  BY Records DEF HandleOutput
<1>1. /\ down' = [down EXCEPT ![c] = longer]
      /\ IF n = Unwritten(s) THEN CloseClient(c)
         ELSE slot' = [slot EXCEPT ![c].offset = @ + n]
  BY DEF HandleOutput, ExchangeInv, ExchangeTypeOK
<1>2. Len(read) \in Nat /\ Len(line) \in Nat /\ s.offset \in Nat
      /\ s.output \in Answers \union {NoAnswer}
  BY <1>0 DEF SlotRecords
<1> HIDE DEF read, line, s
<1>3. /\ Continues(s, read, line) /\ AnsweredOnce(s, client[c].request.declared)
      /\ client[c].pc # "connect" /\ Ended(client[c])
  BY <1>0 DEF ClientInv, s, read, line
<1>4. s.output # NoAnswer
  <2> SUFFICES ASSUME s.output = NoAnswer PROVE FALSE
    OBVIOUS
  <2>1. n = Shorter(0, Window - Len(line))
    BY DEF Writable, Unwritten, s, line
  <2> QED
    BY <1>0, <1>2, <2>1, ExchangeAssumption DEF Shorter
<1>5. /\ s.output \in Answers /\ s.output.size \in Nat
      /\ Carried(read, line, s.output) /\ s.offset = Len(read) + Len(line)
  <2>1. s.output \in Answers
    BY <1>2, <1>4
  <2> QED
    BY <1>3, <1>4, <2>1 DEF Continues, Answers
<1>6. /\ Unwritten(s) = HeaderSize + s.output.size - s.offset /\ Unwritten(s) \in Nat
      /\ n = Shorter(Unwritten(s), Window - Len(line))
  <2>1. /\ Unwritten(s) = HeaderSize + s.output.size - s.offset
        /\ n = Shorter(Unwritten(s), Window - Len(line))
    BY <1>4 DEF Unwritten, Writable, s, line
  <2>2. Len(read) + Len(line) <= HeaderSize + s.output.size
    BY <1>5 DEF Carried
  <2> QED
    BY <1>2, <1>5, <2>1, <2>2, ExchangeAssumption
<1> HIDE DEF n
<1>7. n \in Nat /\ n <= Unwritten(s)
  <2>1. Window - Len(line) \in Int
    BY <1>2, ExchangeAssumption
  <2> QED
    BY <1>0, <1>6, <2>1, ShorterBounds
<1>8. Len(read) + Len(line) + n <= HeaderSize + s.output.size
  BY <1>2, <1>5, <1>6, <1>7, ExchangeAssumption
<1>9. /\ longer \in Seq(UnitRecords) /\ Len(longer) = Len(line) + n
      /\ Carried(read, longer, s.output)
  BY <1>0, <1>5, <1>7, <1>8, WritingCarries
<1> HIDE DEF longer
<1>10. \E answer \in Answers : Carried(client[c].read, longer, answer)
  BY <1>5, <1>9 DEF read
<1>11. CASE n = Unwritten(s)
  <2> DEFINE closed == [NoSlot EXCEPT !.state = "closed"]
  <2>1. /\ closed \in SlotRecords /\ Continues(closed, client[c].read, longer)
        /\ AnsweredOnce(closed, client[c].request.declared)
    BY ClosedSlot
  <2>2. slot' = [slot EXCEPT ![c] = closed]
    BY <1>1, <1>11 DEF CloseClient
  <2> HIDE DEF closed
  <2> QED
    BY <1>0, <1>1, <1>3, <1>9, <1>10, <2>1, <2>2, StepFor
<1>12. CASE n # Unwritten(s)
  <2> DEFINE t == [s EXCEPT !.offset = @ + n]
  <2>1. slot' = [slot EXCEPT ![c] = t]
    BY <1>1, <1>12 DEF ExchangeInv, ExchangeTypeOK, s
  <2>2. s.offset + n \in Nat
    BY <1>2, <1>7
  <2>3. /\ t \in SlotRecords /\ t.state = s.state /\ t.input = s.input
        /\ t.expected = s.expected /\ t.asked = s.asked /\ t.output = s.output
        /\ t.offset = s.offset + n
    BY <1>0, <2>2 DEF SlotRecords
  <2> HIDE DEF t
  <2>4. t.offset = Len(read) + Len(longer)
    BY <1>2, <1>5, <1>7, <1>9, <2>3
  <2>5. Continues(t, client[c].read, longer)
    BY <1>0, <1>4, <1>9, <2>3, <2>4 DEF Continues, read
  <2>6. s.expected # 0
    <3> SUFFICES ASSUME s.expected = 0 PROVE FALSE
      OBVIOUS
    <3>1. s.output.size = 0 /\ s.offset = 0
      BY <1>3, <1>4 DEF AnsweredOnce
    <3>2. Len(line) = 0 /\ Unwritten(s) = HeaderSize
      BY <1>2, <1>5, <1>6, <3>1, ExchangeAssumption
    <3> QED
      BY <1>6, <1>12, <3>2, ExchangeAssumption DEF Shorter
  <2>7. AnsweredOnce(t, client[c].request.declared)
    BY <1>0, <1>3, <2>3, <2>6 DEF AnsweredOnce
  <2> QED
    BY <1>0, <1>1, <1>3, <1>9, <1>10, <2>1, <2>3, <2>5, <2>7, StepFor
<1> QED
  BY <1>11, <1>12

(* The death of the daemon closes every connection and touches no line. *)
LEMMA KilledStep ==
  ASSUME ExchangeInv, NEW c \in Clients, WriteToGone(c)
  PROVE  ExchangeInv'
<1> DEFINE closed == [NoSlot EXCEPT !.state = "closed"]
<1>1. /\ slot' = [d \in Clients |-> IF slot[d].state \in {"open", "pending"}
                                   THEN closed ELSE slot[d]]
      /\ UNCHANGED <<client, up, down>>
  BY DEF WriteToGone
<1>2. /\ closed \in SlotRecords
      /\ \A read, line : Continues(closed, read, line)
      /\ \A declared : AnsweredOnce(closed, declared)
  BY ClosedSlot
<1> HIDE DEF closed
<1>3. ExchangeTypeOK'
  BY <1>1, <1>2 DEF ExchangeInv, ExchangeTypeOK
<1>4. ASSUME NEW d \in Clients PROVE ClientInv(d)'
  <2>1. ClientInv(d)
    BY DEF ExchangeInv
  <2>2. client'[d] = client[d] /\ down'[d] = down[d]
    BY <1>1
  <2>3. CASE slot[d].state \in {"open", "pending"}
    <3>1. slot'[d] = closed
      BY <1>1, <2>3
    <3>2. client[d].pc # "connect"
      BY <2>1, <2>3 DEF ClientInv
    <3> QED
      BY <1>2, <2>1, <2>2, <3>1, <3>2 DEF ClientInv
  <2>4. CASE slot[d].state \notin {"open", "pending"}
    <3>1. slot'[d] = slot[d]
      BY <1>1, <2>4
    <3> QED
      BY <2>1, <2>2, <3>1 DEF ClientInv
  <2> QED
    BY <2>3, <2>4
<1> QED
  BY <1>3, <1>4 DEF ExchangeInv

(***************************************************************************)
(* The invariant                                                           *)
(***************************************************************************)
LEMMA InitExchange == Init => ExchangeInv
<1> SUFFICES ASSUME Init PROVE ExchangeInv
  OBVIOUS
<1>1. NoSlot \in SlotRecords /\ NoSlot.state = "none" /\ NoSlot.input = 0
      /\ NoSlot.expected = 0 /\ NoSlot.asked = FALSE /\ NoSlot.output = NoAnswer
      /\ NoSlot.offset = 0
  BY DEF NoSlot, SlotRecords
<1>2. <<>> \in Seq(UnitRecords) /\ 0 \in Nat
  BY EmptySeq
<1>3. ASSUME NEW c \in Clients
      PROVE  /\ client[c] \in ClientRecords /\ client[c].read = <<>>
             /\ client[c].pc = "connect" /\ slot[c] = NoSlot /\ down[c] = <<>>
  <2>1. client[c] \in [pc : {"connect"}, request : Requests, sent : {0}, read : {<<>>}]
    BY DEF Init
  <2> QED
    BY <1>2, <2>1 DEF Init, ClientRecords
<1>4. ExchangeTypeOK
  <2>1. client \in [Clients -> ClientRecords]
    BY <1>3 DEF Init
  <2> QED
    BY <1>1, <1>2, <2>1 DEF Init, ExchangeTypeOK
<1>5. ASSUME NEW c \in Clients PROVE ClientInv(c)
  <2>1. \E answer \in Answers : Carried(<<>>, <<>>, answer)
    <3>1. [size |-> 0, number |-> 0] \in Answers /\ [size |-> 0, number |-> 0].size \in Nat
      BY DEF Answers
    <3> QED
      BY <3>1, NothingCarried
  <2>2. Continues(NoSlot, <<>>, <<>>)
    BY <1>1 DEF Continues
  <2>3. AnsweredOnce(NoSlot, client[c].request.declared)
    BY <1>1, ExchangeAssumption DEF AnsweredOnce
  <2>4. Ended(client[c])
    BY <1>3 DEF Ended
  <2> QED
    BY <1>1, <1>3, <2>1, <2>2, <2>3, <2>4 DEF ClientInv
<1> QED
  BY <1>4, <1>5 DEF ExchangeInv

LEMMA NextExchange == ExchangeInv /\ [Next]_vars => ExchangeInv'
<1> SUFFICES ASSUME ExchangeInv, [Next]_vars PROVE ExchangeInv'
  OBVIOUS
<1>1. CASE Next
  <2>1. PICK c \in Clients : Devctl(c) \/ GiveUp(c) \/ Serve(c) \/ WriteToGone(c)
    BY <1>1 DEF Next
  <2>2. CASE Connect(c)
    BY <2>2, ConnectStep
  <2>3. CASE WriteSome(c)
    BY <2>3, WriteStep
  <2>4. CASE WriteToClosed(c)
    BY <2>4, ClientEnds DEF WriteToClosed
  <2>5. CASE ReadSome(c)
    BY <2>5, ReadStep
  <2>6. CASE ReadEnd(c)
    BY <2>6, ClientEnds DEF ReadEnd
  <2>7. CASE GiveUp(c)
    BY <2>7, ClientEnds DEF GiveUp
  <2>8. CASE Accept(c)
    BY <2>8, AcceptStep
  <2>9. CASE HandleInput(c)
    BY <2>9, InputStep
  <2>10. CASE InputEnds(c)
    BY <2>10, CloseStep DEF InputEnds
  <2>11. CASE Reply(c)
    BY <2>11, ReplyStep
  <2>12. CASE HandleOutput(c)
    BY <2>12, OutputStep
  <2>13. CASE WriteToGone(c)
    BY <2>13, KilledStep
  <2> QED
    BY <2>1, <2>2, <2>3, <2>4, <2>5, <2>6, <2>7, <2>8, <2>9, <2>10, <2>11, <2>12, <2>13
       DEF Devctl, Serve
<1>2. CASE UNCHANGED vars
  BY <1>2 DEF vars, ExchangeInv, ExchangeTypeOK, ClientInv
<1> QED
  BY <1>1, <1>2

(* What a client has read and what is on its way are a beginning of one    *)
(* answer, which the slot's output_offset continues; handle_client_input   *)
(* queues at most one answer of which anything is ever written.            *)
THEOREM ExchangeInvariance == Spec => []ExchangeInv
  BY InitExchange, NextExchange, PTL DEF Spec

(* An exchange that returns DEVMGR_OK has read one answer, whole and in    *)
(* order, for every number of clients and every size of requests, answers  *)
(* and socket buffers.                                                     *)
THEOREM ExchangeReadsWholeAnswer == Spec => []WholeAnswer
<1>1. ExchangeInv => WholeAnswer
  <2> SUFFICES ASSUME ExchangeInv, NEW c \in Clients, client[c].pc = "OK"
               PROVE  client[c].read =
                        Units([size |-> client[c].read[1].size,
                               number |-> client[c].read[1].number])
    BY DEF WholeAnswer
  <2> DEFINE read == client[c].read
  <2>1. /\ read \in Seq(UnitRecords) /\ down[c] \in Seq(UnitRecords)
        /\ Len(read) >= HeaderSize /\ Wanted(read) = 0 /\ ClientInv(c)
    BY Records DEF ClientInv, Ended
  <2>2. PICK answer \in Answers : Carried(read, down[c], answer)
    BY <2>1 DEF ClientInv
  <2> HIDE DEF read
  <2>3. /\ HeaderSize \in Nat \ {0} /\ Len(read) \in Nat /\ answer.size \in Nat
        /\ answer = [size |-> answer.size, number |-> answer.number]
    BY <2>1, ExchangeAssumption DEF Answers
  <2>4. Wanted(read) = HeaderSize + answer.size - Len(read)
    BY <2>1, <2>2, <2>3, WantedOfAnswer
  <2>5. Len(read) = HeaderSize + answer.size
    BY <2>1, <2>3, <2>4
  <2>6. \A i \in 1 .. Len(read) : read[i] = Unit(answer, i)
    BY <2>2 DEF Carried
  <2>7. read = Units(answer)
    <3>1. read \in [1 .. Len(read) -> UnitRecords]
      BY <2>1, LenProperties
    <3> QED
      BY <2>5, <2>6, <3>1 DEF Units
  <2>8. read[1].size = answer.size /\ read[1].number = answer.number
    <3>1. 1 \in 1 .. Len(read)
      BY <2>1, <2>3
    <3>2. read[1] = Unit(answer, 1)
      BY <2>6, <3>1
    <3> QED
      BY <3>2 DEF Unit
  <2> QED
    BY <2>3, <2>7, <2>8 DEF read
<1> QED
  BY <1>1, ExchangeInvariance, PTL

=============================================================================
