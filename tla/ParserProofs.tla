---------------------------- MODULE ParserProofs ----------------------------
(***************************************************************************)
(* The ring buffer is a queue, and the parser always has room for what it  *)
(* is fed, for every capacity, stream, frame size and way of cutting the   *)
(* stream.                                                                 *)
(***************************************************************************)
EXTENDS Parser, SequenceTheorems, TLAPS

(***************************************************************************)
(* The ring buffer against the sequence of its contents                    *)
(***************************************************************************)
Rings == [storage : [Positions -> Nat], read_pos : Positions, size : 0 .. Capacity]

(* Where the byte n places after position p is, at most once round. *)
Round(p, n) == IF p + n < Capacity THEN p + n ELSE p + n - Capacity

LEMMA OnceRound ==
  ASSUME NEW p \in Nat, NEW n \in Nat, p < Capacity, n <= Capacity
  PROVE  (p + n) % Capacity = Round(p, n) /\ Round(p, n) \in Positions
<1>1. Capacity \in Nat \ {0} /\ p + n \in Nat
  BY CapacityAssumption
<1>2. CASE p + n < Capacity
  <2>1. (p + n) % Capacity = p + n
    BY <1>1, <1>2
  <2> QED
    BY <1>1, <1>2, <2>1 DEF Round, Positions
<1>3. CASE p + n >= Capacity
  <2>1. (p + n) % Capacity = p + n - Capacity
    BY <1>1, <1>3
  <2> QED
    BY <1>1, <1>3, <2>1 DEF Round, Positions
<1> QED
  BY <1>1, <1>2, <1>3

LEMMA RingTypes ==
  ASSUME NEW r \in Rings
  PROVE  /\ r.storage \in [Positions -> Nat] /\ r.read_pos \in Nat
         /\ r.read_pos < Capacity /\ r.size \in Nat /\ r.size <= Capacity
         /\ Capacity \in Nat /\ Capacity > 0
  BY CapacityAssumption DEF Rings, Positions

LEMMA RoundTwice ==
  ASSUME NEW p \in Nat, NEW n \in Nat, NEW i \in Nat \ {0}, p < Capacity, n + i <= Capacity
  PROVE  Round(Round(p, n), i - 1) = Round(p, n + i - 1)
  BY CapacityAssumption DEF Round

(* The two copies of devmgr_ring_write, seen from the i-th byte. *)
LEMMA TwoCopies ==
  ASSUME NEW p \in Nat, NEW size \in Nat, NEW count \in Nat, NEW i \in 1 .. size + count,
         p < Capacity, size + count <= Capacity
  PROVE  LET place == Round(p, size)
             first == Minimum(count, Capacity - place)
             at == Round(p, i - 1)
             inFirst == place <= at /\ at < place + first
         IN  /\ i <= size => ~inFirst /\ ~(at < count - first)
             /\ i > size /\ inFirst => at - place + 1 = i - size
             /\ i > size /\ ~inFirst => at < count - first /\ first + at + 1 = i - size
<1>1. CASE p + size < Capacity
  BY <1>1, CapacityAssumption DEF Round, Minimum
<1>2. CASE ~(p + size < Capacity)
  BY <1>2, CapacityAssumption DEF Round, Minimum
<1> QED
  BY <1>1, <1>2

LEMMA ContentsAt ==
  ASSUME NEW r \in Rings, NEW i \in 1 .. r.size
  PROVE  /\ Contents(r)[i] = r.storage[Round(r.read_pos, i - 1)]
         /\ Round(r.read_pos, i - 1) \in Positions
<1>1. i \in Nat /\ i - 1 \in Nat /\ i - 1 <= Capacity /\ r.read_pos + i - 1 = r.read_pos + (i - 1)
  BY RingTypes
<1>2. /\ (r.read_pos + (i - 1)) % Capacity = Round(r.read_pos, i - 1)
      /\ Round(r.read_pos, i - 1) \in Positions
  BY <1>1, RingTypes, OnceRound
<1> QED
  BY <1>1, <1>2 DEF Contents

(* devmgr_ring_discard drops the oldest bytes. *)
LEMMA DiscardContents ==
  ASSUME NEW r \in Rings, NEW n \in 0 .. r.size
  PROVE  /\ RingDiscard(r, n) \in Rings /\ RingDiscard(r, n).size = r.size - n
         /\ \A i \in 1 .. r.size - n : Contents(RingDiscard(r, n))[i] = Contents(r)[n + i]
<1> DEFINE q == RingDiscard(r, n)
           start == IF r.size - n = 0 THEN 0 ELSE Round(r.read_pos, n)
<1>1. /\ r.storage \in [Positions -> Nat] /\ r.read_pos \in Nat /\ r.read_pos < Capacity
      /\ r.size \in Nat /\ r.size <= Capacity /\ Capacity \in Nat /\ Capacity > 0
      /\ n \in Nat /\ n <= r.size /\ n <= Capacity
  BY RingTypes
<1>2. Minimum(n, r.size) = n
  BY <1>1 DEF Minimum
<1>3. (r.read_pos + n) % Capacity = Round(r.read_pos, n) /\ Round(r.read_pos, n) \in Positions
  BY <1>1, OnceRound
<1>4. q = [storage |-> r.storage, read_pos |-> start, size |-> r.size - n]
  BY <1>2, <1>3 DEF RingDiscard
<1>5. start \in Positions
  BY <1>1, <1>3 DEF Positions
<1>6. q \in Rings /\ q.size = r.size - n /\ q.storage = r.storage /\ q.read_pos = start
  <2>1. r.size - n \in 0 .. Capacity
    BY <1>1
  <2> HIDE DEF start
  <2> QED
    BY <1>1, <1>4, <1>5, <2>1 DEF Rings
<1> HIDE DEF q
<1>7. ASSUME NEW i \in 1 .. r.size - n PROVE Contents(q)[i] = Contents(r)[n + i]
  <2>1. i \in 1 .. q.size /\ n + i \in 1 .. r.size /\ i \in Nat \ {0} /\ n + i <= Capacity
        /\ r.size - n # 0
    BY <1>1, <1>6
  <2>2. /\ Contents(q)[i] = q.storage[Round(q.read_pos, i - 1)]
        /\ Contents(r)[n + i] = r.storage[Round(r.read_pos, n + i - 1)]
    BY <1>6, <2>1, ContentsAt
  <2>3. q.read_pos = Round(r.read_pos, n)
    BY <1>6, <2>1
  <2>4. Round(Round(r.read_pos, n), i - 1) = Round(r.read_pos, n + i - 1)
    BY <1>1, <2>1, RoundTwice
  <2> QED
    BY <1>6, <2>2, <2>3, <2>4
<1> QED
  BY <1>6, <1>7 DEF q

(* devmgr_ring_peek from the front copies the oldest bytes. *)
LEMMA PeekContents ==
  ASSUME NEW r \in Rings, NEW n \in 0 .. r.size
  PROVE  RingPeek(r, 0, n) = [k \in 1 .. n |-> Contents(r)[k]]
<1>1. /\ r.storage \in [Positions -> Nat] /\ r.read_pos \in Nat /\ r.read_pos < Capacity
      /\ r.size \in Nat /\ r.size <= Capacity /\ Capacity \in Nat /\ Capacity > 0
  BY RingTypes
<1> DEFINE first == Minimum(n, Capacity - r.read_pos)
<1>2. (r.read_pos + 0) % Capacity = r.read_pos
  <2>1. (r.read_pos + 0) % Capacity = Round(r.read_pos, 0)
    BY <1>1, OnceRound
  <2> QED
    BY <1>1, <2>1 DEF Round
<1>3. (IF 0 >= r.size THEN 0 ELSE Minimum(n, r.size - 0)) = n
  BY <1>1 DEF Minimum
<1>4. RingPeek(r, 0, n) =
        [k \in 1 .. n |-> IF k <= first THEN r.storage[r.read_pos + k - 1]
                          ELSE r.storage[k - first - 1]]
  BY <1>2, <1>3 DEF RingPeek
<1>5. ASSUME NEW k \in 1 .. n
      PROVE  Contents(r)[k] = IF k <= first THEN r.storage[r.read_pos + k - 1]
                              ELSE r.storage[k - first - 1]
  <2>1. k \in 1 .. r.size
    BY <1>1
  <2>2. Contents(r)[k] = r.storage[Round(r.read_pos, k - 1)]
    BY <2>1, ContentsAt
  <2>3. Round(r.read_pos, k - 1) = IF k <= first THEN r.read_pos + k - 1 ELSE k - first - 1
    BY <1>1 DEF Round, Minimum
  <2> QED
    BY <2>2, <2>3
<1> HIDE DEF first
<1> QED
  BY <1>4, <1>5

(* devmgr_ring_write appends what fits. *)
LEMMA WriteContents ==
  ASSUME NEW r \in Rings, NEW data \in Seq(Nat)
  PROVE  LET w == RingWrite(r, data)
         IN  /\ w \in Rings /\ w.size = r.size + RingWritten(r, data)
             /\ \A i \in 1 .. w.size :
                  Contents(w)[i] = IF i <= r.size THEN Contents(r)[i] ELSE data[i - r.size]
<1> DEFINE w == RingWrite(r, data)
           count == RingWritten(r, data)
           place == Round(r.read_pos, r.size)
           first == Minimum(count, Capacity - place)
           storage == [p \in Positions |->
                         IF place <= p /\ p < place + first THEN data[p - place + 1]
                         ELSE IF p < count - first THEN data[first + p + 1]
                         ELSE r.storage[p]]
<1>1. /\ r.storage \in [Positions -> Nat] /\ r.read_pos \in Nat /\ r.read_pos < Capacity
      /\ r.size \in Nat /\ r.size <= Capacity /\ Capacity \in Nat /\ Capacity > 0
  BY RingTypes
<1>2. Len(data) \in Nat /\ count \in Nat /\ count <= Len(data) /\ r.size + count <= Capacity
  <2>1. Len(data) \in Nat
    OBVIOUS
  <2> QED
    BY <1>1, <2>1 DEF RingWritten, Minimum, RingSpace
<1> HIDE DEF count
<1>3. /\ place \in Nat /\ place < Capacity /\ place \in Positions
      /\ (r.read_pos + r.size) % Capacity = place
  <2>1. place \in Positions /\ (r.read_pos + r.size) % Capacity = place
    BY <1>1, OnceRound
  <2> QED
    BY <1>1, <2>1 DEF Positions
<1> HIDE DEF place
<1>4. first \in Nat /\ first <= count /\ place + first <= Capacity
  BY <1>1, <1>2, <1>3 DEF Minimum
<1>6. w = [storage |-> storage, read_pos |-> r.read_pos, size |-> r.size + count]
  BY <1>3 DEF RingWrite, Stored, count
<1> HIDE DEF first
<1>7. storage \in [Positions -> Nat]
  <2> SUFFICES ASSUME NEW p \in Positions PROVE storage[p] \in Nat
    OBVIOUS
  <2>1. p \in Nat /\ p < Capacity
    BY <1>1 DEF Positions
  <2>2. CASE place <= p /\ p < place + first
    <3>1. p - place + 1 \in 1 .. Len(data)
      BY <1>2, <1>3, <1>4, <2>1, <2>2
    <3>2. data[p - place + 1] \in Nat
      BY <3>1, ElementOfSeq
    <3> QED
      BY <2>2, <3>2
  <2>3. CASE ~(place <= p /\ p < place + first) /\ p < count - first
    <3>1. first + p + 1 \in 1 .. Len(data)
      BY <1>2, <1>4, <2>1, <2>3
    <3>2. data[first + p + 1] \in Nat
      BY <3>1, ElementOfSeq
    <3> QED
      BY <2>3, <3>2
  <2>4. CASE ~(place <= p /\ p < place + first) /\ ~(p < count - first)
    BY <1>1, <2>4
  <2> QED
    BY <2>2, <2>3, <2>4
<1>8. /\ w \in Rings /\ w.size = r.size + count /\ w.storage = storage
      /\ w.read_pos = r.read_pos
  <2>1. r.size + count \in 0 .. Capacity /\ r.read_pos \in Positions
    BY <1>1, <1>2 DEF Positions
  <2> HIDE DEF storage
  <2> QED
    BY <1>6, <1>7, <2>1 DEF Rings
<1> HIDE DEF w
<1>9. ASSUME NEW i \in 1 .. w.size
      PROVE  Contents(w)[i] = IF i <= r.size THEN Contents(r)[i] ELSE data[i - r.size]
  <2> DEFINE at == Round(r.read_pos, i - 1)
             inFirst == place <= at /\ at < place + first
  <2>1. Contents(w)[i] = storage[at] /\ at \in Positions
    BY <1>8, ContentsAt
  <2>2. /\ i <= r.size => ~inFirst /\ ~(at < count - first)
        /\ i > r.size /\ inFirst => at - place + 1 = i - r.size
        /\ i > r.size /\ ~inFirst => at < count - first /\ first + at + 1 = i - r.size
    BY <1>1, <1>2, <1>8, TwoCopies DEF place, first
  <2>3. i <= r.size => Contents(r)[i] = r.storage[at]
    <3> SUFFICES ASSUME i <= r.size PROVE Contents(r)[i] = r.storage[at]
      OBVIOUS
    <3>1. i \in 1 .. r.size
      BY <1>1, <1>8
    <3> QED
      BY <3>1, ContentsAt
  <2> HIDE DEF at
  <2>4. storage[at] = IF inFirst THEN data[at - place + 1]
                      ELSE IF at < count - first THEN data[first + at + 1]
                      ELSE r.storage[at]
    BY <2>1
  <2>5. i <= r.size \/ i > r.size
    BY <1>1, <1>2, <1>8
  <2> HIDE DEF inFirst, storage
  <2> QED
    BY <1>1, <1>2, <1>8, <2>1, <2>2, <2>3, <2>4, <2>5
<1> QED
  BY <1>8, <1>9 DEF w, count

(* The ring holds the bytes up to the one at position last, in order; or   *)
(* any bytes up to there.                                                  *)
InOrder(r, last) == \A i \in 1 .. r.size : Contents(r)[i] = last - r.size + i
Within(r, last) == \A i \in 1 .. r.size : Contents(r)[i] \in 1 .. last

LEMMA DiscardKeeps ==
  ASSUME NEW r \in Rings, NEW n \in 0 .. r.size, NEW last \in Nat
  PROVE  /\ InOrder(r, last) => InOrder(RingDiscard(r, n), last)
         /\ Within(r, last) => Within(RingDiscard(r, n), last)
<1> DEFINE q == RingDiscard(r, n)
<1>1. q \in Rings /\ q.size = r.size - n
      /\ \A i \in 1 .. r.size - n : Contents(q)[i] = Contents(r)[n + i]
  BY DiscardContents
<1> HIDE DEF q
<1>2. r.size \in Nat
  BY RingTypes
<1>3. ASSUME NEW i \in 1 .. q.size
      PROVE  /\ Contents(q)[i] = Contents(r)[n + i] /\ n + i \in 1 .. r.size
             /\ last - r.size + (n + i) = last - q.size + i
  BY <1>1, <1>2
<1> QED
  BY <1>3 DEF InOrder, Within, q

LEMMA WriteKeeps ==
  ASSUME NEW r \in Rings, NEW data \in Seq(Nat), NEW last \in Nat, NEW end \in Nat,
         \A j \in 1 .. Len(data) : data[j] = last + j,
         last + Len(data) <= end
  PROVE  /\ InOrder(r, last) => InOrder(RingWrite(r, data), last + RingWritten(r, data))
         /\ Within(r, end) => Within(RingWrite(r, data), end)
<1> DEFINE w == RingWrite(r, data)
           count == RingWritten(r, data)
<1>1. /\ w \in Rings /\ w.size = r.size + count
      /\ \A i \in 1 .. w.size :
           Contents(w)[i] = IF i <= r.size THEN Contents(r)[i] ELSE data[i - r.size]
  BY WriteContents
<1>2. /\ r.size \in Nat /\ Len(data) \in Nat /\ count \in Nat /\ count <= Len(data)
      /\ RingSpace(r) \in Nat
  <2>1. r.size \in Nat /\ r.size <= Capacity /\ Capacity \in Nat /\ Len(data) \in Nat
    BY RingTypes
  <2> QED
    BY <2>1 DEF RingWritten, RingSpace, Minimum
<1> HIDE DEF w, count
<1>3. ASSUME NEW i \in 1 .. w.size
      PROVE  \/ i \in 1 .. r.size /\ Contents(w)[i] = Contents(r)[i]
             \/ Contents(w)[i] = last + (i - r.size) /\ last + (i - r.size) \in 1 .. end
  <2>1. CASE i <= r.size
    BY <1>1, <1>2, <2>1
  <2>2. CASE ~(i <= r.size)
    <3>1. i - r.size \in 1 .. Len(data)
      BY <1>1, <1>2, <2>2
    <3>2. Contents(w)[i] = data[i - r.size]
      BY <1>1, <2>2
    <3>3. \A j \in 1 .. Len(data) : last + j \in 1 .. end
      BY <1>2
    <3> QED
      BY <3>1, <3>2, <3>3
  <2> QED
    BY <2>1, <2>2
<1>4. \A i \in 1 .. w.size : /\ last - r.size + i = (last + count) - w.size + i
                             /\ last + (i - r.size) = (last + count) - w.size + i
  BY <1>1, <1>2
<1>5. ASSUME InOrder(r, last), NEW i \in 1 .. w.size
      PROVE  Contents(w)[i] = (last + count) - w.size + i
  <2>1. \A k \in 1 .. r.size : Contents(r)[k] = last - r.size + k
    BY <1>5 DEF InOrder
  <2> QED
    BY <1>3, <1>4, <2>1
<1>6. Within(r, end) => Within(w, end)
  BY <1>3 DEF Within
<1>7. InOrder(r, last) => InOrder(w, last + count)
  <2> SUFFICES ASSUME InOrder(r, last)
               PROVE  \A i \in 1 .. w.size : Contents(w)[i] = (last + count) - w.size + i
    BY DEF InOrder
  <2> QED
    BY <1>5
<1> QED
  BY <1>6, <1>7 DEF w, count

(***************************************************************************)
(* The inductive invariant                                                 *)
(***************************************************************************)
ParserTypes ==
  /\ stream \in Streams
  /\ taken \in Nat /\ taken <= Len(stream.units)
  /\ input \in Rings
  /\ feed \in [data : Seq(Nat), offset : Nat]
  /\ pc \in {"idle", "write", "drain", "last_drain"}
  /\ failures \in Nat /\ failures <= MaxFailures

(* The bytes being fed are the last ones taken from the stream, and all of *)
(* them are in the ring before the last drain.                             *)
FeedIsLatest ==
  /\ feed.offset <= Len(feed.data) /\ Len(feed.data) <= MaxRead /\ Len(feed.data) <= taken
  /\ \A i \in 1 .. Len(feed.data) : feed.data[i] = taken - Len(feed.data) + i
  /\ pc = "idle" => feed = NoFeed
  /\ pc = "last_drain" => feed.offset = Len(feed.data)

(* Also after bytes were dropped, what the ring holds comes from the       *)
(* stream.                                                                 *)
HoldsStream == Within(input, taken)

(* The last byte of the stream that was written to the ring. *)
LastWritten == taken - (Len(feed.data) - feed.offset)
Ordered == dropped = {} => InOrder(input, LastWritten)

(* Each failed call leaves at most what it has read on top of a frame that *)
(* is not complete.  Until that is more than the ring takes, a whole read  *)
(* fits.                                                                   *)
Backlog(f) == f * MaxRead
Room ==
  /\ pc \in {"idle", "write"} =>
       input.size < Capacity /\ input.size < MaxFrame + Backlog(failures)
  /\ Draining => input.size < MaxFrame + Backlog(failures + 1)
  /\ Backlog(failures + 1) <= MaxFrame =>
       /\ pc = "write" => feed.offset = 0
       /\ Draining => feed.offset = Len(feed.data)
  /\ Backlog(failures) <= MaxFrame => dropped = {}

ParserInv ==
  ParserTypes /\ FeedIsLatest /\ HoldsStream /\ Ordered /\ Room

(***************************************************************************)
(* Facts about a state                                                     *)
(***************************************************************************)
LEMMA Sizes ==
  /\ MaxPayload \in Nat /\ MaxFrame \in Nat /\ MaxFrame = MaxPayload + 5 /\ MaxFrame > 4
  /\ Capacity = MaxFrame + MaxFrame /\ Capacity \in Nat
  /\ MaxRead \in Nat /\ 1 <= MaxRead /\ MaxRead <= MaxFrame
  BY ParserAssumption DEF MaxFrame, HeaderSize, CrcSize

LEMMA BacklogGrows ==
  ASSUME NEW f \in Nat
  PROVE  /\ Backlog(f) \in Nat /\ Backlog(f + 1) \in Nat
         /\ Backlog(f + 1) = Backlog(f) + MaxRead
  BY Sizes DEF Backlog

(* A read on top of a backlog. *)
LEMMA ReadOnTop ==
  ASSUME NEW size \in Nat, NEW backlog \in Nat, NEW n \in Nat,
         size < MaxFrame + backlog, n <= MaxRead
  PROVE  /\ size + n < MaxFrame + (backlog + MaxRead)
         /\ backlog + MaxRead <= MaxFrame => size + n <= Capacity
  BY Sizes

LEMMA RestOfFeed ==
  ASSUME ParserTypes, FeedIsLatest
  PROVE  /\ Len(feed.data) \in Nat /\ feed.offset \in Nat
         /\ Rest \in Seq(Nat) /\ Len(Rest) = Len(feed.data) - feed.offset
         /\ \A j \in 1 .. Len(feed.data) - feed.offset :
              Rest[j] = taken - Len(feed.data) + feed.offset + j
<1> DEFINE data == feed.data
           n == feed.offset
<1>1. data \in Seq(Nat) /\ n \in Nat /\ n <= Len(data) /\ Len(data) \in Nat /\ taken \in Nat
  BY DEF ParserTypes, FeedIsLatest
<1>2. \A i \in 1 .. Len(data) : data[i] = taken - Len(data) + i
  BY DEF FeedIsLatest
<1>3. Rest = SubSeq(data, n + 1, Len(data))
  BY DEF Rest
<1> HIDE DEF data, n
<1>4. \A i \in n + 1 .. Len(data) : data[i] \in Nat
  BY <1>1, ElementOfSeq
<1>5. /\ Rest \in Seq(Nat)
      /\ Len(Rest) = IF n + 1 <= Len(data) THEN Len(data) - (n + 1) + 1 ELSE 0
      /\ \A j \in 1 .. Len(data) - (n + 1) + 1 : Rest[j] = data[(n + 1) + j - 1]
  BY <1>1, <1>3, <1>4, SubSeqProperties
<1>6. Len(Rest) = Len(data) - n
  BY <1>1, <1>5
<1>7. ASSUME NEW j \in 1 .. Len(data) - n PROVE Rest[j] = taken - Len(data) + n + j
  <2>1. /\ j \in 1 .. Len(data) - (n + 1) + 1 /\ (n + 1) + j - 1 \in 1 .. Len(data)
        /\ taken - Len(data) + ((n + 1) + j - 1) = taken - Len(data) + n + j
    BY <1>1
  <2> QED
    BY <1>2, <1>5, <2>1
<1> QED
  BY <1>1, <1>5, <1>6, <1>7 DEF data, n

(* A good header gives a length, so a complete frame is in the ring. *)
LEMMA FrameFits ==
  ASSUME ParserInv, GoodHeader, LengthFits
  PROVE  FrameLength \in Nat /\ 1 <= FrameLength /\ FrameLength <= MaxFrame
<1>1. /\ input \in Rings /\ input.size \in Nat /\ input.size >= 4
      /\ stream.units \in Seq(Nat) /\ taken <= Len(stream.units) /\ taken \in Nat
      /\ Len(stream.units) \in Nat
  <2>1. input \in Rings /\ stream \in Streams /\ taken <= Len(stream.units) /\ taken \in Nat
    BY DEF ParserInv, ParserTypes
  <2>2. input.size \in Nat /\ stream.units \in Seq(Nat)
    BY <2>1, RingTypes, ParserAssumption
  <2> QED
    BY <2>1, <2>2 DEF GoodHeader, HasHeader, HeaderSize
<1>2. RingPeek(input, 0, 4) = [k \in 1 .. 4 |-> Contents(input)[k]]
  <2>1. 4 \in 0 .. input.size
    BY <1>1
  <2> QED
    BY <1>1, <2>1, PeekContents
<1>3. Contents(input)[4] \in 1 .. Len(stream.units)
  <2>1. Contents(input)[4] \in 1 .. taken
    BY <1>1 DEF ParserInv, HoldsStream, Within
  <2> QED
    BY <1>1, <2>1
<1> DEFINE window == [k \in 1 .. 4 |-> Contents(input)[k]]
<1>4. Len(window) = 4 /\ window[4] = Contents(input)[4]
  OBVIOUS
<1>5. Header[4] = stream.units[Contents(input)[4]]
  <2>1. Header = [i \in 1 .. Len(window) |-> stream.units[window[i]]]
    BY <1>2 DEF Header, Value, HeaderSize
  <2> HIDE DEF window
  <2> QED
    BY <1>4, <2>1
<1>6. Header[4] \in Nat
  BY <1>1, <1>3, <1>5, ElementOfSeq
<1>7. Header[4] <= MaxPayload
  BY DEF LengthFits
<1> QED
  BY <1>6, <1>7, Sizes DEF FrameLength, HeaderSize, CrcSize

LEMMA StarvedIsSmall ==
  ASSUME ParserInv, Starved
  PROVE  input.size < MaxFrame
<1>1. input.size \in Nat
  BY RingTypes DEF ParserInv, ParserTypes
<1>2. CASE input.size < 2
  BY <1>1, <1>2, Sizes
<1>3. CASE HasMagic /\ input.size < HeaderSize
  BY <1>1, <1>3, Sizes DEF HeaderSize
<1>4. CASE GoodHeader /\ LengthFits /\ ~Complete
  <2>1. FrameLength \in Nat /\ FrameLength <= MaxFrame
    BY <1>4, FrameFits
  <2>2. ~(input.size >= FrameLength)
    BY <1>4 DEF Complete
  <2> QED
    BY <1>1, <2>1, <2>2, Sizes
<1> QED
  BY <1>2, <1>3, <1>4 DEF Starved

(***************************************************************************)
(* One lemma for each action                                               *)
(***************************************************************************)
LEMMA InitParser == Init => ParserInv
<1> SUFFICES ASSUME Init PROVE ParserInv
  OBVIOUS
<1>1. <<>> \in Seq(Nat) /\ Len(<<>>) = 0 /\ 0 \in Nat
  BY EmptySeq
<1>2. feed.data = <<>> /\ feed.offset = 0 /\ feed \in [data : Seq(Nat), offset : Nat]
  BY <1>1 DEF Init, NoFeed
<1>3. input \in Rings /\ input.size = 0
  <2>1. /\ [p \in Positions |-> 0] \in [Positions -> Nat]
        /\ 0 \in Positions /\ 0 \in 0 .. Capacity
    BY CapacityAssumption DEF Positions
  <2> QED
    BY <2>1 DEF Init, RingInit, Rings
<1>4. ParserTypes
  <2>1. Len(stream.units) \in Nat
    BY ParserAssumption DEF Init
  <2> QED
    BY <1>2, <1>3, <2>1, ParserAssumption DEF Init, ParserTypes
<1>5. FeedIsLatest
  BY <1>1, <1>2, Sizes DEF Init, FeedIsLatest
<1>6. HoldsStream /\ Ordered
  BY <1>3 DEF HoldsStream, Ordered, Within, InOrder
<1>7. Room
  <2>1. Backlog(0) = 0
    BY Sizes DEF Backlog
  <2> QED
    BY <1>2, <1>3, <2>1, Sizes DEF Init, Room, Draining
<1> QED
  BY <1>4, <1>5, <1>6, <1>7 DEF ParserInv

LEMMA FeedStep ==
  ASSUME ParserInv, Feed
  PROVE  ParserInv' /\ LastWritten' = LastWritten
<1>1. PICK n \in ReadSizes :
        /\ taken + n <= Len(stream.units) /\ taken' = taken + n
        /\ feed' = [NoFeed EXCEPT !.data = [i \in 1 .. n |-> taken + i]]
  BY DEF Feed
<1>2. /\ pc = "idle" /\ pc' = "write"
      /\ UNCHANGED <<stream, input, failures, dropped>>
  BY DEF Feed
<1>3. n \in Nat /\ 1 <= n /\ n <= MaxRead /\ taken \in Nat
  BY ParserAssumption DEF ParserInv, ParserTypes
<1> DEFINE data == [i \in 1 .. n |-> taken + i]
<1>4. data \in Seq(Nat) /\ Len(data) = n /\ \A i \in 1 .. n : data[i] = taken + i
  <2>1. data \in [1 .. n -> Nat]
    BY <1>3
  <2>2. data \in Seq(Nat)
    BY <1>3, <2>1, SeqDef
  <2> QED
    BY <1>3, <2>1, <2>2, LenProperties
<1> HIDE DEF data
<1>5. feed' = [data |-> data, offset |-> 0]
  BY <1>1 DEF NoFeed, data
<1>6. feed'.data = data /\ feed'.offset = 0 /\ feed' \in [data : Seq(Nat), offset : Nat]
  BY <1>4, <1>5
<1>7. /\ feed = NoFeed /\ feed.data = <<>> /\ feed.offset = 0 /\ Len(feed.data) = 0
  <2>1. feed = NoFeed
    BY <1>2 DEF ParserInv, FeedIsLatest
  <2> QED
    BY <2>1, EmptySeq DEF NoFeed
<1>8. ParserTypes'
  BY <1>1, <1>2, <1>3, <1>6 DEF ParserInv, ParserTypes
<1>9. FeedIsLatest'
  BY <1>1, <1>2, <1>3, <1>4, <1>6 DEF FeedIsLatest
<1>10. HoldsStream'
  <2>1. \A x \in 1 .. taken : x \in 1 .. taken + n
    BY <1>3
  <2>2. Within(input, taken) => Within(input, taken + n)
    BY <2>1 DEF Within
  <2> QED
    BY <1>1, <1>2, <2>2 DEF ParserInv, HoldsStream
<1>11. LastWritten = taken /\ LastWritten' = taken
  BY <1>1, <1>3, <1>4, <1>6, <1>7 DEF LastWritten
<1>12. Ordered'
  BY <1>2, <1>11 DEF ParserInv, Ordered
<1>13. Room'
  BY <1>2, <1>6 DEF ParserInv, Room, Draining
<1> QED
  BY <1>8, <1>9, <1>10, <1>11, <1>13, <1>12 DEF ParserInv

LEMMA WriteStep ==
  ASSUME ParserInv, Write
  PROVE  ParserInv' /\ LastWritten' - input'.size = LastWritten - input.size
<1> DEFINE count == RingWritten(input, Rest)
<1>1. /\ pc = "write" /\ pc' = "drain" /\ input' = RingWrite(input, Rest)
      /\ feed' = [feed EXCEPT !.offset = @ + count]
      /\ UNCHANGED <<stream, taken, failures, dropped>>
  BY DEF Write, callerVars
<1>2. /\ Len(feed.data) \in Nat /\ feed.offset \in Nat
      /\ Rest \in Seq(Nat) /\ Len(Rest) = Len(feed.data) - feed.offset
      /\ \A j \in 1 .. Len(feed.data) - feed.offset :
           Rest[j] = taken - Len(feed.data) + feed.offset + j
  BY RestOfFeed DEF ParserInv
<1>3. /\ input \in Rings /\ taken \in Nat /\ failures \in Nat
      /\ feed \in [data : Seq(Nat), offset : Nat]
      /\ feed.offset <= Len(feed.data) /\ Len(feed.data) <= MaxRead
      /\ Len(feed.data) <= taken
  BY DEF ParserInv, ParserTypes, FeedIsLatest
<1>4. input.size \in Nat /\ input.size <= Capacity
  BY <1>3, RingTypes
<1>5. /\ count \in Nat /\ count <= Len(feed.data) - feed.offset
      /\ (input.size + (Len(feed.data) - feed.offset) <= Capacity
            => count = Len(feed.data) - feed.offset)
  BY <1>2, <1>3, <1>4, Sizes, SMTT(40) DEF RingWritten, RingSpace, Minimum
<1>6. input' \in Rings /\ input'.size = input.size + count
  BY <1>1, <1>2, <1>3, WriteContents
<1>7. LastWritten \in Nat /\ LastWritten + Len(Rest) <= taken
      /\ \A j \in 1 .. Len(Rest) : Rest[j] = LastWritten + j
  BY <1>2, <1>3 DEF LastWritten
<1>8. /\ InOrder(input, LastWritten) => InOrder(input', LastWritten + count)
      /\ Within(input, taken) => Within(input', taken)
  BY <1>1, <1>2, <1>3, <1>7, WriteKeeps
<1> HIDE DEF count
<1>9. /\ feed' \in [data : Seq(Nat), offset : Nat]
      /\ feed'.data = feed.data /\ feed'.offset = feed.offset + count
  <2>1. feed.offset + count \in Nat
    BY <1>2, <1>5
  <2> QED
    BY <1>1, <1>3, <2>1
<1>10. ParserTypes'
  BY <1>1, <1>6, <1>9 DEF ParserInv, ParserTypes
<1>11. FeedIsLatest'
  <2>1. feed.offset + count <= Len(feed.data)
    BY <1>2, <1>5
  <2> QED
    BY <1>1, <1>9, <2>1 DEF ParserInv, FeedIsLatest
<1>12. HoldsStream'
  BY <1>1, <1>8 DEF ParserInv, HoldsStream
<1>13. LastWritten' = LastWritten + count
  BY <1>1, <1>2, <1>3, <1>5, <1>9 DEF LastWritten
<1>14. Ordered'
  BY <1>1, <1>8, <1>13 DEF ParserInv, Ordered
<1>15. LastWritten' - input'.size = LastWritten - input.size
  BY <1>4, <1>5, <1>6, <1>7, <1>13
<1>16. Room'
  <2>1. /\ Backlog(failures) \in Nat /\ Backlog(failures + 1) \in Nat
        /\ Backlog(failures + 1) = Backlog(failures) + MaxRead
    BY <1>3, BacklogGrows
  <2>2. input.size < MaxFrame + Backlog(failures)
    BY <1>1 DEF ParserInv, Room
  <2>3. input'.size < MaxFrame + Backlog(failures + 1)
    <3>1. count <= MaxRead
      BY <1>2, <1>3, <1>5, Sizes
    <3> QED
      BY <1>4, <1>5, <1>6, <2>1, <2>2, <3>1, ReadOnTop
  <2>4. ASSUME Backlog(failures + 1) <= MaxFrame
        PROVE  feed'.offset = Len(feed'.data)
    <3>1. feed.offset = 0
      BY <1>1, <2>4 DEF ParserInv, Room
    <3>2. input.size + (Len(feed.data) - feed.offset) <= Capacity
      <4>1. Len(feed.data) - feed.offset \in Nat /\ Len(feed.data) - feed.offset <= MaxRead
        BY <1>2, <1>3, Sizes
      <4> QED
        BY <1>4, <2>1, <2>2, <2>4, <4>1, ReadOnTop
    <3> QED
      BY <1>2, <1>5, <1>9, <3>1, <3>2
  <2>5. Backlog(failures) <= MaxFrame => dropped = {}
    BY DEF ParserInv, Room
  <2> QED
    BY <1>1, <2>3, <2>4, <2>5 DEF Room, Draining
<1> QED
  BY <1>10, <1>11, <1>12, <1>16, <1>14, <1>15 DEF ParserInv

(* Every way through the loop that takes n bytes out of the ring and       *)
(* leaves the call running.                                                *)
LEMMA DiscardStep ==
  ASSUME ParserInv, Draining, NEW n \in 0 .. input.size, input' = RingDiscard(input, n),
         UNCHANGED <<stream, taken, feed, pc, failures, dropped>>
  PROVE  ParserInv' /\ LastWritten' = LastWritten /\ input'.size = input.size - n
<1>1. input \in Rings /\ taken \in Nat /\ failures \in Nat
      /\ Len(feed.data) \in Nat /\ feed.offset \in Nat
      /\ feed.offset <= Len(feed.data) /\ Len(feed.data) <= taken
  BY DEF ParserInv, ParserTypes, FeedIsLatest
<1>2. input' \in Rings /\ input'.size = input.size - n
  BY <1>1, DiscardContents
<1>3. LastWritten \in Nat /\ LastWritten' = LastWritten
  BY <1>1 DEF LastWritten
<1>4. /\ InOrder(input, LastWritten) => InOrder(input', LastWritten)
      /\ Within(input, taken) => Within(input', taken)
  BY <1>1, <1>3, DiscardKeeps
<1>5. ParserTypes' /\ FeedIsLatest'
  BY <1>2 DEF ParserInv, ParserTypes, FeedIsLatest
<1>6. HoldsStream' /\ Ordered'
  BY <1>3, <1>4 DEF ParserInv, HoldsStream, Ordered
<1>7. Room'
  <2>1. /\ Backlog(failures + 1) \in Nat /\ MaxFrame \in Nat /\ input.size \in Nat
    BY <1>1, BacklogGrows, Sizes, RingTypes
  <2>2. input.size < MaxFrame + Backlog(failures + 1)
    BY DEF ParserInv, Room
  <2>3. input'.size < MaxFrame + Backlog(failures + 1)
    BY <1>2, <2>1, <2>2
  <2>4. pc \notin {"idle", "write"}
    BY DEF Draining
  <2> QED
    BY <2>3, <2>4 DEF ParserInv, Room, Draining
<1> QED
  BY <1>2, <1>3, <1>5, <1>6, <1>7 DEF ParserInv

LEMMA ResyncStep ==
  ASSUME ParserInv, NEW counted, Resync(counted), input.size >= 1
  PROVE  ParserInv' /\ LastWritten' = LastWritten /\ input'.size = input.size - 1
<1>1. input.size \in Nat
  BY RingTypes DEF ParserInv, ParserTypes
<1>2. 1 \in 0 .. input.size
  BY <1>1
<1> QED
  BY <1>2, DiscardStep DEF Resync, callerVars

LEMMA EmittedFrame ==
  ASSUME ParserInv, Emit
  PROVE  /\ Draining /\ FrameLength \in 0 .. input.size /\ FrameLength > 0
         /\ input' = RingDiscard(input, FrameLength)
<1>1. FrameLength \in Nat /\ 1 <= FrameLength
  BY FrameFits DEF Emit, Complete
<1>2. input.size \in Nat /\ input.size >= FrameLength
  BY RingTypes DEF ParserInv, ParserTypes, Emit, Complete
<1> QED
  BY <1>1, <1>2 DEF Emit

LEMMA EmitStep ==
  ASSUME ParserInv, EmitFrame
  PROVE  ParserInv' /\ LastWritten' = LastWritten /\ input'.size = input.size - FrameLength
<1>1. Emit /\ UNCHANGED <<stream, taken, feed, pc, failures, dropped>>
  BY DEF EmitFrame, callerVars
<1> QED
  BY <1>1, EmittedFrame, DiscardStep

(* The call ends, and what it had not yet written is lost. *)
LEMMA FailStep ==
  ASSUME ParserInv, CallbackFails
  PROVE  /\ ParserInv' /\ input'.size = input.size - FrameLength
         /\ dropped' = {} => dropped = {} /\ LastWritten' = LastWritten
<1> DEFINE n == FrameLength
<1>0. /\ Draining /\ n \in 0 .. input.size /\ n > 0 /\ input' = RingDiscard(input, n)
  BY EmittedFrame DEF CallbackFails
<1> HIDE DEF n
<1>1. /\ failures' = failures + 1 /\ failures < MaxFailures /\ pc' = "idle" /\ feed' = NoFeed
      /\ dropped' = dropped \union {feed.data[i] : i \in feed.offset + 1 .. Len(feed.data)}
      /\ UNCHANGED <<stream, taken>>
  BY DEF CallbackFails, callerVars
<1>2. /\ input \in Rings /\ taken \in Nat /\ failures \in Nat
      /\ Len(feed.data) \in Nat /\ feed.offset \in Nat
      /\ feed.offset <= Len(feed.data) /\ Len(feed.data) <= taken
  BY DEF ParserInv, ParserTypes, FeedIsLatest
<1>3. input' \in Rings /\ input'.size = input.size - n
  BY <1>0, <1>2, DiscardContents
<1>4. /\ feed'.data = <<>> /\ feed'.offset = 0 /\ Len(feed'.data) = 0
      /\ feed' \in [data : Seq(Nat), offset : Nat]
  <2>1. <<>> \in Seq(Nat) /\ 0 \in Nat /\ Len(<<>>) = 0
    BY EmptySeq
  <2> QED
    BY <1>1, <2>1 DEF NoFeed
<1>5. LastWritten \in Nat
  BY <1>2 DEF LastWritten
<1>6. /\ InOrder(input, LastWritten) => InOrder(input', LastWritten)
      /\ Within(input, taken) => Within(input', taken)
  BY <1>0, <1>2, <1>5, DiscardKeeps
<1>7. feed.offset = Len(feed.data) => dropped' = dropped
  BY <1>1, <1>2
<1>8. dropped' = {} => dropped = {} /\ feed.offset = Len(feed.data)
  <2> SUFFICES ASSUME dropped' = {} PROVE dropped = {} /\ feed.offset = Len(feed.data)
    OBVIOUS
  <2>1. dropped = {} /\ \A i \in feed.offset + 1 .. Len(feed.data) : FALSE
    BY <1>1
  <2>2. feed.offset < Len(feed.data) => feed.offset + 1 \in feed.offset + 1 .. Len(feed.data)
    BY <1>2
  <2> QED
    BY <1>2, <2>1, <2>2
<1>9. ParserTypes'
  BY <1>1, <1>2, <1>3, <1>4, ParserAssumption DEF ParserInv, ParserTypes
<1>10. FeedIsLatest'
  BY <1>1, <1>2, <1>4, Sizes DEF FeedIsLatest
<1>11. HoldsStream'
  BY <1>1, <1>6 DEF ParserInv, HoldsStream
<1>12. ASSUME dropped' = {} PROVE LastWritten' = LastWritten
  <2>1. feed.offset = Len(feed.data)
    BY <1>8, <1>12
  <2>2. LastWritten' = taken /\ LastWritten = taken
    BY <1>1, <1>2, <1>4, <2>1 DEF LastWritten
  <2> QED
    BY <2>2
<1>13. Ordered'
  BY <1>6, <1>8, <1>12 DEF ParserInv, Ordered
<1>14. Room'
  <2>1. /\ Backlog(failures) \in Nat /\ Backlog(failures + 1) \in Nat
        /\ Backlog(failures + 1) = Backlog(failures) + MaxRead
        /\ MaxFrame \in Nat /\ MaxRead \in Nat /\ input.size \in Nat
        /\ input.size <= Capacity /\ Capacity \in Nat
    BY <1>2, BacklogGrows, Sizes, RingTypes
  <2>2. input.size < MaxFrame + Backlog(failures + 1)
    BY <1>0 DEF ParserInv, Room
  <2>3. input'.size < MaxFrame + Backlog(failures + 1) /\ input'.size < Capacity
    BY <1>0, <1>3, <2>1, <2>2
  <2>4. ASSUME Backlog(failures + 1) <= MaxFrame PROVE dropped' = {}
    <3>1. feed.offset = Len(feed.data)
      BY <1>0, <2>4 DEF ParserInv, Room
    <3>2. Backlog(failures) <= MaxFrame
      BY <2>1, <2>4
    <3> QED
      BY <1>7, <3>1, <3>2 DEF ParserInv, Room
  <2> QED
    BY <1>1, <2>3, <2>4 DEF Room, Draining
<1> QED
  BY <1>3, <1>8, <1>9, <1>10, <1>11, <1>12, <1>14, <1>13 DEF ParserInv, n

LEMMA DrainEndsStep ==
  ASSUME ParserInv, DrainEnds
  PROVE  ParserInv' /\ LastWritten' = LastWritten
<1>1. input.size < MaxFrame
  BY StarvedIsSmall DEF DrainEnds
<1>2. /\ Draining /\ UNCHANGED <<stream, taken, input, failures, dropped>>
  BY DEF DrainEnds, callerVars
<1>3. /\ input \in Rings /\ taken \in Nat /\ failures \in Nat
      /\ Len(feed.data) \in Nat /\ feed.offset \in Nat
      /\ feed.offset <= Len(feed.data) /\ Len(feed.data) <= taken
  BY DEF ParserInv, ParserTypes, FeedIsLatest
<1>4. /\ Backlog(failures) \in Nat /\ MaxFrame \in Nat /\ input.size \in Nat
      /\ Capacity = MaxFrame + MaxFrame /\ MaxFrame > 4
  BY <1>3, BacklogGrows, Sizes, RingTypes
<1>5. input.size < Capacity /\ input.size < MaxFrame + Backlog(failures)
  BY <1>1, <1>4
<1>6. CASE pc = "drain" /\ UNCHANGED feed
           /\ pc' = IF feed.offset < Len(feed.data) THEN "write" ELSE "last_drain"
  <2>1. pc' \in {"write", "last_drain"} /\ (pc' = "write" => feed.offset < Len(feed.data))
        /\ (pc' = "last_drain" => feed.offset = Len(feed.data))
    BY <1>3, <1>6
  <2>2. ParserTypes' /\ FeedIsLatest'
    BY <1>2, <1>6, <2>1 DEF ParserInv, ParserTypes, FeedIsLatest
  <2>3. HoldsStream' /\ Ordered'
    BY <1>2, <1>6 DEF ParserInv, HoldsStream, Ordered, LastWritten
  <2>4. Room'
    <3>1. Backlog(failures + 1) <= MaxFrame => feed.offset = Len(feed.data)
      BY <1>2 DEF ParserInv, Room
    <3>2. input.size < MaxFrame + Backlog(failures + 1)
      BY <1>2 DEF ParserInv, Room
    <3>3. feed.offset = Len(feed.data) => ~(feed.offset < Len(feed.data))
      BY <1>3
    <3> QED
      BY <1>2, <1>5, <1>6, <2>1, <3>1, <3>2, <3>3 DEF ParserInv, Room, Draining
  <2>5. LastWritten' = LastWritten
    BY <1>2, <1>6 DEF LastWritten
  <2> QED
    BY <2>2, <2>3, <2>4, <2>5 DEF ParserInv
<1>7. CASE pc = "last_drain" /\ pc' = "idle" /\ feed' = NoFeed
  <2>1. /\ feed'.data = <<>> /\ feed'.offset = 0 /\ Len(feed'.data) = 0
        /\ feed' \in [data : Seq(Nat), offset : Nat]
    <3>1. <<>> \in Seq(Nat) /\ 0 \in Nat /\ Len(<<>>) = 0
      BY EmptySeq
    <3> QED
      BY <1>7, <3>1 DEF NoFeed
  <2>2. feed.offset = Len(feed.data)
    BY <1>7 DEF ParserInv, FeedIsLatest
  <2>3. ParserTypes'
    BY <1>2, <1>7, <2>1 DEF ParserInv, ParserTypes
  <2>4. FeedIsLatest'
    BY <1>2, <1>3, <1>7, <2>1, Sizes DEF FeedIsLatest
  <2>5. LastWritten' = LastWritten
    BY <1>2, <1>3, <2>1, <2>2 DEF LastWritten
  <2>6. HoldsStream' /\ Ordered'
    BY <1>2, <2>5 DEF ParserInv, HoldsStream, Ordered
  <2>7. Room'
    BY <1>2, <1>5, <1>7 DEF ParserInv, Room, Draining
  <2> QED
    BY <2>3, <2>4, <2>5, <2>6, <2>7 DEF ParserInv
<1> QED
  BY <1>6, <1>7 DEF DrainEnds

LEMMA NextParser == ParserInv /\ [Next]_vars => ParserInv'
<1> SUFFICES ASSUME ParserInv, [Next]_vars PROVE ParserInv'
  OBVIOUS
<1>0. input.size \in Nat
  BY RingTypes DEF ParserInv, ParserTypes
<1>1. CASE Feed
  BY <1>1, FeedStep
<1>2. CASE Write
  BY <1>2, WriteStep
<1>3. CASE DiscardNoise
  BY <1>0, <1>3, ResyncStep DEF DiscardNoise
<1>4. CASE DiscardBadHeader
  BY <1>0, <1>4, ResyncStep DEF DiscardBadHeader, HasHeader, HeaderSize
<1>5. CASE DiscardTooLong
  BY <1>0, <1>5, ResyncStep DEF DiscardTooLong, GoodHeader, HasHeader, HeaderSize
<1>6. CASE DiscardBadCrc
  BY <1>0, <1>6, ResyncStep DEF DiscardBadCrc, Complete, GoodHeader, HasHeader, HeaderSize
<1>7. CASE EmitFrame
  BY <1>7, EmitStep
<1>8. CASE CallbackFails
  BY <1>8, FailStep
<1>9. CASE DrainEnds
  BY <1>9, DrainEndsStep
<1>10. CASE UNCHANGED vars
  BY <1>10 DEF vars, ParserInv, ParserTypes, FeedIsLatest, HoldsStream, Ordered, LastWritten, Room,
     Draining
<1> QED
  BY <1>1, <1>2, <1>3, <1>4, <1>5, <1>6, <1>7, <1>8, <1>9, <1>10 DEF Next

(***************************************************************************)
(* The theorems                                                            *)
(***************************************************************************)
(* What the ring holds, what the call that runs has still to write and how *)
(* much failed calls may have left, for every stream and every way of      *)
(* reading it.                                                             *)
THEOREM ParserInvariance == Spec => []ParserInv
  BY InitParser, NextParser, PTL DEF Spec

(* devmgr_parser_feed never finds the ring full, and no byte is dropped    *)
(* until the reads of failed calls add up to more than the largest frame.  *)
THEOREM ParserHasRoom == Spec => []RoomForReads
<1>1. ParserInv => RoomForReads
  <2> SUFFICES ASSUME ParserInv PROVE RoomForReads
    OBVIOUS
  <2>1. input.size \in Nat /\ Capacity \in Nat
    BY RingTypes, Sizes DEF ParserInv, ParserTypes
  <2>2. pc = "write" => Capacity - input.size > 0
    BY <2>1 DEF ParserInv, Room
  <2> QED
    BY <2>2 DEF ParserInv, Room, Backlog, RoomForReads, RingSpace
<1> QED
  BY <1>1, ParserInvariance, PTL

(* Until a failed call drops bytes, the ring holds the last bytes written  *)
(* in the order of the stream, wherever it has wrapped round.              *)
THEOREM RingIsQueue == Spec => []RingKeepsOrder
<1>1. ParserInv => RingKeepsOrder
  <2> SUFFICES ASSUME ParserInv, dropped = {}
               PROVE  Contents(input) =
                        [i \in 1 .. input.size |-> (taken - Len(Rest)) - input.size + i]
    BY DEF RingKeepsOrder
  <2>1. Len(Rest) = Len(feed.data) - feed.offset
    BY RestOfFeed DEF ParserInv
  <2>2. \A i \in 1 .. input.size :
          Contents(input)[i] = (taken - Len(Rest)) - input.size + i
    BY <2>1 DEF ParserInv, Ordered, InOrder, LastWritten
  <2>3. Contents(input) = [i \in 1 .. input.size |-> Contents(input)[i]]
    BY DEF Contents
  <2> HIDE DEF Rest
  <2> QED
    BY <2>2, <2>3
<1> QED
  BY <1>1, ParserInvariance, PTL

(***************************************************************************)
(* What the statistics add up to                                           *)
(***************************************************************************)
StatsTypes ==
  /\ stats \in [bytes_received : Nat, frames_decoded : Nat, crc_errors : Nat,
                length_errors : Nat, discarded_bytes : Nat]
  /\ handed \in Nat

Accounting == ParserInv /\ StatsTypes /\ StatsAddUp

(* What is read from the front of the ring and no longer than its contents *)
(* is all there.                                                           *)
LEMMA EmittedLength ==
  ASSUME ParserInv, Emit
  PROVE  Len(Window) = FrameLength
<1>1. FrameLength \in 0 .. input.size /\ FrameLength \in Nat
  BY EmittedFrame
<1>2. input \in Rings
  BY DEF ParserInv, ParserTypes
<1> DEFINE n == FrameLength
<1> HIDE DEF n
<1>3. Window = [k \in 1 .. n |-> Contents(input)[k]]
  BY <1>1, <1>2, PeekContents DEF Window, n
<1>4. n \in Nat
  BY <1>1 DEF n
<1>5. Len([k \in 1 .. n |-> Contents(input)[k]]) = n
  BY <1>4
<1> QED
  BY <1>3, <1>5 DEF n

LEMMA SumsMoved ==
  ASSUME NEW r \in Nat, NEW d \in Nat, NEW h \in Nat, NEW s \in Nat, NEW n \in Nat,
         r = d + h + s
  PROVE  /\ r + n = d + h + (s + n)
         /\ r = (d + n) + h + (s - n)
         /\ r = d + (h + n) + (s - n)
  OBVIOUS

LEMMA StatsTyped ==
  ASSUME StatsTypes
  PROVE  /\ stats.bytes_received \in Nat /\ stats.discarded_bytes \in Nat
         /\ stats.frames_decoded \in Nat /\ stats.crc_errors \in Nat
         /\ stats.length_errors \in Nat /\ handed \in Nat
  BY DEF StatsTypes

(* A byte leaves the ring and is counted as discarded. *)
LEMMA ResyncAccounts ==
  ASSUME Accounting, NEW counted, Resync(counted), input.size >= 1,
         \/ counted = [stats EXCEPT !.discarded_bytes = @ + 1]
         \/ counted = [stats EXCEPT !.discarded_bytes = @ + 1, !.length_errors = @ + 1]
         \/ counted = [stats EXCEPT !.discarded_bytes = @ + 1, !.crc_errors = @ + 1]
  PROVE  Accounting'
<1>1. ParserInv' /\ input'.size = input.size - 1
  BY ResyncStep DEF Accounting
<1>2. stats' = counted /\ handed' = handed
  BY DEF Resync
<1>3. /\ stats.bytes_received \in Nat /\ stats.discarded_bytes \in Nat
      /\ stats.frames_decoded \in Nat /\ stats.crc_errors \in Nat
      /\ stats.length_errors \in Nat /\ handed \in Nat
  BY StatsTyped DEF Accounting
<1>4. /\ stats.discarded_bytes + 1 \in Nat /\ stats.length_errors + 1 \in Nat
      /\ stats.crc_errors + 1 \in Nat
  BY <1>3
<1>5. /\ StatsTypes' /\ stats'.bytes_received = stats.bytes_received
      /\ stats'.discarded_bytes = stats.discarded_bytes + 1
  BY <1>2, <1>4 DEF Accounting, StatsTypes
<1>6. input.size \in Nat
  BY RingTypes DEF Accounting, ParserInv, ParserTypes
<1>7. StatsAddUp'
  BY <1>1, <1>2, <1>3, <1>5, <1>6, SumsMoved DEF Accounting, StatsAddUp
<1> QED
  BY <1>1, <1>5, <1>7 DEF Accounting

(* A frame leaves the ring and is handed to the callback. *)
LEMMA EmitAccounts ==
  ASSUME Accounting, Emit, ParserInv', input'.size = input.size - FrameLength
  PROVE  Accounting'
<1>1. /\ stats' = [stats EXCEPT !.frames_decoded = @ + 1]
      /\ handed' = handed + Len(Window)
  BY DEF Emit
<1>2. Len(Window) = FrameLength /\ FrameLength \in Nat
  BY EmittedLength, EmittedFrame DEF Accounting
<1>3. /\ stats.bytes_received \in Nat /\ stats.discarded_bytes \in Nat
      /\ stats.frames_decoded \in Nat /\ handed \in Nat
  BY StatsTyped DEF Accounting
<1>4. stats.frames_decoded + 1 \in Nat /\ handed' \in Nat
  BY <1>1, <1>2, <1>3
<1>5. /\ StatsTypes' /\ stats'.bytes_received = stats.bytes_received
      /\ stats'.discarded_bytes = stats.discarded_bytes
  BY <1>1, <1>4 DEF Accounting, StatsTypes
<1>6. input.size \in Nat
  BY RingTypes DEF Accounting, ParserInv, ParserTypes
<1>7. StatsAddUp'
  <2>1. stats.bytes_received = stats.discarded_bytes + handed + input.size
    BY DEF Accounting, StatsAddUp
  <2>2. stats.bytes_received
          = stats.discarded_bytes + (handed + FrameLength) + (input.size - FrameLength)
    BY <1>2, <1>3, <1>6, <2>1, SumsMoved
  <2> QED
    BY <1>1, <1>2, <1>5, <2>2 DEF StatsAddUp
<1> QED
  BY <1>5, <1>7 DEF Accounting

LEMMA WriteAccounts ==
  ASSUME Accounting, Write
  PROVE  Accounting'
<1> DEFINE count == RingWritten(input, Rest)
<1>1. /\ stats' = [stats EXCEPT !.bytes_received = @ + count] /\ handed' = handed
      /\ input' = RingWrite(input, Rest)
  BY DEF Write
<1>2. ParserInv'
  BY WriteStep DEF Accounting
<1>3. Rest \in Seq(Nat) /\ input \in Rings
  BY RestOfFeed DEF Accounting, ParserInv, ParserTypes
<1>4. input.size \in Nat /\ input.size <= Capacity /\ Capacity \in Nat
  BY <1>3, RingTypes
<1>5. input'.size = input.size + count /\ count \in Nat
  <2>1. Len(Rest) \in Nat
    BY <1>3, LenProperties
  <2>2. count \in Nat
    BY <1>4, <2>1 DEF RingWritten, RingSpace, Minimum
  <2> QED
    BY <1>1, <2>2 DEF RingWrite
<1> HIDE DEF count
<1>6. stats.bytes_received \in Nat /\ stats.discarded_bytes \in Nat /\ handed \in Nat
  BY StatsTyped DEF Accounting
<1>7. stats.bytes_received + count \in Nat
  BY <1>5, <1>6
<1>8. /\ StatsTypes' /\ stats'.bytes_received = stats.bytes_received + count
      /\ stats'.discarded_bytes = stats.discarded_bytes
  BY <1>1, <1>7 DEF Accounting, StatsTypes
<1>9. StatsAddUp'
  BY <1>1, <1>4, <1>5, <1>6, <1>8, SumsMoved DEF Accounting, StatsAddUp
<1> QED
  BY <1>2, <1>8, <1>9 DEF Accounting

LEMMA NextAccounts == Accounting /\ [Next]_vars => Accounting'
<1> SUFFICES ASSUME Accounting, [Next]_vars
             PROVE  Accounting'
  OBVIOUS
<1>1. ParserInv /\ ParserInv' /\ input.size \in Nat
  BY NextParser, RingTypes DEF Accounting, ParserInv, ParserTypes
<1>2. CASE UNCHANGED <<stats, handed, input>>
  BY <1>1, <1>2 DEF Accounting, StatsTypes, StatsAddUp
<1>3. CASE Write
  BY <1>3, WriteAccounts
<1>4. CASE DiscardNoise
  BY <1>1, <1>4, ResyncAccounts DEF DiscardNoise
<1>5. CASE DiscardBadHeader
  BY <1>1, <1>5, ResyncAccounts DEF DiscardBadHeader, HasHeader, HeaderSize
<1>6. CASE DiscardTooLong
  BY <1>1, <1>6, ResyncAccounts DEF DiscardTooLong, GoodHeader, HasHeader, HeaderSize
<1>7. CASE DiscardBadCrc
  BY <1>1, <1>7, ResyncAccounts
  DEF DiscardBadCrc, Complete, GoodHeader, HasHeader, HeaderSize
<1>8. CASE EmitFrame
  BY <1>1, <1>8, EmitStep, EmitAccounts DEF EmitFrame
<1>9. CASE CallbackFails
  BY <1>1, <1>9, FailStep, EmitAccounts DEF CallbackFails
<1>10. CASE Feed \/ DrainEnds \/ UNCHANGED vars
  BY <1>2, <1>10 DEF Feed, DrainEnds, vars
<1> QED
  BY <1>3, <1>4, <1>5, <1>6, <1>7, <1>8, <1>9, <1>10 DEF Next

(* What devmgr_parser_get_stats reports adds up at every moment: each byte *)
(* received was discarded, was handed over inside a frame or is in the     *)
(* ring; and until a failed call drops bytes the ring is in order.         *)
THEOREM ParserAccounts == Spec => []BytesAccountedFor
<1>1. Init => Accounting
  <2> SUFFICES ASSUME Init
               PROVE  Accounting
    OBVIOUS
  <2>1. stats = NoStats /\ handed = 0 /\ input.size = 0
    BY DEF Init, RingInit
  <2>2. 0 \in Nat
    OBVIOUS
  <2>3. StatsTypes
    BY <2>1, <2>2 DEF NoStats, StatsTypes
  <2>4. StatsAddUp
    BY <2>1 DEF NoStats, StatsAddUp
  <2> QED
    BY <2>3, <2>4, InitParser DEF Accounting
<1>2. Accounting => StatsAddUp
  BY DEF Accounting
<1>3. RingKeepsOrder /\ StatsAddUp => BytesAccountedFor
  BY DEF BytesAccountedFor
<1> QED
  BY <1>1, <1>2, <1>3, NextAccounts, RingIsQueue, PTL DEF Spec

(***************************************************************************)
(* What is delivered                                                       *)
(***************************************************************************)
(* The n units of stream s from position p on. *)
UnitsAt(s, p, n) == [i \in 1 .. n |-> s.units[p + i - 1]]

(* What parser_drain takes for a frame when p is the oldest byte. *)
LooksLikeFrame(s, p, n) ==
  /\ n = HeaderSize + s.units[p + 3] + CrcSize /\ s.units[p + 3] <= MaxPayload
  /\ p + n - 1 <= Len(s.units)
  /\ UnitsAt(s, p, 2) = Magic /\ s.units[p + 2] \in GoodTags
  /\ Decodes(UnitsAt(s, p, n))

(* The frames of a stream are as devmgr_frame_encode makes them and do not *)
(* overlap, and chance produces no others: what else looks like a frame is *)
(* quoted inside a frame or lies in damaged bytes.                         *)
WellFormed(s) ==
  /\ \A f \in s.frames :
       /\ f[1] \in Nat /\ f[2] \in Nat /\ 1 <= f[1] /\ f[1] <= f[2]
       /\ LooksLikeFrame(s, f[1], f[2] - f[1] + 1)
       /\ Span(f) \intersect Damaged(s) = {}
       /\ \A g \in s.frames : f = g \/ f[2] < g[1] \/ g[2] < f[1]
  /\ \A p \in 1 .. Len(s.units), n \in 1 .. MaxFrame :
       p + 4 <= Len(s.units) /\ LooksLikeFrame(s, p, n) =>
         \/ \E f \in s.frames : f[1] = p /\ f[2] = p + n - 1
         \/ p .. p + n - 1 \subseteq Damaged(s)
         \/ \E f \in s.frames : f[1] < p /\ p + n - 1 <= f[2]

OnlyFramesLookLikeFrames == \A s \in Streams : WellFormed(s)

(* What the failed calls may have read is no more than a frame, so nothing *)
(* is ever dropped.                                                        *)
FewFailures == MaxFailures * MaxRead <= MaxFrame

(* The oldest byte that has not left the parser. *)
Oldest == LastWritten - input.size + 1

Delivering ==
  dropped = {} =>
    /\ \A frame \in stream.frames : frame[1] < Oldest => WasDelivered(frame)
    /\ \A frame \in stream.frames : ~(frame[1] < Oldest /\ Oldest <= frame[2])
    /\ \A window \in delivered :
         \/ \E frame \in stream.frames : window[1] = frame[1] /\ Bytes(window) = Span(frame)
         \/ Bytes(window) \subseteq Damaged(stream)

(***************************************************************************)
(* What the parser sees from the oldest byte on                            *)
(***************************************************************************)
LEMMA RunOfBytes ==
  ASSUME NEW oldest \in Int, NEW size \in Nat, NEW last \in Nat, NEW length \in Nat,
         oldest + size = last + 1, last <= length
  PROVE  /\ \A i \in Int : last - size + i = oldest + i - 1
         /\ \A n \in Nat : oldest >= 1 /\ n <= size =>
              oldest \in Nat /\ oldest + n - 1 <= length
  OBVIOUS

LEMMA OldestByte ==
  ASSUME ParserInv
  PROVE  /\ input.size \in Nat /\ taken \in Nat /\ Len(stream.units) \in Nat
         /\ LastWritten \in Nat /\ LastWritten <= taken /\ taken <= Len(stream.units)
         /\ Oldest \in Int /\ Oldest + input.size = LastWritten + 1
         /\ stream.units \in Seq(Nat)
<1>1. /\ input \in Rings /\ taken \in Nat /\ taken <= Len(stream.units) /\ stream \in Streams
      /\ feed.data \in Seq(Nat) /\ feed.offset \in Nat
      /\ feed.offset <= Len(feed.data) /\ Len(feed.data) <= taken
  BY DEF ParserInv, ParserTypes, FeedIsLatest
<1>2. input.size \in Nat /\ stream.units \in Seq(Nat) /\ Len(feed.data) \in Nat
  BY <1>1, RingTypes, ParserAssumption
<1>3. Len(stream.units) \in Nat
  BY <1>2
<1>4. LastWritten \in Nat /\ LastWritten <= taken
  BY <1>1, <1>2 DEF LastWritten
<1> QED
  BY <1>1, <1>2, <1>3, <1>4 DEF Oldest

LEMMA ContentsInOrder ==
  ASSUME ParserInv, dropped = {}
  PROVE  /\ \A i \in 1 .. input.size : Contents(input)[i] = Oldest + i - 1
         /\ input.size > 0 => Oldest >= 1
<1>1. input.size \in Nat /\ LastWritten \in Nat /\ Oldest \in Int
      /\ Oldest + input.size = LastWritten + 1 /\ taken \in Nat
  BY OldestByte
<1>2. ASSUME NEW i \in 1 .. input.size PROVE Contents(input)[i] = Oldest + i - 1
  <2>1. Contents(input)[i] = LastWritten - input.size + i
    BY DEF ParserInv, Ordered, InOrder
  <2> QED
    BY <1>1, <2>1, RunOfBytes
<1>3. input.size > 0 => Contents(input)[1] \in 1 .. taken /\ 1 \in 1 .. input.size
  BY <1>1 DEF ParserInv, HoldsStream, Within
<1>4. input.size > 0 => Contents(input)[1] = Oldest + 1 - 1
  BY <1>2, <1>3
<1>5. input.size > 0 => Oldest >= 1
  BY <1>1, <1>3, <1>4
<1> QED
  BY <1>2, <1>5

(* devmgr_ring_peek shows the parser the stream itself. *)
LEMMA PeekShowsStream ==
  ASSUME ParserInv, dropped = {}, NEW n \in Nat, n <= input.size
  PROVE  /\ RingPeek(input, 0, n) = [k \in 1 .. n |-> Oldest + k - 1]
         /\ Value(RingPeek(input, 0, n)) = UnitsAt(stream, Oldest, n)
         /\ Len(UnitsAt(stream, Oldest, n)) = n
<1> DEFINE window == [k \in 1 .. n |-> Oldest + k - 1]
<1>1. RingPeek(input, 0, n) = [k \in 1 .. n |-> Contents(input)[k]]
  <2>1. n \in 0 .. input.size /\ input \in Rings
    BY OldestByte DEF ParserInv, ParserTypes
  <2> QED
    BY <2>1, PeekContents
<1>2. \A k \in 1 .. n : Contents(input)[k] = Oldest + k - 1
  <2>1. \A k \in 1 .. n : k \in 1 .. input.size
    BY OldestByte
  <2> QED
    BY <2>1, ContentsInOrder
<1>3. RingPeek(input, 0, n) = window
  BY <1>1, <1>2
<1>4. Len(window) = n
  OBVIOUS
<1>5. Value(window) = UnitsAt(stream, Oldest, n)
  <2>1. \A i \in 1 .. n : window[i] = Oldest + i - 1
    OBVIOUS
  <2> HIDE DEF window
  <2> QED
    BY <1>4, <2>1 DEF Value, UnitsAt
<1>6. Len(UnitsAt(stream, Oldest, n)) = n
  BY DEF UnitsAt
<1> QED
  BY <1>3, <1>5, <1>6

LEMMA HeaderShowsStream ==
  ASSUME ParserInv, dropped = {}, input.size >= 4
  PROVE  /\ Header[3] = stream.units[Oldest + 2] /\ Header[4] = stream.units[Oldest + 3]
         /\ Oldest + 3 <= Len(stream.units) /\ Oldest >= 1
<1>1. Header = UnitsAt(stream, Oldest, 4)
  BY OldestByte, PeekShowsStream DEF Header, HeaderSize
<1>2. Oldest \in Int /\ Oldest + 3 - 1 = Oldest + 2 /\ Oldest + 4 - 1 = Oldest + 3
  BY OldestByte
<1>3. Oldest + 3 <= Len(stream.units) /\ Oldest >= 1
  BY OldestByte, ContentsInOrder
<1> QED
  BY <1>1, <1>2, <1>3 DEF UnitsAt

(* The first byte of a frame is not discarded. *)
LEMMA FrameIsRecognised ==
  ASSUME ParserInv, dropped = {}, WellFormed(stream), NEW f \in stream.frames, f[1] = Oldest
  PROVE  /\ input.size >= 2 => HasMagic
         /\ HasHeader => GoodHeader
         /\ GoodHeader => LengthFits /\ FrameLength = f[2] - f[1] + 1
         /\ Complete => Decodes(Value(Window))
<1> DEFINE n == f[2] - f[1] + 1
<1>1. LooksLikeFrame(stream, Oldest, n)
  BY DEF WellFormed
<1> HIDE DEF n
<1>2. /\ n = HeaderSize + stream.units[Oldest + 3] + CrcSize
      /\ stream.units[Oldest + 3] <= MaxPayload
      /\ UnitsAt(stream, Oldest, 2) = Magic /\ stream.units[Oldest + 2] \in GoodTags
      /\ Decodes(UnitsAt(stream, Oldest, n))
  BY <1>1 DEF LooksLikeFrame
<1>3. input.size >= 2 => HasMagic
  BY <1>2, OldestByte, PeekShowsStream DEF HasMagic
<1>4. HasHeader => GoodHeader
  BY <1>2, HeaderShowsStream DEF HasHeader, GoodHeader, HeaderSize
<1>5. GoodHeader => LengthFits /\ FrameLength = n
  BY <1>2, HeaderShowsStream DEF HasHeader, GoodHeader, HeaderSize, LengthFits, FrameLength
<1>6. ASSUME Complete PROVE Decodes(Value(Window))
  <2>1. FrameLength = n /\ FrameLength \in Nat /\ FrameLength <= input.size
    <3>1. GoodHeader /\ LengthFits /\ input.size >= FrameLength
      BY <1>6 DEF Complete
    <3> QED
      BY <1>5, <3>1, FrameFits, OldestByte
  <2>2. Value(Window) = UnitsAt(stream, Oldest, n)
    BY <2>1, PeekShowsStream DEF Window
  <2> QED
    BY <1>2, <2>2
<1> QED
  BY <1>3, <1>4, <1>5, <1>6 DEF n

(* What is emitted is a run of the stream that looks like a frame. *)
LEMMA EmittedRun ==
  ASSUME ParserInv, dropped = {}, Complete, Decodes(Value(Window))
  PROVE  /\ LooksLikeFrame(stream, Oldest, FrameLength)
         /\ FrameLength \in 1 .. MaxFrame /\ Oldest \in 1 .. Len(stream.units)
         /\ Oldest + 4 <= Len(stream.units)
         /\ Window[1] = Oldest /\ Bytes(Window) = Oldest .. Oldest + FrameLength - 1
<1> DEFINE n == FrameLength
<1>1. GoodHeader /\ LengthFits /\ input.size >= n /\ HasHeader /\ HasMagic /\ input.size >= 4
  BY DEF Complete, GoodHeader, HasHeader, HeaderSize
<1>2. n \in Nat /\ 1 <= n /\ n <= MaxFrame
  BY <1>1, FrameFits
<1>3. Header[3] = stream.units[Oldest + 2] /\ Header[4] = stream.units[Oldest + 3]
      /\ Oldest >= 1
  BY <1>1, HeaderShowsStream
<1>4. n = HeaderSize + stream.units[Oldest + 3] + CrcSize /\ stream.units[Oldest + 3] <= MaxPayload
      /\ stream.units[Oldest + 2] \in GoodTags
  BY <1>1, <1>3 DEF FrameLength, LengthFits, GoodHeader
<1> HIDE DEF n
<1>5. /\ Window = [k \in 1 .. n |-> Oldest + k - 1]
      /\ Value(Window) = UnitsAt(stream, Oldest, n)
  BY <1>1, <1>2, PeekShowsStream, OldestByte DEF Window, n
<1>6. UnitsAt(stream, Oldest, 2) = Magic
  BY <1>1, PeekShowsStream, OldestByte DEF HasMagic
<1>7. Oldest \in Nat /\ Oldest + n - 1 <= Len(stream.units) /\ n >= 5
  <2>1. Oldest \in Nat /\ Oldest + n - 1 <= Len(stream.units)
    <3>1. LastWritten <= Len(stream.units) /\ n <= input.size
      BY <1>1, <1>2, OldestByte
    <3> QED
      BY <1>2, <1>3, <3>1, OldestByte, RunOfBytes
  <2>2. Oldest + 3 \in 1 .. Len(stream.units)
    BY <1>1, <2>1, HeaderShowsStream, OldestByte
  <2>3. stream.units[Oldest + 3] \in Nat
    BY <2>2, OldestByte, ElementOfSeq
  <2> QED
    BY <1>4, <2>1, <2>3, SMTT(40) DEF HeaderSize, CrcSize
<1>8. LooksLikeFrame(stream, Oldest, n)
  BY <1>4, <1>5, <1>6, <1>7 DEF LooksLikeFrame
<1>9. Window[1] = Oldest
  BY <1>2, <1>5, <1>7
<1>10. Bytes(Window) = Oldest .. Oldest + n - 1
  <2>1. Len(Window) = n
    BY <1>2, <1>5
  <2>2. Bytes(Window) = {Oldest + k - 1 : k \in 1 .. n}
    BY <1>5, <2>1 DEF Bytes
  <2>3. ASSUME NEW x \in Oldest .. Oldest + n - 1 PROVE x \in {Oldest + k - 1 : k \in 1 .. n}
    <3>1. x - Oldest + 1 \in 1 .. n /\ x = Oldest + (x - Oldest + 1) - 1
      BY <1>2, <1>7
    <3> QED
      BY <3>1
  <2>4. \A k \in 1 .. n : Oldest + k - 1 \in Oldest .. Oldest + n - 1
    BY <1>2, <1>7
  <2> QED
    BY <2>2, <2>3, <2>4
<1>11. Oldest \in 1 .. Len(stream.units) /\ Oldest + 4 <= Len(stream.units) /\ n \in 1 .. MaxFrame
  <2>1. Len(stream.units) \in Nat
    BY OldestByte
  <2> QED
    BY <1>2, <1>3, <1>7, <2>1, Sizes
<1> QED
  BY <1>8, <1>9, <1>10, <1>11 DEF n

(***************************************************************************)
(* Each step keeps what is delivered right                                 *)
(***************************************************************************)
LEMMA NothingLeaves ==
  ASSUME Delivering, UNCHANGED <<stream, delivered>>, Oldest' = Oldest,
         dropped' = {} => dropped = {}
  PROVE  Delivering'
  BY DEF Delivering, WasDelivered

(* A byte that is discarded is not the first of a frame, and no frame      *)
(* begins before it.                                                       *)
LEMMA ByteLeaves ==
  ASSUME ParserInv, WellFormed(stream), Delivering,
         UNCHANGED <<stream, delivered, dropped>>, Oldest' = Oldest + 1,
         dropped = {} => \A f \in stream.frames : f[1] # Oldest
  PROVE  Delivering'
<1> SUFFICES ASSUME dropped = {} PROVE Delivering'
  BY DEF Delivering
<1>1. Oldest \in Int /\ \A f \in stream.frames : f[1] \in Nat /\ f[2] \in Nat
  BY OldestByte DEF WellFormed
<1>2. ASSUME NEW f \in stream.frames
      PROVE  /\ f[1] < Oldest' => f[1] < Oldest
             /\ f[1] < Oldest' /\ Oldest' <= f[2] => f[1] < Oldest /\ Oldest <= f[2]
  BY <1>1
<1>3. /\ \A f \in stream.frames : f[1] < Oldest => WasDelivered(f)
      /\ \A f \in stream.frames : ~(f[1] < Oldest /\ Oldest <= f[2])
  BY DEF Delivering
<1>4. \A f \in stream'.frames : f[1] < Oldest' => WasDelivered(f)'
  BY <1>2, <1>3 DEF WasDelivered
<1>5. \A f \in stream'.frames : ~(f[1] < Oldest' /\ Oldest' <= f[2])
  BY <1>2, <1>3
<1> QED
  BY <1>4, <1>5 DEF Delivering

(* A run that looks like a frame and begins where no frame has begun is a  *)
(* frame or lies in damaged bytes, so no other frame begins in it.         *)
LEMMA FrameLeaves ==
  ASSUME ParserInv, WellFormed(stream), Delivering, Emit, UNCHANGED stream,
         dropped' = {} => dropped = {} /\ Oldest' = Oldest + FrameLength
  PROVE  Delivering'
<1> SUFFICES ASSUME dropped' = {} PROVE Delivering'
  BY DEF Delivering
<1> DEFINE n == FrameLength
<1>0. dropped = {} /\ Oldest' = Oldest + n
  OBVIOUS
<1>1. /\ LooksLikeFrame(stream, Oldest, n) /\ n \in 1 .. MaxFrame
      /\ Oldest \in 1 .. Len(stream.units) /\ Oldest + 4 <= Len(stream.units)
      /\ Window[1] = Oldest /\ Bytes(Window) = Oldest .. Oldest + n - 1
  BY <1>0, EmittedRun DEF Emit
<1>2. delivered' = delivered \union {Window}
  BY DEF Emit
<1> HIDE DEF n
<1>3. \/ \E f \in stream.frames : f[1] = Oldest /\ f[2] = Oldest + n - 1
      \/ Oldest .. Oldest + n - 1 \subseteq Damaged(stream)
      \/ \E f \in stream.frames : f[1] < Oldest /\ Oldest + n - 1 <= f[2]
  BY <1>1 DEF WellFormed
<1>4. Oldest \in Nat /\ n \in Nat /\ n >= 1
  BY <1>1, OldestByte, Sizes
<1>5. /\ \A f \in stream.frames : f[1] < Oldest => WasDelivered(f)
      /\ \A f \in stream.frames : ~(f[1] < Oldest /\ Oldest <= f[2])
      /\ \A window \in delivered :
           \/ \E f \in stream.frames : window[1] = f[1] /\ Bytes(window) = Span(f)
           \/ Bytes(window) \subseteq Damaged(stream)
  BY <1>0 DEF Delivering
<1>6. \A f \in stream.frames :
        /\ f[1] \in Nat /\ f[2] \in Nat /\ f[1] <= f[2]
        /\ Span(f) \intersect Damaged(stream) = {}
        /\ \A g \in stream.frames : f = g \/ f[2] < g[1] \/ g[2] < f[1]
  BY DEF WellFormed
<1>7. \A f \in stream.frames : WasDelivered(f) => WasDelivered(f)'
  BY <1>2 DEF WasDelivered
<1>8. CASE \E f \in stream.frames : f[1] = Oldest /\ f[2] = Oldest + n - 1
  <2>1. PICK g \in stream.frames : g[1] = Oldest /\ g[2] = Oldest + n - 1
    BY <1>8
  <2>2. Window[1] = g[1] /\ Bytes(Window) = Span(g)
    BY <1>1, <2>1 DEF Span
  <2>3. WasDelivered(g)'
    BY <1>2, <2>2 DEF WasDelivered
  <2>4. ASSUME NEW f \in stream.frames
        PROVE  /\ f[1] < Oldest' => f = g \/ f[1] < Oldest
               /\ ~(f[1] < Oldest' /\ Oldest' <= f[2])
    BY <1>0, <1>4, <1>6, <2>1
  <2>5. \A f \in stream'.frames : f[1] < Oldest' => WasDelivered(f)'
    BY <1>5, <1>7, <2>3, <2>4
  <2>6. \A window \in delivered' :
           \/ \E f \in stream'.frames : window[1] = f[1] /\ Bytes(window) = Span(f)
           \/ Bytes(window) \subseteq Damaged(stream')
    BY <1>2, <1>5, <2>2
  <2> QED
    BY <2>4, <2>5, <2>6 DEF Delivering
<1>9. CASE Oldest .. Oldest + n - 1 \subseteq Damaged(stream)
  <2>1. ASSUME NEW f \in stream.frames, NEW x \in Nat, f[1] <= x, x <= f[2]
        PROVE  ~(Oldest <= x /\ x <= Oldest + n - 1)
    <3>1. x \in Span(f)
      BY <1>6, <2>1 DEF Span
    <3>2. x \notin Oldest .. Oldest + n - 1
      BY <1>6, <1>9, <3>1
    <3> QED
      BY <1>4, <3>2
  <2>2. ASSUME NEW f \in stream.frames
        PROVE  /\ f[1] < Oldest' => f[1] < Oldest
               /\ ~(f[1] < Oldest' /\ Oldest' <= f[2])
    <3>1. ~(Oldest <= f[1] /\ f[1] <= Oldest + n - 1)
      BY <1>6, <2>1
    <3>2. f[1] < Oldest' => f[1] < Oldest
      BY <1>0, <1>4, <1>6, <3>1
    <3>3. ~(f[1] < Oldest /\ Oldest <= f[2])
      BY <1>5
    <3> QED
      BY <1>0, <1>4, <1>6, <3>2, <3>3
  <2>3. \A f \in stream'.frames : f[1] < Oldest' => WasDelivered(f)'
    BY <1>5, <1>7, <2>2
  <2>4. \A window \in delivered' :
           \/ \E f \in stream'.frames : window[1] = f[1] /\ Bytes(window) = Span(f)
           \/ Bytes(window) \subseteq Damaged(stream')
    BY <1>1, <1>2, <1>5, <1>9
  <2> QED
    BY <2>2, <2>3, <2>4 DEF Delivering
<1>10. CASE \E f \in stream.frames : f[1] < Oldest /\ Oldest + n - 1 <= f[2]
  <2>1. PICK f \in stream.frames : f[1] < Oldest /\ Oldest + n - 1 <= f[2]
    BY <1>10
  <2>2. Oldest <= f[2]
    BY <1>4, <1>6, <2>1
  <2> QED
    BY <1>5, <2>1, <2>2
<1> QED
  BY <1>3, <1>8, <1>9, <1>10

LEMMA InitDelivers ==
  ASSUME Init, WellFormed(stream)
  PROVE  Delivering
<1>1. ParserInv
  BY InitParser
<1>2. taken = 0 /\ feed = NoFeed /\ input.size = 0 /\ delivered = {}
  BY DEF Init, RingInit
<1>3. Len(feed.data) = 0 /\ feed.offset = 0
  BY <1>2, EmptySeq DEF NoFeed
<1>4. Oldest = 1
  BY <1>2, <1>3 DEF Oldest, LastWritten
<1>5. \A f \in stream.frames : f[1] \in Nat /\ ~(f[1] < 1)
  BY DEF WellFormed
<1> QED
  BY <1>2, <1>4, <1>5 DEF Delivering

(* No frame begins where a byte is discarded. *)
LEMMA DiscardedIsNotFirst ==
  ASSUME ParserInv, WellFormed(stream), dropped = {},
         \/ input.size >= 2 /\ ~HasMagic
         \/ HasHeader /\ ~GoodHeader
         \/ GoodHeader /\ ~LengthFits
         \/ Complete /\ ~Decodes(Value(Window))
  PROVE  \A f \in stream.frames : f[1] # Oldest
  BY FrameIsRecognised

LEMMA ResyncDelivers ==
  ASSUME ParserInv, WellFormed(stream), Delivering, NEW counted, Resync(counted),
         \/ input.size >= 2 /\ ~HasMagic
         \/ HasHeader /\ ~GoodHeader
         \/ GoodHeader /\ ~LengthFits
         \/ Complete /\ ~Decodes(Value(Window))
  PROVE  Delivering'
<1>1. input.size \in Nat /\ LastWritten \in Nat
  BY OldestByte
<1>2. input.size >= 1
  BY <1>1 DEF HasHeader, GoodHeader, Complete, HeaderSize
<1>3. LastWritten' = LastWritten /\ input'.size = input.size - 1
  BY <1>2, ResyncStep
<1>4. Oldest' = Oldest + 1
  BY <1>1, <1>3 DEF Oldest
<1>5. dropped = {} => \A f \in stream.frames : f[1] # Oldest
  BY DiscardedIsNotFirst
<1> QED
  BY <1>4, <1>5, ByteLeaves DEF Resync, callerVars

LEMMA NextDelivers ==
  ASSUME ParserInv, WellFormed(stream), Delivering, [Next]_vars
  PROVE  Delivering'
<1>0. input.size \in Nat /\ LastWritten \in Nat /\ Oldest = LastWritten - input.size + 1
  BY OldestByte DEF Oldest
<1>1. CASE Feed
  <2>1. Oldest' = Oldest
    BY <1>1, FeedStep DEF Oldest, Feed
  <2> QED
    BY <1>1, <2>1, NothingLeaves DEF Feed
<1>2. CASE Write
  <2>1. Oldest' = Oldest
    BY <1>2, WriteStep DEF Oldest
  <2> QED
    BY <1>2, <2>1, NothingLeaves DEF Write, callerVars
<1>3. CASE DiscardNoise
  BY <1>3, ResyncDelivers DEF DiscardNoise
<1>4. CASE DiscardBadHeader
  BY <1>4, ResyncDelivers DEF DiscardBadHeader
<1>5. CASE DiscardTooLong
  BY <1>5, ResyncDelivers DEF DiscardTooLong
<1>6. CASE DiscardBadCrc
  BY <1>6, ResyncDelivers DEF DiscardBadCrc
<1>7. CASE EmitFrame
  <2>1. LastWritten' = LastWritten /\ input'.size = input.size - FrameLength
    BY <1>7, EmitStep
  <2>2. Emit /\ UNCHANGED <<stream, dropped>> /\ FrameLength \in Nat
    BY <1>0, <1>7, EmittedFrame DEF EmitFrame, callerVars
  <2>3. Oldest' = Oldest + FrameLength
    BY <1>0, <2>1, <2>2 DEF Oldest
  <2> QED
    BY <2>2, <2>3, FrameLeaves
<1>8. CASE CallbackFails
  <2>1. /\ input'.size = input.size - FrameLength
        /\ dropped' = {} => dropped = {} /\ LastWritten' = LastWritten
    BY <1>8, FailStep
  <2>2. Emit /\ UNCHANGED stream /\ FrameLength \in Nat
    BY <1>0, <1>8, EmittedFrame DEF CallbackFails, callerVars
  <2>3. dropped' = {} => dropped = {} /\ Oldest' = Oldest + FrameLength
    BY <1>0, <2>1, <2>2 DEF Oldest
  <2> QED
    BY <2>2, <2>3, FrameLeaves
<1>9. CASE DrainEnds
  <2>1. Oldest' = Oldest
    BY <1>9, DrainEndsStep DEF Oldest, DrainEnds
  <2> QED
    BY <1>9, <2>1, NothingLeaves DEF DrainEnds, callerVars
<1>10. CASE UNCHANGED vars
  BY <1>10, NothingLeaves DEF vars, Oldest, LastWritten
<1> QED
  BY <1>1, <1>2, <1>3, <1>4, <1>5, <1>6, <1>7, <1>8, <1>9, <1>10 DEF Next

(* As long as no byte was dropped: every frame that begins before the      *)
(* oldest byte was delivered, the oldest byte is never inside a frame, and *)
(* what was delivered are frames, or lies in damaged bytes.                *)
THEOREM ParserDelivers ==
  OnlyFramesLookLikeFrames => (Spec => [](ParserInv /\ Delivering))
<1> SUFFICES ASSUME OnlyFramesLookLikeFrames
             PROVE  Spec => [](ParserInv /\ Delivering)
  OBVIOUS
<1>1. Init => ParserInv /\ Delivering
  BY InitParser, InitDelivers DEF Init, OnlyFramesLookLikeFrames
<1>2. ParserInv /\ Delivering /\ [Next]_vars => (ParserInv /\ Delivering)'
  <2> SUFFICES ASSUME ParserInv, Delivering, [Next]_vars PROVE Delivering'
    BY NextParser
  <2>1. WellFormed(stream)
    BY DEF OnlyFramesLookLikeFrames, ParserInv, ParserTypes
  <2> QED
    BY <2>1, NextDelivers
<1> QED
  BY <1>1, <1>2, PTL DEF Spec

(* Few enough failures drop nothing. *)
LEMMA FewFailuresDropNothing ==
  ASSUME ParserInv, FewFailures
  PROVE  dropped = {}
<1>1. failures \in Nat /\ failures <= MaxFailures /\ MaxFailures \in Nat /\ MaxRead \in Nat
  BY ParserAssumption, Sizes DEF ParserInv, ParserTypes
<1>2. failures * MaxRead <= MaxFailures * MaxRead
  BY <1>1
<1>3. failures * MaxRead \in Nat /\ MaxFailures * MaxRead \in Nat /\ MaxFrame \in Nat
  BY <1>1, Sizes
<1>4. failures * MaxRead <= MaxFrame
  BY <1>2, <1>3 DEF FewFailures
<1> QED
  BY <1>4 DEF ParserInv, Room, Backlog

(* Where byte x of the stream is, in the ring or behind it. *)
LEMMA BytesOfRun ==
  ASSUME NEW oldest \in Int, NEW size \in Nat, NEW last \in Nat, NEW x \in Nat,
         oldest + size = last + 1, oldest <= x, x <= last
  PROVE  x - oldest + 1 \in 1 .. size /\ oldest + (x - oldest + 1) - 1 = x
  OBVIOUS

(* An undamaged frame is never skipped, whatever precedes it and however   *)
(* the stream is cut into reads: when its first byte has left the parser   *)
(* the frame has been handed to the callback.  Chance must make no frames, *)
(* and too few calls fail to drop a byte.                                  *)
THEOREM ParserLosesNoFrame ==
  OnlyFramesLookLikeFrames /\ FewFailures => (Spec => []NoFrameLost)
<1> SUFFICES ASSUME OnlyFramesLookLikeFrames, FewFailures
             PROVE  Spec => []NoFrameLost
  OBVIOUS
<1>1. ParserInv /\ Delivering => NoFrameLost
  <2> SUFFICES ASSUME ParserInv, Delivering PROVE NoFrameLost
    OBVIOUS
  <2>0. taken \in Nat /\ \A f \in stream.frames : f[1] \in Nat
    BY OldestByte DEF ParserInv, ParserTypes, OnlyFramesLookLikeFrames, WellFormed
  <2> SUFFICES ASSUME NEW f \in stream.frames, f[1] <= taken, f[1] \notin Waiting
               PROVE  WasDelivered(f)
    BY <2>0 DEF NoFrameLost
  <2>1. dropped = {} /\ f[1] \in Nat
    BY <2>0, FewFailuresDropNothing
  <2>2. CASE f[1] < Oldest
    BY <2>1, <2>2 DEF Delivering
  <2>3. CASE Oldest <= f[1] /\ f[1] <= LastWritten
    <3> DEFINE i == f[1] - Oldest + 1
    <3>1. i \in 1 .. input.size /\ Oldest + i - 1 = f[1]
      BY <2>1, <2>3, OldestByte, BytesOfRun, SMTT(40)
    <3>2. Contents(input)[i] = f[1]
      BY <2>1, <3>1, ContentsInOrder
    <3>3. Len(Contents(input)) = input.size
      BY OldestByte DEF Contents
    <3> HIDE DEF i
    <3> QED
      BY <3>1, <3>2, <3>3 DEF Waiting, Bytes
  <2>4. CASE LastWritten < f[1]
    <3> DEFINE j == f[1] - LastWritten
    <3>1. /\ Len(Rest) = Len(feed.data) - feed.offset
          /\ Len(feed.data) \in Nat /\ feed.offset \in Nat
          /\ \A k \in 1 .. Len(feed.data) - feed.offset :
               Rest[k] = taken - Len(feed.data) + feed.offset + k
      BY RestOfFeed DEF ParserInv
    <3>2. LastWritten = taken - (Len(feed.data) - feed.offset) /\ taken \in Nat
      BY OldestByte DEF LastWritten
    <3>0. Len(feed.data) \in Nat /\ feed.offset \in Nat
      BY <3>1
    <3>3. /\ j \in 1 .. Len(feed.data) - feed.offset
          /\ taken - Len(feed.data) + feed.offset + j = f[1]
      BY <2>1, <2>4, <3>0, <3>2, SMTT(40)
    <3> HIDE DEF j
    <3>4. Rest[j] = f[1] /\ j \in 1 .. Len(Rest)
      BY <3>1, <3>3
    <3> QED
      BY <3>4 DEF Waiting, Bytes
  <2> QED
    BY <2>1, <2>2, <2>3, <2>4, OldestByte
<1> QED
  BY <1>1, ParserDelivers, PTL

(* Nothing but the frames that were sent is handed over, except out of     *)
(* bytes that were damaged; under the same hypotheses.                     *)
THEOREM ParserInventsNoFrame ==
  OnlyFramesLookLikeFrames /\ FewFailures => (Spec => []OnlyFramesSent)
<1> SUFFICES ASSUME OnlyFramesLookLikeFrames, FewFailures
             PROVE  Spec => []OnlyFramesSent
  OBVIOUS
<1>1. ParserInv /\ Delivering => OnlyFramesSent
  BY FewFailuresDropNothing DEF Delivering, OnlyFramesSent
<1> QED
  BY <1>1, ParserDelivers, PTL

(* A damaged length makes the parser wait, and every later frame with it,  *)
(* but for less than the largest frame; until a callback fails, and if     *)
(* chance makes no frames.                                                 *)
THEOREM ParserDeliversInTime ==
  OnlyFramesLookLikeFrames => (Spec => []DeliveredInTime)
<1> SUFFICES ASSUME OnlyFramesLookLikeFrames
             PROVE  Spec => []DeliveredInTime
  OBVIOUS
<1>1. ParserInv /\ Delivering => DeliveredInTime
  <2> SUFFICES ASSUME ParserInv, Delivering, pc = "idle", failures = 0,
                      NEW f \in stream.frames, f[1] + MaxFrame - 1 <= taken
               PROVE  WasDelivered(f)
    BY DEF DeliveredInTime
  <2>1. Backlog(failures) = 0
    BY Sizes DEF Backlog
  <2>2. dropped = {} /\ input.size < MaxFrame
    BY <2>1, Sizes DEF ParserInv, Room
  <2>3. LastWritten = taken
    <3>1. Len(feed.data) = 0 /\ feed.offset = 0
      BY EmptySeq DEF ParserInv, FeedIsLatest, NoFeed
    <3> QED
      BY <3>1, OldestByte DEF LastWritten
  <2>4. f[1] \in Nat
    BY DEF ParserInv, ParserTypes, OnlyFramesLookLikeFrames, WellFormed
  <2>5. f[1] < Oldest
    BY <2>2, <2>3, <2>4, OldestByte, Sizes
  <2> QED
    BY <2>2, <2>5 DEF Delivering
<1> QED
  BY <1>1, ParserDelivers, PTL

=============================================================================
