----------------------------- MODULE WireProofs -----------------------------
(***************************************************************************)
(* The bitwise loops of devmgr_crc32_update and of stm32_crc32 compute the *)
(* remainder of the polynomial division, for every message of any length.  *)
(* After k of the eight rounds for a byte the register is the dividend     *)
(* from its highest coefficient, x^(39 - k), down; each round is one step  *)
(* of long division.  And every message of the IPC socket decodes to what  *)
(* was encoded.                                                            *)
(***************************************************************************)
EXTENDS Wire, SequenceTheorems, TLAPS

(***************************************************************************)
(* One round: the register and one step of the division                    *)
(***************************************************************************)
LEMMA ReflectedGenerator ==
  ASSUME NEW i \in 0 .. 31
  PROVE  i \in Reflected <=> 31 - i \in Generator
  BY DEF Reflected, Generator

(* The multiple of the generator that cancels x^top. *)
LEMMA CancellingMultiple ==
  ASSUME NEW top \in 32 .. 39, NEW e \in Int
  PROVE  /\ e \in {g + top - 32 : g \in Generator} <=> (e - top) + 32 \in Generator
         /\ top \in {g + top - 32 : g \in Generator}
         /\ e \in {g + top - 32 : g \in Generator} => e \in top - 32 .. top
<1>1. \A g \in Generator : g \in 0 .. 32
  BY DEF Generator
<1>2. ASSUME e \in {g + top - 32 : g \in Generator}
      PROVE  (e - top) + 32 \in Generator /\ e \in top - 32 .. top
  <2>1. PICK g \in Generator : e = g + top - 32
    BY <1>2
  <2>2. g \in 0 .. 32
    BY <1>1
  <2>3. (e - top) + 32 = g
    BY <2>1, <2>2
  <2> QED
    BY <2>1, <2>2, <2>3
<1>3. ASSUME (e - top) + 32 \in Generator
      PROVE  e \in {g + top - 32 : g \in Generator}
  <2>1. e = ((e - top) + 32) + top - 32
    OBVIOUS
  <2> QED
    BY <1>3, <2>1
<1>4. top \in {g + top - 32 : g \in Generator}
  <2>1. 32 \in Generator /\ top = 32 + top - 32
    BY DEF Generator
  <2> QED
    BY <2>1
<1> QED
  BY <1>2, <1>3, <1>4

(* Which coefficients a step of the division leaves. *)
LEMMA DivisionStep ==
  ASSUME NEW top \in 32 .. 39, NEW left, left \subseteq top - 31 .. top
  PROVE  /\ Reduced(left, top) \subseteq top - 32 .. top - 1
         /\ \A e \in top - 32 .. top - 1 :
              e \in Reduced(left, top) <=>
                IF top \in left THEN ~(e \in left <=> (e - top) + 32 \in Generator)
                                ELSE e \in left
<1>1. CASE top \notin left
  <2>1. Reduced(left, top) = left
    BY <1>1 DEF Reduced
  <2>2. \A e \in left : e \in top - 32 .. top - 1
    BY <1>1
  <2> QED
    BY <1>1, <2>1, <2>2
<1>2. CASE top \in left
  <2> DEFINE multiple == {g + top - 32 : g \in Generator}
  <2>1. Reduced(left, top) = (left \ multiple) \union (multiple \ left)
    BY <1>2 DEF Reduced, Xor
  <2>2. /\ top \in multiple
        /\ \A e \in Int : e \in multiple <=> (e - top) + 32 \in Generator
        /\ \A e \in Int : e \in multiple => e \in top - 32 .. top
    <3>1. top \in Int
      OBVIOUS
    <3>2. ASSUME NEW e \in Int
          PROVE  /\ e \in multiple <=> (e - top) + 32 \in Generator
                 /\ e \in multiple => e \in top - 32 .. top
      BY CancellingMultiple
    <3>3. top \in multiple
      BY <3>1, CancellingMultiple
    <3> QED
      BY <3>2, <3>3
  <2>3. \A e \in multiple : e \in Int
    <3>1. \A g \in Generator : g \in Int
      BY DEF Generator
    <3> QED
      BY <3>1
  <2> HIDE DEF multiple
  <2>4. ASSUME NEW e \in Reduced(left, top)
        PROVE  e \in top - 32 .. top - 1
    <3>1. e \in left \/ e \in multiple
      BY <2>1
    <3>3. e \in top - 32 .. top
      <4>1. CASE e \in left
        BY <4>1
      <4>2. CASE e \in multiple
        BY <2>2, <2>3, <4>2
      <4> QED
        BY <3>1, <4>1, <4>2
    <3>2. e # top
      BY <1>2, <2>1, <2>2
    <3> QED
      BY <3>2, <3>3
  <2>5. ASSUME NEW e \in top - 32 .. top - 1
        PROVE  e \in Reduced(left, top) <=>
                 ~(e \in left <=> (e - top) + 32 \in Generator)
    BY <2>1, <2>2
  <2> QED
    BY <1>2, <2>4, <2>5
<1> QED
  BY <1>1, <1>2

(* A round of the inner loop is a step of the division. *)
LEMMA RoundDivides ==
  ASSUME NEW top \in 32 .. 39, NEW left, left \subseteq top - 31 .. top,
         NEW word, word = {top - e : e \in left}
  PROVE  /\ Reduced(left, top) \subseteq top - 32 .. top - 1
         /\ Step(word) = {top - 1 - e : e \in Reduced(left, top)}
<1>1. \A i \in Int : i \in word <=> top - i \in left
  <2>1. \A e \in left : e \in Int
    OBVIOUS
  <2>2. ASSUME NEW i \in Int, i \in word
        PROVE  top - i \in left
    <3>1. PICK e \in left : i = top - e
      BY <2>2
    <3>2. top - i = e
      BY <2>1, <3>1
    <3> QED
      BY <3>2
  <2>3. ASSUME NEW i \in Int, top - i \in left
        PROVE  i \in word
    <3>1. i = top - (top - i)
      OBVIOUS
    <3> QED
      BY <2>3, <3>1
  <2> QED
    BY <2>2, <2>3
<1>2. \A i \in word : i \in 0 .. 31
  OBVIOUS
<1>3. 0 \in word <=> top \in left
  BY <1>1
<1>4. \A i \in ShiftRight(word) : i \in 0 .. 30
  BY <1>2 DEF ShiftRight
<1>5. \A i \in 0 .. 31 : i \in ShiftRight(word) <=> top - 1 - i \in left
  <2> SUFFICES ASSUME NEW i \in 0 .. 31
               PROVE  i \in ShiftRight(word) <=> i + 1 \in word
    <3>1. \A i \in 0 .. 31 : top - (i + 1) = top - 1 - i
      OBVIOUS
    <3> QED
      BY <1>1, <3>1
  <2>1. ASSUME i \in ShiftRight(word)
        PROVE  i + 1 \in word
    <3>1. PICK j \in word \ {0} : i = j - 1
      BY <2>1 DEF ShiftRight
    <3>2. j = i + 1
      BY <1>2, <3>1
    <3> QED
      BY <3>1, <3>2
  <2>2. ASSUME i + 1 \in word
        PROVE  i \in ShiftRight(word)
    <3>1. i = (i + 1) - 1 /\ i + 1 # 0
      OBVIOUS
    <3> QED
      BY <2>2, <3>1 DEF ShiftRight
  <2> QED
    BY <2>1, <2>2
<1>6. /\ Reduced(left, top) \subseteq top - 32 .. top - 1
      /\ \A e \in top - 32 .. top - 1 :
           e \in Reduced(left, top) <=>
             IF top \in left THEN ~(e \in left <=> (e - top) + 32 \in Generator)
                             ELSE e \in left
  BY DivisionStep
<1>7. \A i \in Step(word) : i \in 0 .. 31
  <2>1. \A i \in Reflected : i \in 0 .. 31
    BY DEF Reflected
  <2> QED
    BY <1>4, <2>1 DEF Step, Xor
<1>8. ASSUME NEW i \in 0 .. 31
      PROVE  i \in Step(word) <=> top - 1 - i \in Reduced(left, top)
  <2> DEFINE e == top - 1 - i
  <2>1. e \in top - 32 .. top - 1 /\ (e - top) + 32 = 31 - i
    OBVIOUS
  <2>2. i \in ShiftRight(word) <=> e \in left
    BY <1>5
  <2> HIDE DEF e
  <2>3. CASE top \in left
    <3>1. i \in Step(word) <=> ~(i \in ShiftRight(word) <=> i \in Reflected)
      BY <1>3, <2>3 DEF Step, Xor
    <3>2. e \in Reduced(left, top) <=> ~(e \in left <=> 31 - i \in Generator)
      BY <1>6, <2>1, <2>3
    <3> QED
      BY <2>2, <3>1, <3>2, ReflectedGenerator DEF e
  <2>4. CASE top \notin left
    <3>1. i \in Step(word) <=> i \in ShiftRight(word)
      BY <1>3, <2>4 DEF Step
    <3>2. e \in Reduced(left, top) <=> e \in left
      BY <1>6, <2>1, <2>4
    <3> QED
      BY <2>2, <3>1, <3>2 DEF e
  <2> QED
    BY <2>3, <2>4
<1> DEFINE divided == Reduced(left, top)
<1>9. ASSUME NEW i \in Step(word)
      PROVE  i \in {top - 1 - e : e \in divided}
  <2>1. i \in 0 .. 31 /\ top - 1 - i \in divided
    BY <1>7, <1>8
  <2>2. i = top - 1 - (top - 1 - i)
    BY <2>1
  <2> QED
    BY <2>1, <2>2
<1>10. ASSUME NEW i \in {top - 1 - e : e \in divided}
       PROVE  i \in Step(word)
  <2>1. PICK e \in divided : i = top - 1 - e
    BY <1>10
  <2>2. e \in top - 32 .. top - 1
    BY <1>6
  <2>3. i \in 0 .. 31 /\ top - 1 - i = e
    BY <2>1, <2>2
  <2> QED
    BY <1>8, <2>1, <2>3
<1> QED
  BY <1>6, <1>9, <1>10

(***************************************************************************)
(* The eight rounds                                                        *)
(***************************************************************************)
(* The register of UpdateByte, and the dividend of Divide, after k rounds. *)
Registers(word, byte) ==
  LET r0 == Xor(word, ByteBits(byte))
      r1 == Step(r0) r2 == Step(r1) r3 == Step(r2) r4 == Step(r3)
      r5 == Step(r4) r6 == Step(r5) r7 == Step(r6) r8 == Step(r7)
  IN  [k \in 0 .. 8 |-> CASE k = 0 -> r0 [] k = 1 -> r1 [] k = 2 -> r2 [] k = 3 -> r3
         [] k = 4 -> r4 [] k = 5 -> r5 [] k = 6 -> r6 [] k = 7 -> r7 [] k = 8 -> r8]

Dividends(remainder, byte) ==
  LET d0 == Xor({e + 8 : e \in remainder}, {39 - i : i \in ByteBits(byte)})
      d1 == Reduced(d0, 39) d2 == Reduced(d1, 38) d3 == Reduced(d2, 37)
      d4 == Reduced(d3, 36) d5 == Reduced(d4, 35) d6 == Reduced(d5, 34)
      d7 == Reduced(d6, 33) d8 == Reduced(d7, 32)
  IN  [k \in 0 .. 8 |-> CASE k = 0 -> d0 [] k = 1 -> d1 [] k = 2 -> d2 [] k = 3 -> d3
         [] k = 4 -> d4 [] k = 5 -> d5 [] k = 6 -> d6 [] k = 7 -> d7 [] k = 8 -> d8]

LEMMA RegistersUnfold ==
  ASSUME NEW word, NEW byte
  PROVE  LET r == Registers(word, byte)
         IN  /\ r = [k \in 0 .. 8 |-> IF k = 0 THEN Xor(word, ByteBits(byte))
                                               ELSE Step(r[k - 1])]
<1> DEFINE r == Registers(word, byte)
           R(k) == IF k = 0 THEN Xor(word, ByteBits(byte)) ELSE Step(r[k - 1])
<1>1. r = [k \in 0 .. 8 |-> r[k]]
  BY DEF Registers
<1>2. r[0] = Xor(word, ByteBits(byte))
  BY DEF Registers
<1>3. r[1] = Step(r[0]) /\ r[2] = Step(r[1]) /\ r[3] = Step(r[2]) /\ r[4] = Step(r[3])
  BY DEF Registers
<1>4. r[5] = Step(r[4]) /\ r[6] = Step(r[5]) /\ r[7] = Step(r[6]) /\ r[8] = Step(r[7])
  BY DEF Registers
<1> HIDE DEF r
<1>5. ASSUME NEW k \in 0 .. 8
      PROVE  r[k] = R(k)
  <2>1. k \in {0, 1, 2, 3, 4, 5, 6, 7, 8}
    OBVIOUS
  <2> QED
    BY <1>2, <1>3, <1>4, <2>1
<1>6. r = [k \in 0 .. 8 |-> R(k)]
  BY <1>1, <1>5
<1> QED
  BY <1>6 DEF r

LEMMA DividendsUnfold ==
  ASSUME NEW remainder, NEW byte
  PROVE  LET d == Dividends(remainder, byte)
         IN  d = [k \in 0 .. 8 |->
                    IF k = 0 THEN Xor({e + 8 : e \in remainder},
                                      {39 - i : i \in ByteBits(byte)})
                             ELSE Reduced(d[k - 1], 40 - k)]
<1> DEFINE d == Dividends(remainder, byte)
           start == Xor({e + 8 : e \in remainder}, {39 - i : i \in ByteBits(byte)})
           D(k) == IF k = 0 THEN start ELSE Reduced(d[k - 1], 40 - k)
<1>1. d = [k \in 0 .. 8 |-> d[k]]
  BY DEF Dividends
<1>2. d[0] = start
  BY DEF Dividends
<1>3. /\ d[1] = Reduced(d[0], 39) /\ d[2] = Reduced(d[1], 38)
      /\ d[3] = Reduced(d[2], 37) /\ d[4] = Reduced(d[3], 36)
  BY DEF Dividends
<1>4. /\ d[5] = Reduced(d[4], 35) /\ d[6] = Reduced(d[5], 34)
      /\ d[7] = Reduced(d[6], 33) /\ d[8] = Reduced(d[7], 32)
  BY DEF Dividends
<1> HIDE DEF d, start
<1>5. ASSUME NEW k \in 0 .. 8
      PROVE  d[k] = D(k)
  <2>1. k \in {0, 1, 2, 3, 4, 5, 6, 7, 8}
    OBVIOUS
  <2> QED
    BY <1>2, <1>3, <1>4, <2>1
<1>6. d = [k \in 0 .. 8 |-> D(k)]
  BY <1>1, <1>5
<1> QED
  BY <1>6 DEF d, start

(* The loop of devmgr_crc32_update for one byte, unrolled. *)
LEMMA UpdateByteRounds ==
  ASSUME NEW word, NEW byte
  PROVE  \E r : /\ r[0] = Xor(word, ByteBits(byte))
                /\ \A k \in 1 .. 8 : r[k] = Step(r[k - 1])
                /\ UpdateByte(word, byte) = r[8]
                /\ Stm32UpdateByte(word, byte) = r[8]
<1> DEFINE Loop(r) == r = [bit \in 0 .. 8 |-> IF bit = 0 THEN Xor(word, ByteBits(byte))
                                                         ELSE Step(r[bit - 1])]
           after == CHOOSE r : Loop(r)
<1>1. Loop(after)
  <2>1. Loop(Registers(word, byte))
    BY RegistersUnfold
  <2> QED
    BY <2>1
<1>2. UpdateByte(word, byte) = after[8] /\ Stm32UpdateByte(word, byte) = after[8]
  BY DEF UpdateByte, Stm32UpdateByte
<1> HIDE DEF after
<1>3. after[0] = Xor(word, ByteBits(byte))
  BY <1>1
<1>4. ASSUME NEW k \in 1 .. 8
      PROVE  after[k] = Step(after[k - 1])
  <2>1. k \in 0 .. 8 /\ k # 0
    OBVIOUS
  <2> QED
    BY <1>1, <2>1
<1> QED
  BY <1>2, <1>3, <1>4

LEMMA DivideRounds ==
  ASSUME NEW remainder, NEW byte
  PROVE  \E d : /\ d[0] = Xor({e + 8 : e \in remainder}, {39 - i : i \in ByteBits(byte)})
                /\ \A k \in 1 .. 8 : d[k] = Reduced(d[k - 1], 40 - k)
                /\ Divide(remainder, byte) = d[8]
<1> DEFINE start == Xor({e + 8 : e \in remainder}, {39 - i : i \in ByteBits(byte)})
           Loop(d) == d = [k \in 0 .. 8 |-> IF k = 0 THEN start
                                                     ELSE Reduced(d[k - 1], 40 - k)]
           left == CHOOSE d : Loop(d)
<1>1. Loop(left)
  <2>1. Loop(Dividends(remainder, byte))
    BY DividendsUnfold, ZenonT(30)
  <2> QED
    BY <2>1
<1>2. Divide(remainder, byte) = left[8]
  BY DEF Divide
<1> HIDE DEF left, start
<1>3. left[0] = start
  BY <1>1
<1>4. ASSUME NEW k \in 1 .. 8
      PROVE  left[k] = Reduced(left[k - 1], 40 - k)
  <2>1. k \in 0 .. 8 /\ k # 0
    OBVIOUS
  <2> QED
    BY <1>1, <2>1
<1> QED
  BY <1>2, <1>3, <1>4 DEF start

(* The word is the polynomial from x^top down. *)
Aligned(top, left, word) ==
  left \subseteq top - 31 .. top /\ word = {top - e : e \in left}

LEMMA RoundAligned ==
  \A top \in 32 .. 39 : \A left, word :
    Aligned(top, left, word) => Aligned(top - 1, Reduced(left, top), Step(word))
<1> SUFFICES ASSUME NEW top \in 32 .. 39, NEW left, NEW word, Aligned(top, left, word)
             PROVE  Aligned(top - 1, Reduced(left, top), Step(word))
  OBVIOUS
<1>1. /\ Reduced(left, top) \subseteq top - 32 .. top - 1
      /\ Step(word) = {top - 1 - e : e \in Reduced(left, top)}
  BY RoundDivides DEF Aligned
<1>2. top - 1 - 31 = top - 32
  OBVIOUS
<1> QED
  BY <1>1, <1>2 DEF Aligned

(* Adding a byte above x^32 and into the low end of the register. *)
LEMMA ByteAligned ==
  ASSUME NEW remainder, remainder \subseteq 0 .. 31, NEW byte
  PROVE  Aligned(39, Xor({e + 8 : e \in remainder}, {39 - i : i \in ByteBits(byte)}),
                     Xor(Mirrored(remainder), ByteBits(byte)))
<1> DEFINE bits == ByteBits(byte)
           high == {e + 8 : e \in remainder}
           low == {39 - i : i \in bits}
           word == Mirrored(remainder)
<1>1. \A i \in bits : i \in 0 .. 7
  BY DEF ByteBits
<1> HIDE DEF bits
<1>2. \A e \in high : e \in 8 .. 39
  OBVIOUS
<1>3. \A e \in low : e \in 32 .. 39
  BY <1>1
<1>4. \A i \in word : i \in 0 .. 31
  BY DEF Mirrored
<1>5. ASSUME NEW i \in Int
      PROVE  /\ i \in word <=> 39 - i \in high
             /\ i \in bits <=> 39 - i \in low
  <2>1. ASSUME i \in word
        PROVE  39 - i \in high
    <3>1. PICK e \in remainder : i = 31 - e
      BY <2>1 DEF Mirrored
    <3>2. e \in Int
      OBVIOUS
    <3>3. 39 - i = e + 8
      BY <3>1, <3>2
    <3> QED
      BY <3>3
  <2>2. ASSUME 39 - i \in high
        PROVE  i \in word
    <3>1. PICK e \in remainder : 39 - i = e + 8
      BY <2>2
    <3>2. e \in Int
      OBVIOUS
    <3>3. i = 31 - e
      BY <3>1, <3>2
    <3> QED
      BY <3>3 DEF Mirrored
  <2>3. i \in bits => 39 - i \in low
    OBVIOUS
  <2>4. ASSUME 39 - i \in low
        PROVE  i \in bits
    <3>1. PICK j \in bits : 39 - i = 39 - j
      BY <2>4
    <3>2. i = j
      BY <1>1, <3>1
    <3> QED
      BY <3>2
  <2> QED
    BY <2>1, <2>2, <2>3, <2>4
<1> DEFINE left == Xor(high, low)
           mixed == Xor(word, bits)
<1> HIDE DEF high, low, word
<1>6. \A e \in left : e \in 8 .. 39
  BY <1>2, <1>3 DEF Xor
<1>7. \A i \in mixed : i \in 0 .. 31
  BY <1>1, <1>4 DEF Xor
<1>8. \A i \in Int : i \in mixed <=> 39 - i \in left
  BY <1>5 DEF Xor
<1> HIDE DEF left, mixed
<1>9. ASSUME NEW i \in mixed
      PROVE  i \in {39 - e : e \in left}
  <2>1. i \in Int
    BY <1>7
  <2>2. 39 - i \in left /\ i = 39 - (39 - i)
    BY <1>8, <2>1
  <2> QED
    BY <2>2
<1>10. ASSUME NEW i \in {39 - e : e \in left}
       PROVE  i \in mixed
  <2>1. PICK e \in left : i = 39 - e
    BY <1>10
  <2>2. e \in Int
    BY <1>6
  <2>3. i \in Int /\ 39 - i = e
    BY <2>1, <2>2
  <2> QED
    BY <1>8, <2>1, <2>3
<1>11. left \subseteq 39 - 31 .. 39
  BY <1>6
<1>12. Aligned(39, left, mixed)
  BY <1>9, <1>10, <1>11 DEF Aligned
<1> QED
  BY <1>12 DEF left, mixed, high, low, word, bits

(* One byte: the register stays the mirrored remainder, in both codecs. *)
LEMMA ByteDivides ==
  ASSUME NEW remainder, remainder \subseteq 0 .. 31, NEW byte
  PROVE  /\ Divide(remainder, byte) \subseteq 0 .. 31
         /\ UpdateByte(Mirrored(remainder), byte) = Mirrored(Divide(remainder, byte))
         /\ Stm32UpdateByte(Mirrored(remainder), byte) = Mirrored(Divide(remainder, byte))
<1>1. PICK r : /\ r[0] = Xor(Mirrored(remainder), ByteBits(byte))
               /\ \A k \in 1 .. 8 : r[k] = Step(r[k - 1])
               /\ UpdateByte(Mirrored(remainder), byte) = r[8]
               /\ Stm32UpdateByte(Mirrored(remainder), byte) = r[8]
  BY UpdateByteRounds
<1>2. PICK d : /\ d[0] = Xor({e + 8 : e \in remainder}, {39 - i : i \in ByteBits(byte)})
               /\ \A k \in 1 .. 8 : d[k] = Reduced(d[k - 1], 40 - k)
               /\ Divide(remainder, byte) = d[8]
  BY DivideRounds, ZenonT(30)
<1>3. Aligned(39, d[0], r[0])
  BY <1>1, <1>2, ByteAligned
<1>4. Aligned(38, d[1], r[1])
  <2>1. d[1] = Reduced(d[0], 39) /\ r[1] = Step(r[0])
    BY <1>1, <1>2
  <2> QED
    BY <1>3, <2>1, RoundAligned
<1>5. Aligned(37, d[2], r[2])
  <2>1. d[2] = Reduced(d[1], 38) /\ r[2] = Step(r[1])
    BY <1>1, <1>2
  <2> QED
    BY <1>4, <2>1, RoundAligned
<1>6. Aligned(36, d[3], r[3])
  <2>1. d[3] = Reduced(d[2], 37) /\ r[3] = Step(r[2])
    BY <1>1, <1>2
  <2> QED
    BY <1>5, <2>1, RoundAligned
<1>7. Aligned(35, d[4], r[4])
  <2>1. d[4] = Reduced(d[3], 36) /\ r[4] = Step(r[3])
    BY <1>1, <1>2
  <2> QED
    BY <1>6, <2>1, RoundAligned
<1>8. Aligned(34, d[5], r[5])
  <2>1. d[5] = Reduced(d[4], 35) /\ r[5] = Step(r[4])
    BY <1>1, <1>2
  <2> QED
    BY <1>7, <2>1, RoundAligned
<1>9. Aligned(33, d[6], r[6])
  <2>1. d[6] = Reduced(d[5], 34) /\ r[6] = Step(r[5])
    BY <1>1, <1>2
  <2> QED
    BY <1>8, <2>1, RoundAligned
<1>10. Aligned(32, d[7], r[7])
  <2>1. d[7] = Reduced(d[6], 33) /\ r[7] = Step(r[6])
    BY <1>1, <1>2
  <2> QED
    BY <1>9, <2>1, RoundAligned
<1>11. Aligned(31, d[8], r[8])
  <2>1. d[8] = Reduced(d[7], 32) /\ r[8] = Step(r[7])
    BY <1>1, <1>2
  <2> QED
    BY <1>10, <2>1, RoundAligned
<1> QED
  BY <1>1, <1>2, <1>11 DEF Aligned, Mirrored

(***************************************************************************)
(* The theorem                                                             *)
(***************************************************************************)
CrcInv == rest \subseteq 0 .. 31 /\ CrcIsRemainder

(* devmgr_crc32_update and stm32_crc32, byte after byte, carry along the   *)
(* remainder of the message modulo the generator 0x04C11DB7, for frames    *)
(* of any length and any content, before and after damage on the line.     *)
THEOREM CrcRemainder == Spec => []CrcIsRemainder
<1>1. CrcInit \subseteq 0 .. 31 /\ CrcInit = Mirrored(CrcInit)
  <2>1. ASSUME NEW i \in 0 .. 31
        PROVE  i \in Mirrored(0 .. 31)
    <3>1. 31 - i \in 0 .. 31 /\ i = 31 - (31 - i)
      OBVIOUS
    <3> QED
      BY <3>1 DEF Mirrored
  <2>2. \A i \in Mirrored(0 .. 31) : i \in 0 .. 31
    BY DEF Mirrored
  <2> QED
    BY <2>1, <2>2 DEF CrcInit
<1>2. Init => CrcInv
  BY <1>1 DEF Init, CrcInv, CrcIsRemainder
<1>3. CrcInv /\ [Next]_vars => CrcInv'
  <2> SUFFICES ASSUME CrcInv, [Next]_vars
               PROVE  CrcInv'
    OBVIOUS
  <2>1. CASE CrcByte
    <3>1. /\ rest' = Divide(rest, line[n + 1])
          /\ \/ crc' = UpdateByte(crc, line[n + 1])
             \/ crc' = Stm32UpdateByte(crc, line[n + 1])
      BY <2>1 DEF CrcByte
    <3>2. rest \subseteq 0 .. 31 /\ crc = Mirrored(rest)
      BY DEF CrcInv, CrcIsRemainder
    <3> QED
      BY <3>1, <3>2, ByteDivides DEF CrcInv, CrcIsRemainder
  <2>2. CASE Send
    BY <1>1, <2>2 DEF Send, CrcInv, CrcIsRemainder
  <2>3. CASE Flip \/ Truncate \/ Receive \/ CompareCrc \/ UNCHANGED vars
    BY <2>3 DEF Flip, Truncate, Receive, CompareCrc, vars, CrcInv, CrcIsRemainder
  <2> QED
    BY <2>1, <2>2, <2>3 DEF Next
<1> QED
  BY <1>2, <1>3, PTL DEF Spec, CrcInv

(***************************************************************************)
(* The messages of the IPC socket                                          *)
(***************************************************************************)
(* The four bytes of an int32_t, and what they are read as. *)
LEMMA Int32Bytes ==
  ASSUME NEW v, Int32(v)
  PROVE  LET p == PutInt32(v)
         IN  /\ p \in Seq(Byte) /\ Len(p) = 4
             /\ v = p[1] + 256 * p[2] + 65536 * p[3]
                      + 16777216 * (IF p[4] < 128 THEN p[4] ELSE p[4] - 256)
<1> DEFINE q == v \div 256
           r == v \div 65536
           t == v \div 16777216
<1>0. v \in Int
  BY DEF Int32
<1>1. q \in Int /\ r \in Int /\ t \in Int
  BY <1>0
<1>2. v = 256 * q + (v % 256) /\ v % 256 \in 0 .. 255
  BY <1>0
<1>3. q = 256 * r + (q % 256) /\ q % 256 \in 0 .. 255
  BY <1>0
<1>4. r = 256 * t + (r % 256) /\ r % 256 \in 0 .. 255
  BY <1>0
<1>5. t \in -128 .. 127
  BY SMT DEF Int32
<1>6. t % 256 \in 0 .. 255 /\ t = IF t % 256 < 128 THEN t % 256 ELSE (t % 256) - 256
  BY <1>5
<1>7. PutInt32(v) = <<v % 256, q % 256, r % 256, t % 256>>
  BY DEF PutInt32
<1> HIDE DEF q, r, t
<1>8. v = (v % 256) + 256 * (q % 256) + 65536 * (r % 256) + 16777216 * t
  BY <1>0, <1>1, <1>2, <1>3, <1>4
<1>9. v = (v % 256) + 256 * (q % 256) + 65536 * (r % 256)
           + 16777216 * (IF t % 256 < 128 THEN t % 256 ELSE (t % 256) - 256)
  BY <1>6, <1>8
<1> DEFINE p == <<v % 256, q % 256, r % 256, t % 256>>
<1>10. /\ p \in Seq(Byte) /\ Len(p) = 4
       /\ p[1] = v % 256 /\ p[2] = q % 256 /\ p[3] = r % 256 /\ p[4] = t % 256
  BY <1>2, <1>3, <1>4, <1>6 DEF Byte
<1> HIDE DEF p
<1>11. v = p[1] + 256 * p[2] + 65536 * p[3]
             + 16777216 * (IF p[4] < 128 THEN p[4] ELSE p[4] - 256)
  BY <1>9, <1>10
<1> QED
  BY <1>7, <1>10, <1>11 DEF p

(* Bytes are numbers. *)
LEMMA ByteIsInt == \A b \in Byte : b \in Int /\ 0 <= b /\ b <= 255
  BY DEF Byte

(* Two pieces joined. *)
LEMMA JoinedPieces ==
  ASSUME NEW h \in Seq(Byte), NEW p \in Seq(Byte)
  PROVE  /\ Len(h) \in Nat /\ Len(p) \in Nat
         /\ h \o p \in Seq(Byte) /\ Len(h \o p) = Len(h) + Len(p)
         /\ \A i \in 1 .. Len(h) : (h \o p)[i] = h[i]
         /\ \A i \in 1 .. Len(p) : (h \o p)[Len(h) + i] = p[i]
         /\ SubSeq(h \o p, Len(h) + 1, Len(h \o p)) = p
         /\ \A part \in 0 .. Len(h \o p) :
              /\ Len(SubSeq(h \o p, 1, part)) = part
              /\ \A i \in 1 .. part : SubSeq(h \o p, 1, part)[i] = (h \o p)[i]
<1> DEFINE all == h \o p
<1>1. /\ Len(h) \in Nat /\ Len(p) \in Nat
      /\ all \in Seq(Byte) /\ Len(all) = Len(h) + Len(p)
      /\ \A i \in 1 .. Len(h) : all[i] = h[i]
      /\ \A i \in 1 .. Len(p) : all[Len(h) + i] = p[i]
  BY ConcatProperties, LenProperties
<1> HIDE DEF all
<1>2. SubSeq(all, Len(h) + 1, Len(all)) = p
  <2> DEFINE rest1 == SubSeq(all, Len(h) + 1, Len(all))
  <2>1. rest1 \in Seq(Byte) /\ Len(rest1) = Len(p)
        /\ \A i \in 1 .. Len(p) : rest1[i] = all[Len(h) + i]
    BY <1>1, SubSeqProperties
  <2> HIDE DEF rest1
  <2>2. \A i \in 1 .. Len(p) : rest1[i] = p[i]
    BY <1>1, <2>1
  <2>3. rest1 = p
    BY <1>1, <2>1, <2>2, SeqEqual
  <2> QED
    BY <2>3 DEF rest1
<1>3. ASSUME NEW part \in 0 .. Len(all)
      PROVE  /\ Len(SubSeq(all, 1, part)) = part
             /\ \A i \in 1 .. part : SubSeq(all, 1, part)[i] = all[i]
  BY <1>1, <1>3, SubSeqProperties
<1> QED
  BY <1>1, <1>2, <1>3 DEF all

(* The bytes every message begins with. *)
LEMMA IpcPrefix ==
  ASSUME NEW command \in Byte
  PROVE  LET h == PutLe16(IpcMagic) \o <<1, command>>
         IN  /\ h \in Seq(Byte) /\ Len(h) = 4
             /\ h[1] + 256 * h[2] = IpcMagic /\ h[3] = 1 /\ h[4] = command
<1> DEFINE a == <<73, 80>>
           b == <<1, command>>
           h == a \o b
<1>1. PutLe16(IpcMagic) = a
  <2>1. 20553 % 256 = 73 /\ 20553 \div 256 = 80
    OBVIOUS
  <2> QED
    BY <2>1 DEF PutLe16, IpcMagic
<1>2. /\ a \in Seq(Byte) /\ Len(a) = 2 /\ a[1] = 73 /\ a[2] = 80
      /\ b \in Seq(Byte) /\ Len(b) = 2 /\ b[1] = 1 /\ b[2] = command
  BY DEF Byte
<1> HIDE DEF a, b
<1>3. /\ h \in Seq(Byte) /\ Len(h) = Len(a) + Len(b)
      /\ \A i \in 1 .. Len(a) : h[i] = a[i]
      /\ \A i \in 1 .. Len(b) : h[Len(a) + i] = b[i]
  <2>1. a \in Seq(Byte) /\ b \in Seq(Byte)
    BY <1>2
  <2> QED
    BY <2>1, JoinedPieces
<1> HIDE DEF h
<1>4. h[1] = 73 /\ h[2] = 80 /\ h[3] = 1 /\ h[4] = command /\ Len(h) = 4
  <2>1. /\ Len(a) = 2 /\ a[1] = 73 /\ a[2] = 80
        /\ Len(b) = 2 /\ b[1] = 1 /\ b[2] = command
    BY <1>2
  <2>2. 2 + 1 = 3 /\ 2 + 2 = 4 /\ 1 \in 1 .. 2 /\ 2 \in 1 .. 2
    OBVIOUS
  <2>3. /\ Len(h) = 2 + 2 /\ \A i \in 1 .. 2 : h[i] = a[i]
        /\ \A i \in 1 .. 2 : h[2 + i] = b[i]
    BY <1>3, <2>1
  <2>4. /\ Len(h) = 4 /\ h[1] = a[1] /\ h[2] = a[2]
        /\ h[2 + 1] = b[1] /\ h[2 + 2] = b[2]
    BY <2>2, <2>3
  <2> QED
    BY <2>1, <2>2, <2>4
<1>5. /\ h \in Seq(Byte) /\ Len(h) = 4
      /\ h[1] + 256 * h[2] = IpcMagic /\ h[3] = 1 /\ h[4] = command
  <2>1. h[1] + 256 * h[2] = 73 + 256 * 80
    BY <1>4
  <2>2. 73 + 256 * 80 = IpcMagic
    BY DEF IpcMagic
  <2> QED
    BY <1>3, <1>4, <2>1, <2>2
<1> QED
  BY <1>1, <1>5 DEF h, b

(* A number appended to a message is read back at its place. *)
LEMMA IpcNumber ==
  ASSUME NEW h \in Seq(Byte), NEW v, Int32(v)
  PROVE  LET all == h \o PutInt32(v)
         IN  /\ all \in Seq(Byte) /\ Len(all) = Len(h) + 4
             /\ \A i \in 1 .. Len(h) : all[i] = h[i]
             /\ GetInt32(all, Len(h) + 1) = v
<1> DEFINE p == PutInt32(v)
           all == h \o p
<1>1. p \in Seq(Byte) /\ Len(p) = 4
  BY Int32Bytes
<1>2. v = p[1] + 256 * p[2] + 65536 * p[3]
            + 16777216 * (IF p[4] < 128 THEN p[4] ELSE p[4] - 256)
  BY Int32Bytes
<1> HIDE DEF p
<1>3. p[1] \in Int /\ p[2] \in Int /\ p[3] \in Int /\ p[4] \in Int
  <2>1. p \in [1 .. 4 -> Byte]
    BY <1>1
  <2>2. p[1] \in Byte /\ p[2] \in Byte /\ p[3] \in Byte /\ p[4] \in Byte
    BY <2>1
  <2> QED
    BY <2>2, ByteIsInt
<1>4. /\ Len(h) \in Nat /\ all \in Seq(Byte) /\ Len(all) = Len(h) + Len(p)
      /\ \A i \in 1 .. Len(h) : all[i] = h[i]
      /\ \A i \in 1 .. Len(p) : all[Len(h) + i] = p[i]
  BY <1>1, JoinedPieces
<1> HIDE DEF all
<1> DEFINE at == Len(h) + 1
<1>5. /\ all[at] = p[1] /\ all[at + 1] = p[2]
      /\ all[at + 2] = p[3] /\ all[at + 3] = p[4] /\ at \in Int
  <2>1. /\ all[Len(h) + 1] = p[1] /\ all[Len(h) + 2] = p[2]
        /\ all[Len(h) + 3] = p[3] /\ all[Len(h) + 4] = p[4]
    BY <1>1, <1>4
  <2>2. /\ at + 1 = Len(h) + 2 /\ at + 2 = Len(h) + 3
        /\ at + 3 = Len(h) + 4 /\ at \in Int
    BY <1>4
  <2> QED
    BY <2>1, <2>2
<1> HIDE DEF at
<1>6. GetInt32(all, at)
        = p[1] + 256 * p[2] + 65536 * p[3]
            + 16777216 * (IF p[4] < 128 THEN p[4] ELSE p[4] - 256)
  BY <1>5 DEF GetInt32
<1>7. GetInt32(all, at) = v
  BY <1>2, <1>6
<1>8. Len(all) = Len(h) + 4
  BY <1>1, <1>4
<1> QED
  BY <1>4, <1>7, <1>8 DEF all, p, at

(* Where the bytes of a number agree, the numbers do. *)
LEMMA SameNumber ==
  ASSUME NEW data, NEW other, NEW at \in Int,
         data[at] = other[at], data[at + 1] = other[at + 1],
         data[at + 2] = other[at + 2], data[at + 3] = other[at + 3]
  PROVE  GetInt32(data, at) = GetInt32(other, at)
  BY DEF GetInt32

(* A message: a header that holds the length of the payload at place at,   *)
(* and the payload.                                                        *)
LEMMA IpcMessage ==
  ASSUME NEW h \in Seq(Byte), NEW p \in Seq(Byte), NEW at \in Nat,
         Len(h) >= 8, 5 <= at, at + 3 <= Len(h),
         h[1] + 256 * h[2] = IpcMagic, h[3] = 1, GetInt32(h, at) = Len(p)
  PROVE  LET all == h \o p
         IN  /\ ValidHeader(all, Len(h)) /\ all[4] = h[4]
             /\ GetInt32(all, 5) = GetInt32(h, 5) /\ GetInt32(all, at) = Len(p)
             /\ Len(all) = Len(h) + Len(p) /\ Len(p) \in Nat
             /\ SubSeq(all, Len(h) + 1, Len(all)) = p
             /\ \A part \in 0 .. Len(all) - 1 :
                  LET s == SubSeq(all, 1, part)
                  IN  ~(Len(s) >= Len(h) /\ Len(s) = Len(h) + GetInt32(s, at))
<1> DEFINE all == h \o p
<1>1. /\ Len(h) \in Nat /\ Len(p) \in Nat
      /\ Len(all) = Len(h) + Len(p)
      /\ \A i \in 1 .. Len(h) : all[i] = h[i]
  BY JoinedPieces
<1>0. SubSeq(all, Len(h) + 1, Len(all)) = p
  BY JoinedPieces
<1>2. \A part \in 0 .. Len(all) :
        /\ Len(SubSeq(all, 1, part)) = part
        /\ \A i \in 1 .. part : SubSeq(all, 1, part)[i] = all[i]
  BY JoinedPieces
<1> HIDE DEF all
<1>3. GetInt32(all, 5) = GetInt32(h, 5)
  <2>1. /\ all[5] = h[5] /\ all[5 + 1] = h[5 + 1]
        /\ all[5 + 2] = h[5 + 2] /\ all[5 + 3] = h[5 + 3]
    BY <1>1
  <2> QED
    BY <2>1, SameNumber
<1>4. GetInt32(all, at) = Len(p)
  <2>1. at \in 1 .. Len(h) /\ at + 1 \in 1 .. Len(h)
        /\ at + 2 \in 1 .. Len(h) /\ at + 3 \in 1 .. Len(h)
    BY <1>1
  <2>2. /\ all[at] = h[at] /\ all[at + 1] = h[at + 1]
        /\ all[at + 2] = h[at + 2] /\ all[at + 3] = h[at + 3]
    BY <1>1, <2>1
  <2>3. GetInt32(all, at) = GetInt32(h, at)
    BY <2>2, SameNumber
  <2> QED
    BY <2>3
<1>5. all[4] = h[4] /\ all[1] = h[1] /\ all[2] = h[2] /\ all[3] = h[3]
  BY <1>1
<1>6. ValidHeader(all, Len(h))
  <2>1. GetLe16(all, 1) = h[1] + 256 * h[2]
    BY <1>5 DEF GetLe16
  <2>2. Len(all) >= Len(h)
    BY <1>1
  <2> QED
    BY <1>5, <2>1, <2>2 DEF ValidHeader
<1>7. ASSUME NEW part \in 0 .. Len(all) - 1
      PROVE  ~(/\ Len(SubSeq(all, 1, part)) >= Len(h)
               /\ Len(SubSeq(all, 1, part)) = Len(h) + GetInt32(SubSeq(all, 1, part), at))
  <2> DEFINE s == SubSeq(all, 1, part)
  <2>1. part \in Nat /\ part < Len(h) + Len(p) /\ part \in 0 .. Len(all)
    BY <1>1
  <2>2. Len(s) = part /\ \A i \in 1 .. part : s[i] = all[i]
    BY <1>2, <2>1
  <2> HIDE DEF s
  <2>3. CASE part < Len(h)
    BY <1>1, <2>1, <2>2, <2>3 DEF s
  <2>4. CASE part >= Len(h)
    <3>1. /\ s[at] = all[at] /\ s[at + 1] = all[at + 1]
          /\ s[at + 2] = all[at + 2] /\ s[at + 3] = all[at + 3]
      BY <1>1, <2>1, <2>2, <2>4
    <3>2. GetInt32(s, at) = Len(p)
      <4>1. GetInt32(s, at) = GetInt32(all, at)
        BY <3>1, SameNumber
      <4> QED
        BY <1>4, <4>1
    <3>3. Len(s) # Len(h) + GetInt32(s, at)
      BY <1>1, <2>1, <2>2, <3>2
    <3> QED
      BY <3>3 DEF s
  <2> QED
    BY <1>1, <2>1, <2>3, <2>4
<1> QED
  BY <1>0, <1>1, <1>3, <1>4, <1>5, <1>6, <1>7 DEF all

(* The assumptions on the constants, one by one: the length of a payload   *)
(* fits its field,                                                         *)
LEMMA PayloadBound == MaxPayload \in Nat /\ MaxPayload <= 65535
  BY BoundAssumption, SMT

(* a frame is made of bytes,                                               *)
LEMMA FrameBytes ==
  ASSUME NEW f \in Frames
  PROVE  f.type \in Byte /\ f.payload \in Seq(Byte) /\ Len(f.payload) <= MaxPayload
  BY MessageAssumption, Zenon

(* and a status is an int32_t.                                             *)
LEMMA StatusInt32 == \A status \in Statuses : Int32(status)
  BY MessageAssumption, Zenon

(* The length of a payload is an int32_t. *)
LEMMA LengthInt32 ==
  ASSUME NEW p \in Seq(Byte), Len(p) <= MaxPayload
  PROVE  Int32(Len(p)) /\ Len(p) \in 0 .. MaxPayload
<1>1. Len(p) \in Nat
  BY LenProperties
<1> QED
  BY <1>1, PayloadBound, SMT DEF Int32

(* A header with one more number. *)
LEMMA IpcHeader ==
  ASSUME NEW h \in Seq(Byte), NEW v, Int32(v), Len(h) >= 4,
         h[1] + 256 * h[2] = IpcMagic, h[3] = 1
  PROVE  LET all == h \o PutInt32(v)
         IN  /\ all \in Seq(Byte) /\ Len(all) = Len(h) + 4
             /\ all[1] + 256 * all[2] = IpcMagic /\ all[3] = 1 /\ all[4] = h[4]
             /\ GetInt32(all, Len(h) + 1) = v
             /\ Len(h) >= 8 => GetInt32(all, 5) = GetInt32(h, 5)
<1> DEFINE all == h \o PutInt32(v)
<1>1. /\ all \in Seq(Byte) /\ Len(all) = Len(h) + 4
      /\ \A i \in 1 .. Len(h) : all[i] = h[i]
      /\ GetInt32(all, Len(h) + 1) = v
  BY IpcNumber
<1> HIDE DEF all
<1>2. Len(h) \in Nat
  BY LenProperties
<1>3. all[1] = h[1] /\ all[2] = h[2] /\ all[3] = h[3] /\ all[4] = h[4]
  BY <1>1, <1>2
<1>4. ASSUME Len(h) >= 8
      PROVE  GetInt32(all, 5) = GetInt32(h, 5)
  <2>1. /\ all[5] = h[5] /\ all[5 + 1] = h[5 + 1]
        /\ all[5 + 2] = h[5 + 2] /\ all[5 + 3] = h[5 + 3]
    BY <1>1, <1>2, <1>4
  <2> QED
    BY <2>1, SameNumber
<1> QED
  BY <1>1, <1>3, <1>4 DEF all

(* A request decodes to what was encoded, and no proper part of it does. *)
LEMMA RequestSurvives ==
  ASSUME NEW command \in Byte, NEW p \in Seq(Byte), Len(p) <= MaxPayload
  PROVE  LET request == [command |-> command, payload |-> p]
             bytes == EncodeRequest(request)
         IN  /\ DecodesRequest(bytes) /\ DecodedRequest(bytes) = request
             /\ \A part \in 0 .. Len(bytes) - 1 : ~DecodesRequest(SubSeq(bytes, 1, part))
<1> DEFINE four == PutLe16(IpcMagic) \o <<1, command>>
           eight == four \o PutInt32(Len(p))
           bytes == eight \o p
<1>1. EncodeRequest([command |-> command, payload |-> p]) = bytes
  BY DEF EncodeRequest
<1>2. /\ four \in Seq(Byte) /\ Len(four) = 4
      /\ four[1] + 256 * four[2] = IpcMagic /\ four[3] = 1 /\ four[4] = command
  BY IpcPrefix
<1>3. Int32(Len(p)) /\ Len(p) \in 0 .. MaxPayload
  BY LengthInt32
<1> HIDE DEF four
<1>4. /\ eight \in Seq(Byte) /\ Len(eight) = Len(four) + 4
      /\ eight[1] + 256 * eight[2] = IpcMagic /\ eight[3] = 1 /\ eight[4] = four[4]
      /\ GetInt32(eight, Len(four) + 1) = Len(p)
  <2>1. /\ four \in Seq(Byte) /\ Len(four) >= 4
        /\ four[1] + 256 * four[2] = IpcMagic /\ four[3] = 1
    BY <1>2
  <2> QED
    BY <1>3, <2>1, IpcHeader
<1> HIDE DEF eight
<1>5. Len(eight) = 8 /\ GetInt32(eight, 5) = Len(p) /\ eight[4] = command
  <2>1. 4 + 4 = 8 /\ 4 + 1 = 5
    OBVIOUS
  <2> QED
    BY <1>2, <1>4, <2>1
<1>6. /\ ValidHeader(bytes, Len(eight)) /\ bytes[4] = eight[4]
      /\ GetInt32(bytes, 5) = Len(p) /\ Len(bytes) = Len(eight) + Len(p)
      /\ SubSeq(bytes, Len(eight) + 1, Len(bytes)) = p
      /\ \A part \in 0 .. Len(bytes) - 1 :
           ~(/\ Len(SubSeq(bytes, 1, part)) >= Len(eight)
             /\ Len(SubSeq(bytes, 1, part))
                  = Len(eight) + GetInt32(SubSeq(bytes, 1, part), 5))
  <2>1. Len(eight) >= 8 /\ 5 + 3 <= Len(eight) /\ 5 \in Nat /\ 5 <= 5
    BY <1>5
  <2> QED
    BY <1>4, <1>5, <2>1, IpcMessage, ZenonT(30)
<1> HIDE DEF bytes
<1>7. DecodesRequest(bytes)
  BY <1>3, <1>5, <1>6 DEF DecodesRequest, RequestHeaderSize
<1>8. DecodedRequest(bytes) = [command |-> command, payload |-> p]
  BY <1>5, <1>6 DEF DecodedRequest, RequestHeaderSize
<1>9. ASSUME NEW part \in 0 .. Len(bytes) - 1
      PROVE  ~DecodesRequest(SubSeq(bytes, 1, part))
  BY <1>5, <1>6, <1>9 DEF DecodesRequest, RequestHeaderSize, ValidHeader
<1> QED
  BY <1>1, <1>7, <1>8, <1>9

(* The same of a response and its status. *)
LEMMA ResponseSurvives ==
  ASSUME NEW command \in Byte, NEW status, Int32(status),
         NEW p \in Seq(Byte), Len(p) <= MaxPayload
  PROVE  LET response == [command |-> command, status |-> status, payload |-> p]
             bytes == EncodeResponse(response)
         IN  /\ DecodesResponse(bytes) /\ DecodedResponse(bytes) = response
             /\ \A part \in 0 .. Len(bytes) - 1 : ~DecodesResponse(SubSeq(bytes, 1, part))
<1> DEFINE four == PutLe16(IpcMagic) \o <<1, command>>
           eight == four \o PutInt32(status)
           twelve == eight \o PutInt32(Len(p))
           bytes == twelve \o p
<1>1. EncodeResponse([command |-> command, status |-> status, payload |-> p]) = bytes
  BY DEF EncodeResponse
<1>2. /\ four \in Seq(Byte) /\ Len(four) = 4
      /\ four[1] + 256 * four[2] = IpcMagic /\ four[3] = 1 /\ four[4] = command
  BY IpcPrefix
<1>3. Int32(Len(p)) /\ Len(p) \in 0 .. MaxPayload
  BY LengthInt32
<1> HIDE DEF four
<1>4. /\ eight \in Seq(Byte) /\ Len(eight) = Len(four) + 4
      /\ eight[1] + 256 * eight[2] = IpcMagic /\ eight[3] = 1 /\ eight[4] = four[4]
      /\ GetInt32(eight, Len(four) + 1) = status
  <2>1. /\ four \in Seq(Byte) /\ Len(four) >= 4
        /\ four[1] + 256 * four[2] = IpcMagic /\ four[3] = 1
    BY <1>2
  <2> QED
    BY <2>1, IpcHeader
<1> HIDE DEF eight
<1>5. Len(eight) = 8 /\ GetInt32(eight, 5) = status /\ eight[4] = command
  <2>1. 4 + 4 = 8 /\ 4 + 1 = 5
    OBVIOUS
  <2> QED
    BY <1>2, <1>4, <2>1
<1>6. /\ twelve \in Seq(Byte) /\ Len(twelve) = Len(eight) + 4
      /\ twelve[1] + 256 * twelve[2] = IpcMagic /\ twelve[3] = 1
      /\ twelve[4] = eight[4] /\ GetInt32(twelve, Len(eight) + 1) = Len(p)
      /\ Len(eight) >= 8 => GetInt32(twelve, 5) = GetInt32(eight, 5)
  <2>1. Len(eight) >= 4
    BY <1>5
  <2> QED
    BY <1>3, <1>4, <2>1, IpcHeader
<1> HIDE DEF twelve
<1>7. /\ Len(twelve) = 12 /\ GetInt32(twelve, 9) = Len(p)
      /\ twelve[4] = command /\ GetInt32(twelve, 5) = status
  <2>1. 8 + 4 = 12 /\ 8 + 1 = 9 /\ 8 >= 8
    OBVIOUS
  <2> QED
    BY <1>5, <1>6, <2>1
<1>8. /\ ValidHeader(bytes, Len(twelve)) /\ bytes[4] = twelve[4]
      /\ GetInt32(bytes, 5) = GetInt32(twelve, 5)
      /\ GetInt32(bytes, 9) = Len(p) /\ Len(bytes) = Len(twelve) + Len(p)
      /\ SubSeq(bytes, Len(twelve) + 1, Len(bytes)) = p
      /\ \A part \in 0 .. Len(bytes) - 1 :
           ~(/\ Len(SubSeq(bytes, 1, part)) >= Len(twelve)
             /\ Len(SubSeq(bytes, 1, part))
                  = Len(twelve) + GetInt32(SubSeq(bytes, 1, part), 9))
  <2>1. Len(twelve) >= 8 /\ 9 + 3 <= Len(twelve) /\ 9 \in Nat /\ 5 <= 9
    BY <1>7
  <2> QED
    BY <1>6, <1>7, <2>1, IpcMessage, ZenonT(30)
<1> HIDE DEF bytes
<1>9. DecodesResponse(bytes)
  BY <1>3, <1>7, <1>8 DEF DecodesResponse, ResponseHeaderSize
<1>10. DecodedResponse(bytes)
         = [command |-> command, status |-> status, payload |-> p]
  BY <1>7, <1>8 DEF DecodedResponse, ResponseHeaderSize
<1>11. ASSUME NEW part \in 0 .. Len(bytes) - 1
       PROVE  ~DecodesResponse(SubSeq(bytes, 1, part))
  BY <1>7, <1>8, <1>11 DEF DecodesResponse, ResponseHeaderSize, ValidHeader
<1> QED
  BY <1>1, <1>9, <1>10, <1>11

(* Every message of the IPC socket survives: any command byte, any payload *)
(* the code allows and any int32_t status decode to what was encoded, and  *)
(* no proper prefix of the bytes decodes.                                  *)
THEOREM IpcRoundTrip == Spec => []IpcSurvives
<1>1. Init => frame \in Frames
  BY DEF Init
<1>2. frame \in Frames /\ [Next]_vars => (frame \in Frames)'
  BY DEF Next, vars, CrcByte, Send, Flip, Truncate, Receive, CompareCrc
<1>3. frame \in Frames => IpcSurvives
  <2> SUFFICES ASSUME frame \in Frames
               PROVE  IpcSurvives
    OBVIOUS
  <2> DEFINE command == frame.type
             p == frame.payload
  <2>1. command \in Byte /\ p \in Seq(Byte) /\ Len(p) <= MaxPayload
    BY FrameBytes
  <2>2. \A status \in Statuses : Int32(status)
    BY StatusInt32
  <2> HIDE DEF command, p
  <2>3. LET request == [command |-> command, payload |-> p]
            bytes == EncodeRequest(request)
        IN  /\ DecodesRequest(bytes) /\ DecodedRequest(bytes) = request
            /\ \A part \in 0 .. Len(bytes) - 1 : ~DecodesRequest(SubSeq(bytes, 1, part))
    BY <2>1, RequestSurvives
  <2>4. ASSUME NEW status \in Statuses
        PROVE  LET response == [command |-> command, status |-> status, payload |-> p]
                   bytes == EncodeResponse(response)
               IN  /\ DecodesResponse(bytes) /\ DecodedResponse(bytes) = response
                   /\ \A part \in 0 .. Len(bytes) - 1 :
                        ~DecodesResponse(SubSeq(bytes, 1, part))
    BY <2>1, <2>2, ResponseSurvives
  <2> QED
    BY <2>3, <2>4 DEF IpcSurvives, command, p
<1> QED
  BY <1>1, <1>2, <1>3, PTL DEF Spec
=============================================================================
