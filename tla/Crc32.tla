------------------------------- MODULE Crc32 -------------------------------
(***************************************************************************)
(* The CRC-32 of src/common/crc32.c, bit by bit, and the mathematical      *)
(* definition it must agree with: the remainder of a polynomial division.  *)
(*                                                                         *)
(* A 32-bit word is the set of its one bits, so exclusive or is symmetric  *)
(* difference, and a polynomial over GF(2) is the set of its exponents.    *)
(***************************************************************************)
EXTENDS Integers, Sequences, FiniteSetsExt

Word == SUBSET (0 .. 31)

Xor(a, b) == (a \ b) \union (b \ a)
ShiftRight(word) == {i - 1 : i \in word \ {0}}
ByteBits(byte) == {i \in 0 .. 7 : (byte \div 2 ^ i) % 2 = 1}

Reflected == {31, 30, 29, 27, 26, 24, 23, 21, 20, 19, 15, 9, 8, 5}  \* 0xEDB88320

(* Mutant: the bit shifted out is looked at too late. *)
StepAfterShift(word) ==
  IF 0 \in ShiftRight(word) THEN Xor(ShiftRight(word), Reflected)
                            ELSE ShiftRight(word)

(* mask = 0 - (state & 1); state = (state >> 1) ^ (polynomial & mask) *)
Step(word) ==
  IF 0 \in word THEN Xor(ShiftRight(word), Reflected) ELSE ShiftRight(word)

(* One round of the outer loop of devmgr_crc32_update. *)
UpdateByte(word, byte) ==
  LET after[bit \in 0 .. 8] ==
        IF bit = 0 THEN Xor(word, ByteBits(byte)) ELSE Step(after[bit - 1])
  IN  after[8]

CrcInit == 0 .. 31                      \* DEVMGR_CRC32_INIT, 0xFFFFFFFF
Finish(word) == Xor(word, 0 .. 31)      \* DEVMGR_CRC32_XOR_OUT

(***************************************************************************)
(* The reference.  docs/protocol.md names the reflected ISO-HDLC variant   *)
(* of polynomial 0x04C11DB7.  The message, each byte from its lowest bit,  *)
(* is a polynomial whose remainder modulo the generator is carried along:  *)
(* for each byte the remainder is multiplied by x^8, the byte is added     *)
(* above x^32, and eight steps of long division cancel what is too high.   *)
(***************************************************************************)
Generator == {32, 26, 23, 22, 16, 12, 11, 10, 8, 7, 5, 4, 2, 1, 0}

(* Subtract the multiple of the generator that cancels x^top. *)
Reduced(rest, top) ==
  IF top \in rest THEN Xor(rest, {e + top - 32 : e \in Generator}) ELSE rest

Divide(rest, byte) ==
  LET left[k \in 0 .. 8] ==
        IF k = 0 THEN Xor({e + 8 : e \in rest}, {39 - i : i \in ByteBits(byte)})
                 ELSE Reduced(left[k - 1], 40 - k)
  IN  left[8]

(* The register holds the remainder from its highest coefficient. *)
Mirrored(rest) == {31 - e : e \in rest}
=============================================================================
