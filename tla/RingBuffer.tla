----------------------------- MODULE RingBuffer -----------------------------
(***************************************************************************)
(* The ring buffer of src/common/ring_buffer.c as operators on a record:   *)
(* storage, the position of the oldest byte and the number of bytes held.  *)
(* Each copy is the code's two memcpy calls, up to the end of the storage  *)
(* and from its start.  The NULL arguments no caller passes, and reset and     *)
(* read, which no program calls, are left out.                             *)
(***************************************************************************)
EXTENDS Integers, Sequences

CONSTANT Capacity       \* sizeof(parser->storage), 2 * 4112 in the program

ASSUME CapacityAssumption == Capacity \in Nat \ {0}

Positions == 0 .. Capacity - 1

Minimum(left, right) == IF left < right THEN left ELSE right

RingInit(storage) == [storage |-> storage, read_pos |-> 0, size |-> 0]

RingSpace(r) == Capacity - r.size

(* memcpy(storage + position, data, n) and the rest of count at 0. *)
Stored(storage, position, data, count) ==
  LET first == Minimum(count, Capacity - position)
  IN  [p \in Positions |->
         IF position <= p /\ p < position + first THEN data[p - position + 1]
         ELSE IF p < count - first THEN data[first + p + 1]
         ELSE storage[p]]

RingWritten(r, data) == Minimum(Len(data), RingSpace(r))

(* Mutant: the write position ignores read_pos. *)
WriteAtSize(r, data) ==
  LET count == RingWritten(r, data)
  IN  [r EXCEPT !.storage = Stored(r.storage, r.size % Capacity, data, count),
                !.size = @ + count]

RingWrite(r, data) ==
  LET count == RingWritten(r, data)
  IN  [storage |-> Stored(r.storage, (r.read_pos + r.size) % Capacity,
                          data, count),
       read_pos |-> r.read_pos,
       size |-> r.size + count]

(* What RingPeek copies out; empty when it returns 0. *)
RingPeek(r, offset, length) ==
  LET count == IF offset >= r.size THEN 0 ELSE Minimum(length, r.size - offset)
      position == (r.read_pos + offset) % Capacity
      first == Minimum(count, Capacity - position)
  IN  [k \in 1 .. count |-> IF k <= first THEN r.storage[position + k - 1]
                                          ELSE r.storage[k - first - 1]]

RingDiscard(r, length) ==
  LET count == Minimum(length, r.size)
      left == r.size - count
  IN  [storage |-> r.storage,
       read_pos |-> IF left = 0 THEN 0 ELSE (r.read_pos + count) % Capacity,
       size |-> left]

(* The bytes the ring holds, oldest first. *)
Contents(r) == [i \in 1 .. r.size |-> r.storage[(r.read_pos + i - 1) % Capacity]]
=============================================================================
