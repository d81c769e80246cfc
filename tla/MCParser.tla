------------------------------ MODULE MCParser ------------------------------
(***************************************************************************)
(* Frames of at most ten units.  7 and 8 are the magic units, 9 a good     *)
(* rest of the header, 20 and above CRCs.  Three frames are sent: an empty *)
(* one, one whose payload looks like a magic, and one whose payload is a   *)
(* complete encoded frame.  No two different bodies have the same CRC:     *)
(* what CRC32 detects is the subject of Crc32.                             *)
(***************************************************************************)
EXTENDS Parser, SequencesExt

MCMagic == <<7, 8>>
Empty == <<7, 8, 9, 0>>
Tricky == <<7, 8, 9, 2, 7, 8>>
Quoting == <<7, 8, 9, 5>> \o Append(Empty, 20)
MCCrc(body) == CASE body = Empty -> 20 [] body = Tricky -> 21
                 [] body = Quoting -> 22 [] OTHER -> 23

Intact == {Encode(9, <<>>), Encode(9, <<7, 8>>), Encode(9, Encode(9, <<>>))}

(* One unit lost or changed: into magic, into a length that is too small,  *)
(* too large but possible, or impossible (and a bad version).              *)
Without(s, i) == SubSeq(s, 1, i - 1) \o SubSeq(s, i + 1, Len(s))
Hurt(s) == {Without(s, i) : i \in 1 .. Len(s)}
             \union {[s EXCEPT ![i] = u] : i \in 1 .. Len(s), u \in {1, 5, 6, 7, 30}}
Damages == UNION {Hurt(s) : s \in Intact} \ Intact
Noise == {<<7>>, <<7, 8>>, <<8, 7>>}

Piece(units, intact) == [units |-> units, intact |-> intact]
Good == {Piece(units, TRUE) : units \in Intact}
Bad == {Piece(units, FALSE) : units \in Damages \union Noise}

Joined(pieces) ==
  LET end[i \in 0 .. Len(pieces)] ==
        IF i = 0 THEN 0 ELSE end[i - 1] + Len(pieces[i].units)
      At(i) == <<end[i - 1] + 1, end[i]>>
  IN  [units |-> FlattenSeq([i \in 1 .. Len(pieces) |-> pieces[i].units]),
       frames |-> {At(i) : i \in {j \in 1 .. Len(pieces) : pieces[j].intact}}]

Short == Piece(Encode(9, <<>>), TRUE)

(* A damaged frame or noise and two frames; three frames; and one of each  *)
(* before six short frames, enough for callbacks to fail three times.     *)
MCStreams ==
  {Joined(<<bad, good, Short>>) : bad \in Bad, good \in Good}
    \union {Joined(pieces) : pieces \in [1 .. 3 -> Good]}
    \union {Joined(<<first, Short, Short, Short, Short, Short, Short>>) :
              first \in {Piece([Short.units EXCEPT ![4] = 5], FALSE)} \union Good}

MCDamaged(s) ==
  {p \in 1 .. Len(s.units) : \A f \in s.frames : ~(f[1] <= p /\ p <= f[2])}
=============================================================================
