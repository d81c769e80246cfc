----------------------------- MODULE MCTransfer -----------------------------
(* Values for the constants of Transfer.                                   *)
EXTENDS Transfer

(* A checksum that tells the images and their parts apart. *)
MCCrc(bytes) ==
  LET weighted[n \in 0 .. Len(bytes)] ==
        IF n = 0 THEN 1 ELSE 5 * weighted[n - 1] + bytes[n]
  IN  weighted[Len(bytes)]

(* Requests that differ in the image only and in the version only; the     *)
(* last chunk of two bytes is a short one.                                 *)
MCUpgrades == {[image |-> <<1, 2, 3>>, version |-> "A"],
               [image |-> <<1, 2, 3>>, version |-> "B"],
               [image |-> <<1, 4, 3>>, version |-> "A"]}

(* Sequences matter only by their distance from the next one. *)
Aged(frame) == IF frame = NoFrame THEN frame
               ELSE [frame EXCEPT !.sequence = session.next_sequence - @]

View == <<session.state, IF session.pending.active THEN Aged(session.pending) ELSE NoRequest, upgrade,
          upgrade_result, operations, asked, stopped, device, Aged(output),
          [i \in 1 .. Len(requests) |-> Aged(requests[i])],
          [i \in 1 .. Len(responses) |-> Aged(responses[i])]>>
=============================================================================
