----------------------------- MODULE MCExchange -----------------------------
(* Values for the constants of Exchange.                                   *)
EXTENDS Exchange

Req(declared, total) == [declared |-> declared, total |-> total]

(* What devctl sends: a header and the payload it announces. *)
Proper == {Req(n, HeaderSize + n) : n \in 0 .. MaxPayload}
(* A payload beyond the limit too. *)
WithTooLong == Proper \union {Req(MaxPayload + 1, HeaderSize + MaxPayload + 1)}
=============================================================================
