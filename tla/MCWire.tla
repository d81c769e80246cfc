------------------------------- MODULE MCWire -------------------------------
(***************************************************************************)
(* A ping without payload and with the sequence number that uses every     *)
(* byte, and a data frame whose payload holds the extreme byte values.     *)
(***************************************************************************)
EXTENDS Wire

MCFrames ==
  {[type |-> 1, flags |-> 2, sequence |-> {31, 16, 8, 0}, payload |-> <<>>],
   [type |-> 18, flags |-> 4, sequence |-> {0}, payload |-> <<0, 255, 68>>]}

MCStatuses ==      \* OK, error codes, which are negative, and the extremes
  {0, 7, -1, -13, 2147483647, -2147483647 - 1}
=============================================================================
