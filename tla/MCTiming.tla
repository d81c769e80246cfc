------------------------------ MODULE MCTiming ------------------------------
(* Values for the constants of Timing, in units of 50 ms.                  *)
EXTENDS Timing

MCCrc(bytes) == Len(bytes) + 1
MCUpgrades == {[image |-> <<1, 2, 3>>, version |-> "A"]}
=============================================================================
