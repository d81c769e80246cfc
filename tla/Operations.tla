----------------------------- MODULE Operations -----------------------------
(***************************************************************************)
(* What a running daemon promises about upgrade operations: the pair that  *)
(* UPGRADE_STATUS compares and reports.  An operation gets the next id     *)
(* when it is accepted, ends once, and its outcome stays until the next    *)
(* one is accepted.  Daemon implements this module.                        *)
(***************************************************************************)
EXTENDS Naturals

CONSTANT IdModulus   \* 2^32 in the program

VARIABLES
  id,      \* upgrade_operation_id
  state    \* of the upgrade; every active state is WORKING

operation == <<id, state>>

OperationsInit == id = 0 /\ state = "IDLE"

(* Zero means that there is no operation. *)
NextId(i) == IF (i + 1) % IdModulus = 0 THEN 1 ELSE i + 1

(* A file name the worker does not take fails the operation at once. *)
Begin ==
  /\ state # "WORKING"
  /\ id' = NextId(id)
  /\ state' \in {"WORKING", "ERROR"}

End ==
  /\ state = "WORKING"
  /\ state' \in {"COMPLETE", "ERROR"}
  /\ UNCHANGED id

OperationsSpec == OperationsInit /\ [][Begin \/ End]_operation
=============================================================================
