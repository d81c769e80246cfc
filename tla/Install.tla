------------------------------ MODULE Install ------------------------------
(***************************************************************************)
(* What a firmware upgrade promises to the user who polls its status, and  *)
(* nothing of how: one operation at a time; the device only ever switches  *)
(* to a firmware somebody asked for, never after an operation has been     *)
(* reported COMPLETE; and COMPLETE means that the firmware of that         *)
(* operation is installed, to the last byte.  A failed operation promises  *)
(* nothing: its firmware may be installed, even after the failure has been *)
(* reported.                                                               *)
(***************************************************************************)
EXTENDS Integers

CONSTANTS Firmwares,    \* the firmwares that may be asked for
          Factory       \* the firmware the device comes with

VARIABLES status,       \* of the latest operation
          requested,    \* its firmware
          asked,        \* the firmwares of all operations
          installed     \* what the device runs

installVars == <<status, requested, asked, installed>>

InstallInit == /\ status = "IDLE"
               /\ requested \notin Firmwares
               /\ asked = {}
               /\ installed = Factory

(* An operation starts, or is refused on the spot. *)
Request(firmware) == /\ status # "RUNNING"
                     /\ status' \in {"RUNNING", "ERROR"}
                     /\ requested' = firmware
                     /\ asked' = asked \union {firmware}
                     /\ UNCHANGED installed

Switch == /\ status \in {"RUNNING", "ERROR"}
          /\ installed' \in asked
          /\ UNCHANGED <<status, requested, asked>>

Succeed == /\ status = "RUNNING"
           /\ installed = requested
           /\ status' = "COMPLETE"
           /\ UNCHANGED <<requested, asked, installed>>

GiveUp == /\ status = "RUNNING"
          /\ status' = "ERROR"
          /\ UNCHANGED <<requested, asked, installed>>

InstallNext == \/ \E firmware \in Firmwares : Request(firmware)
               \/ Switch \/ Succeed \/ GiveUp

InstallSpec == InstallInit /\ [][InstallNext]_installVars
=============================================================================
