---------------------------- MODULE MCTelemetry ----------------------------
(* Values for the constants of Telemetry.                                  *)
EXTENDS Telemetry

(* The firmware of the device is not exercised. *)
MCCrc(bytes) == 0

BadIntervals == {100, 99}
=============================================================================
