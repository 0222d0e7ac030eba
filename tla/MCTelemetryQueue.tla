-------------------------- MODULE MCTelemetryQueue --------------------------
(***************************************************************************)
(* Instances of TelemetryQueue for TLC.                                    *)
(***************************************************************************)
EXTENDS TelemetryQueue

=============================================================================
