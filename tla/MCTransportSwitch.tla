------------------------- MODULE MCTransportSwitch -------------------------
(***************************************************************************)
(* Instances of TransportSwitch for TLC: the four protocols of             *)
(* transport.Protocol, with the lifecycle specs of DefaultLifecycleSpecs.  *)
(***************************************************************************)
EXTENDS TransportSwitch

=============================================================================
