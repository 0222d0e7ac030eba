------------------------ MODULE MCTransportSelector ------------------------
(***************************************************************************)
(* Instances of TransportSelector for TLC.                                 *)
(***************************************************************************)
EXTENDS TransportSelector

=============================================================================
