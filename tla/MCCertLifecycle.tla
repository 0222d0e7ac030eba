-------------------------- MODULE MCCertLifecycle --------------------------
(***************************************************************************)
(* Instances of CertLifecycle for TLC.                                     *)
(***************************************************************************)
EXTENDS CertLifecycle, TLC

\* Serials are random and handlers alike: neither is ever compared but for equality.
Symmetry == Permutations(Serials) \cup Permutations(Handlers)

=============================================================================
