--------------------------- MODULE MCControlStore ---------------------------
(***************************************************************************)
(* Instances of ControlStore for TLC.  Handlers and objects are            *)
(* interchangeable.                                                        *)
(***************************************************************************)
EXTENDS ControlStore, TLC

Symmetry == Permutations(Handlers) \cup Permutations(Objects)

=============================================================================
