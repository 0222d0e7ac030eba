--------------------------- MODULE MCEdgeIngress ---------------------------
(***************************************************************************)
(* Instances of EdgeIngress for TLC.                                       *)
(***************************************************************************)
EXTENDS EdgeIngress, TLC

CONSTANTS t1, tbad, k1

OneCredential == (t1 :> k1) @@ (tbad :> NoKey)
SomeLoads == {-1, 0, 1}
\* Two connections share the limiter and are waited for at shutdown; a client meets
\* heartbeats in any order; four requests straddle two windows.
SomeBounds ==
    { [conns |-> 2, requests |-> 0, heartbeats |-> 1],
      [conns |-> 1, requests |-> 0, heartbeats |-> 2],
      [conns |-> 0, requests |-> 1, heartbeats |-> 3],
      [conns |-> 0, requests |-> 4, heartbeats |-> 0] }

=============================================================================
