--------------------------- MODULE MCNodeService ---------------------------
(***************************************************************************)
(* Instances of NodeService for TLC.                                       *)
(***************************************************************************)
EXTENDS NodeService

CONSTANTS e0, e1

SomeContents ==
    {[version |-> 1, endpoint |-> e1, healthy |-> "false"],
     [version |-> 1, endpoint |-> NoEndpoint, healthy |-> "true"],
     [version |-> 2, endpoint |-> e0, healthy |-> "maybe"]}

SomeRegistrations ==
    {[endpoint |-> e0, healthy |-> TRUE], [endpoint |-> NoEndpoint, healthy |-> FALSE]}

=============================================================================
