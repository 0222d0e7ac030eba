-------------------------- MODULE MCConfigDelivery --------------------------
(***************************************************************************)
(* ConfigDelivery for TLC.  Keys are numbers, so that -1 stands for NoKey. *)
(***************************************************************************)
EXTENDS ConfigDelivery

NoneOrFirst == {NoKey, 1}

\* The unsigned rounds look at no key; for the signed ones one bundle is enough.  What
\* three rotations do to the key file is seen with any of them.
ChangesIn ==
    [m \in Modes |-> [upserts |-> IF m \in Verifying THEN 1 ELSE 2,
                      rotations |-> CASE m = "signed" -> 3 [] m = "keyrefresh" -> 2
                                      [] m = "signedwatch" -> 1 [] OTHER -> 0]]

=============================================================================
