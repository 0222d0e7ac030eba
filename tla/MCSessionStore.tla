--------------------------- MODULE MCSessionStore ---------------------------
(***************************************************************************)
(* Instances of SessionStore for TLC.                                      *)
(***************************************************************************)
EXTENDS SessionStore, TLC

CONSTANTS h1, h2

Admin == [id |-> "root", tenant |-> "t1", roles |-> {"admin"}]

\* One subject, who has all four kinds of proof: which subject a session is of makes no
\* difference to any save.
OneSubject == {Admin}
SomeIDTokens ==
    {[signed |-> TRUE, forUs |-> TRUE, subject |-> Admin, exp |-> 2, nbf |-> 1],
     [signed |-> FALSE, forUs |-> TRUE, subject |-> Admin, exp |-> 2, nbf |-> 0]}
SomeCertificates == {[subject |-> Admin, notBefore |-> 1, notAfter |-> 2]}
HandlerSymmetry == Permutations(Handlers)

=============================================================================
