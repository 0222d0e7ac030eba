------------------------------ MODULE AuditLog ------------------------------
(***************************************************************************)
(* What the control plane's store promises about its audit trails, apart   *)
(* from how it keeps them: one append-only log per tenant, of which some   *)
(* prefix is on stable storage.  A crash falls back to that prefix, never  *)
(* to anything else, and nothing that was once appended is edited.  The    *)
(* detailed specification in ControlStore implements this one.             *)
(***************************************************************************)
EXTENDS Naturals, Sequences, SequencesExt

CONSTANTS Tenants,   \* tenant identifiers
          Events     \* what an entry of a trail can be

VARIABLES log,       \* log[t]: the trail of tenant t, as the running server has it
          stable,    \* stable[t]: the trail of tenant t on stable storage
          archive,   \* archive[t]: the trail of tenant t in the last backup
          up         \* the server is running

vars == <<log, stable, archive, up>>

Trails == [Tenants -> Seq(Events)]

EmptyTrails == [t \in Tenants |-> <<>>]

\* Every trail of a is an initial part of the trail of the same tenant in b.
Behind(a, b) == \A t \in Tenants : IsPrefix(a[t], b[t])

Init ==
    /\ log = EmptyTrails
    /\ stable = EmptyTrails
    /\ archive = EmptyTrails
    /\ up = TRUE

\* One entry is added at the end of one trail.
Add ==
    /\ up
    /\ \E t \in Tenants, e \in Events : log' = [log EXCEPT ![t] = Append(@, e)]
    /\ UNCHANGED <<stable, archive, up>>

\* Stable storage takes some earlier (or the present) value of every trail.
Persist ==
    /\ up
    /\ stable' \in Trails
    /\ Behind(stable', log)
    /\ UNCHANGED <<log, archive, up>>

Stop ==
    /\ up
    /\ up' = FALSE
    /\ UNCHANGED <<log, stable, archive>>

Recover ==
    /\ ~up
    /\ up' = TRUE
    /\ log' = stable
    /\ UNCHANGED <<stable, archive>>

Copy ==
    /\ archive' = stable
    /\ UNCHANGED <<log, stable, up>>

\* An operator puts a backup in place of the stable trails, with the server down.
PutBack ==
    /\ ~up
    /\ stable' = archive
    /\ UNCHANGED <<log, archive, up>>

Next == Add \/ Persist \/ Stop \/ Recover \/ Copy \/ PutBack

Spec == Init /\ [][Next]_vars

=============================================================================
