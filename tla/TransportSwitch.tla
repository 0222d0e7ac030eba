-------------------------- MODULE TransportSwitch --------------------------
(***************************************************************************)
(* Switching the agent's transport: transport.Supervisor, which starts and *)
(* stops the tunnel programs of the host, transport.SwitchRuntime, which   *)
(* decides whether to switch, the two threads of agent.Service that drive  *)
(* them, and the snapshot's protocol, which evaluations and configuration  *)
(* bundles both write.                                                     *)
(*                                                                         *)
(* Service.Start reads the runtime's protocol under the service lock,      *)
(* releases the lock and only then activates that protocol.  Every         *)
(* evaluation of link signals (EvaluateAndApply) holds the service lock    *)
(* across the activation.  Supervisor.Activate holds its own lock, so one  *)
(* activation is one step; its stop, start and restore each may fail.      *)
(***************************************************************************)
EXTENDS Naturals, FiniteSets

CONSTANTS Protocols,         \* transports the runtime can select
          Specs,             \* those the supervisor has a lifecycle spec for
          CommandMode,       \* those that outlive the agent (wg-quick up / down)
          None,              \* no protocol
          MaxLives           \* bound: how often the agent process is started

ASSUME ProtocolsAssumption ==
    /\ Specs \subseteq Protocols
    /\ CommandMode \subseteq Protocols
    /\ None \notin Protocols
    /\ MaxLives \in Nat \ {0}

VARIABLES host,      \* transports that are up on the host
          active,    \* Supervisor.active, or None when activeSet is false
          current,   \* SwitchRuntime.active
          cooling,   \* the last switch is less than the cooldown ago
          start,     \* progress of Service.Start
          initial,   \* the protocol Start read under the lock
          shown,     \* Snapshot.Protocol: what the agent shows and sends as telemetry
          overridden, \* history: a bundle has set shown since the last evaluation
          unreported, \* history: the report of a switch failed, and none succeeded since
          raced,     \* history: the last switch was made between Start's two halves
          leftover,  \* transports still up when the previous agent process ended
          lives      \* agent processes started so far (bounded by MaxLives)

vars == <<host, active, current, shown, overridden, unreported, cooling, start, initial,
          raced, leftover, lives>>

Init ==
    /\ host = {}
    /\ active = None
    /\ current \in Protocols
    /\ cooling = FALSE
    /\ start = "new"
    /\ initial = None
    /\ shown = current
    /\ overridden = FALSE
    /\ unreported = FALSE
    /\ raced = FALSE
    /\ leftover = {}
    /\ lives = 1

-----------------------------------------------------------------------------

\* Mutant of Activate: the new transport is started before the old one is
\* stopped, and a failed stop leaves both.
ActivateStartFirst(p, ok) ==
    \/ /\ active = p
       /\ ok
       /\ UNCHANGED <<host, active>>
    \/ /\ active # p
       /\ p \in Specs
       /\ IF ok THEN host' = (host \ {active}) \cup {p} /\ active' = p
                ELSE host' = host \cup {p} /\ UNCHANGED active

\* Supervisor.Activate(p) returns without (ok) or with an error.
Activate(p, ok) ==
    \/ /\ active = p                        \* already active: nothing is looked at
       /\ ok
       /\ UNCHANGED <<host, active>>
    \/ /\ active # p                        \* no lifecycle spec
       /\ p \notin Specs
       /\ ~ok
       /\ UNCHANGED <<host, active>>
    \/ /\ active \notin {p, None}           \* stopLocked fails; the program may be gone
       /\ p \in Specs
       /\ ~ok
       /\ host' \in {host, host \ {active}}
       /\ UNCHANGED active
    \/ /\ active # p                        \* stopped and started
       /\ p \in Specs
       /\ ok
       /\ host' = (host \ {active}) \cup {p}
       /\ active' = p
    \/ /\ active = None                     \* nothing to stop, start fails
       /\ p \in Specs
       /\ ~ok
       /\ UNCHANGED <<host, active>>
    \/ /\ active \notin {p, None}           \* start fails, restoreLocked succeeds
       /\ p \in Specs
       /\ ~ok
       /\ host' = host \cup {active}
       /\ UNCHANGED active
    \/ /\ active \notin {p, None}           \* start fails, restoreLocked fails
       /\ p \in Specs
       /\ ~ok
       /\ host' = host \ {active}
       /\ active' = None

-----------------------------------------------------------------------------

\* Service.Start, under the service lock: the protocol to begin with is read.
StartRead ==
    /\ start = "new"
    /\ start' = "read"
    /\ initial' = current
    /\ UNCHANGED <<host, active, current, shown, overridden, unreported, cooling, raced,
                   leftover, lives>>

\* Service.Start, after the lock was released: that protocol is activated.
StartApply ==
    /\ start = "read"
    /\ \E ok \in BOOLEAN :
          /\ Activate(initial, ok)
          /\ start' = IF ok THEN "running" ELSE "failed"
    /\ UNCHANGED <<current, shown, overridden, unreported, cooling, initial, raced,
                   leftover, lives>>

\* Signals can be evaluated from the moment the service exists; when Start fails, the
\* agent ends.
Probing == start \in {"new", "read", "running"}

\* SwitchRuntime.report and the rest of Service.EvaluateAndApply: once the report is
\* delivered, the snapshot takes over its protocol p.  When the reporter fails, Evaluate
\* returns its error although the switch (switched) is made, and the snapshot stays.
Show(p, switched) ==
    \/ /\ shown' = p
       /\ overridden' = FALSE
       /\ unreported' = FALSE
    \/ /\ unreported' = (unreported \/ switched)
       /\ UNCHANGED <<shown, overridden>>

\* Evaluate, when the selector's choice is what the runtime has.
EvaluateSame ==
    /\ Probing
    /\ Show(current, FALSE)
    /\ UNCHANGED <<host, active, current, cooling, start, initial, raced, leftover, lives>>

\* Evaluate, when a switch was made less than the cooldown ago.
EvaluateSuppressed(p) ==
    /\ Probing
    /\ p # current
    /\ cooling
    /\ Show(current, FALSE)
    /\ UNCHANGED <<host, active, current, cooling, start, initial, raced, leftover, lives>>

\* Mutant of EvaluateSwitch: the runtime moves on although the activation failed.
EvaluateSwitchIgnoringError(p) ==
    /\ Probing
    /\ p # current
    /\ ~cooling
    /\ \E ok \in BOOLEAN : Activate(p, ok)
    /\ current' = p
    /\ cooling' = TRUE
    /\ Show(p, TRUE)
    /\ raced' = (start = "read")
    /\ UNCHANGED <<start, initial, leftover, lives>>

\* Evaluate, when the selected protocol p is to be activated.  On an error the
\* runtime keeps its protocol, and a rollback to it is reported.
EvaluateSwitch(p) ==
    /\ Probing
    /\ p # current
    /\ ~cooling
    /\ \/ /\ Activate(p, TRUE)
          /\ current' = p
          /\ cooling' = TRUE
          /\ Show(p, TRUE)
          /\ raced' = (start = "read")
       \/ /\ Activate(p, FALSE)
          /\ Show(current, FALSE)
          /\ UNCHANGED <<current, cooling, raced>>
    /\ UNCHANGED <<start, initial, leftover, lives>>

CooldownElapses ==
    /\ cooling
    /\ cooling' = FALSE
    /\ UNCHANGED <<host, active, current, start, initial, shown, overridden, unreported, raced,
                   leftover, lives>>

\* Service.ApplyConfig with a bundle that names the transport p: the snapshot shows it,
\* and neither runtime nor supervisor hears of it.  The cache file and the version that
\* the same call changes are ConfigDelivery's.
ApplyConfig(p) ==
    /\ start # "ended"
    /\ shown' = p
    /\ overridden' = TRUE
    /\ UNCHANGED <<host, active, current, unreported, cooling, start, initial, raced,
                   leftover, lives>>

\* A tunnel program exits by itself; nothing in the agent notices.
TunnelDies(p) ==
    /\ p \in host \ CommandMode
    /\ host' = host \ {p}
    /\ UNCHANGED <<active, current, cooling, start, initial, shown, overridden, unreported, raced,
                   leftover, lives>>

\* The agent process ends.  On an orderly end its context is done, which kills
\* the programs it started; what a command brought up stays up.  A crash leaves
\* the programs running as well.
AgentEnds ==
    /\ start # "ended"
    /\ start' = "ended"
    /\ host' \in {host, host \cap CommandMode}
    /\ UNCHANGED <<active, current, cooling, initial, shown, overridden, unreported, raced,
                   leftover, lives>>

\* A new process knows nothing of what the previous one left on the host.
AgentStarts ==
    /\ start = "ended"
    /\ lives < MaxLives
    /\ lives' = lives + 1
    /\ start' = "new"
    /\ active' = None
    /\ current' \in Protocols
    /\ cooling' = FALSE
    /\ initial' = None
    /\ shown' = current'
    /\ overridden' = FALSE
    /\ unreported' = FALSE
    /\ raced' = FALSE
    /\ leftover' = host
    /\ UNCHANGED host

Next ==
    \/ StartRead
    \/ StartApply
    \/ EvaluateSame
    \/ \E p \in Protocols : EvaluateSuppressed(p)
    \/ \E p \in Protocols : EvaluateSwitch(p)
    \/ CooldownElapses
    \/ \E p \in Protocols : ApplyConfig(p)
    \/ \E p \in Protocols : TunnelDies(p)
    \/ AgentEnds
    \/ AgentStarts

Spec == Init /\ [][Next]_vars

-----------------------------------------------------------------------------
(***************************************************************************)
(* Properties.                                                             *)
(***************************************************************************)

\* Every variable has its type.
TypeOK ==
    /\ host \subseteq Protocols
    /\ active \in Protocols \cup {None}
    /\ current \in Protocols
    /\ cooling \in BOOLEAN
    /\ start \in {"new", "read", "running", "failed", "ended"}
    /\ initial \in Protocols \cup {None}
    /\ start = "read" => initial \in Protocols
    /\ shown \in Protocols
    /\ overridden \in BOOLEAN
    /\ unreported \in BOOLEAN
    /\ raced \in BOOLEAN
    /\ leftover \subseteq Protocols
    /\ lives \in 0 .. MaxLives

\* Whatever combination of stop, start and restore failures the supervisor goes
\* through, it never leaves a second transport of its own up: what is up on the
\* host is the protocol it has on record, or was left by an earlier process.
NoOrphanTransport == host \subseteq {active} \cup leftover

\* Once Start has activated the first transport, the protocol the runtime decides with
\* is the one the supervisor has on record, or a restore has failed and nothing is;
\* unless a switch fell between the read of Start and its activation, and then until
\* the next switch.  It is also what the agent shows and sends as telemetry, except from
\* a bundle that names a transport, or from a switch whose report fails after it was made,
\* to the next evaluation that is reported; other failed reports leave it right.
RuntimeMatchesSupervisor ==
    start = "running" /\ ~raced =>
        /\ active \in {current, None}
        /\ overridden \/ unreported \/ shown = current

=============================================================================
