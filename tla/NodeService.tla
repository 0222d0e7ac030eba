---------------------------- MODULE NodeService ----------------------------
(***************************************************************************)
(* A POP node and the control plane's record of it: the node's sync and    *)
(* watch rounds (read the snapshot, ask for a configuration, apply it,     *)
(* push a heartbeat, take over what the control plane answers), and the    *)
(* node record and configurations at the control plane.                    *)
(*                                                                         *)
(* The rounds share the node's snapshot, which is locked only while it is  *)
(* read or changed: a round that is given no configuration pushes what it  *)
(* read before it asked, and an answer may meet a snapshot that has        *)
(* changed since its heartbeat was sent.  Requests and answers may be      *)
(* lost, a heartbeat whose sender gave up may be recorded later, the node  *)
(* may restart, and its record may be retired, or registered anew.         *)
(***************************************************************************)
EXTENDS Integers

CONSTANTS Workers,        \* rounds that may run at the same time: "sync", "watch"
          Contents,       \* what a bundle may say: [version, endpoint, healthy]
          Endpoints,
          NoEndpoint,     \* the empty string
          FlagEndpoint,   \* the node's --endpoint flag; its --healthy flag is TRUE
          Registrations,  \* what a registration may say: [endpoint, healthy]
          MaxId,          \* bound: identifiers of bundles
          MaxUpserts,     \* bound: bundles put at the control plane
          MaxFaults       \* bound: lost messages, restarts, retirements, registrations

ASSUME NodeAssumption ==
    /\ NoEndpoint \notin Endpoints /\ FlagEndpoint \in Endpoints \union {NoEndpoint}
    /\ \A c \in Contents : c.endpoint \in Endpoints \union {NoEndpoint}
    /\ Registrations \subseteq [endpoint : Endpoints \union {NoEndpoint}, healthy : BOOLEAN]
    /\ MaxId \in Nat \ {0} /\ MaxUpserts \in Nat /\ MaxFaults \in Nat

NoBundle == [version |-> 0, endpoint |-> NoEndpoint, healthy |-> "", at |-> 0]

\* The configuration values ParseBool takes; any other non-empty one is refused.
BooleanTexts == {"true", "false"}

VARIABLES configs,     \* the bundles for this node: id -> bundle
          record,      \* the control plane's node: [known, endpoint, healthy]
          late,        \* heartbeats given up on that may still be recorded
          snapshot,    \* the node: [version, endpoint, healthy]
          pc, since, fetched, beat, \* per worker: where it is, the version it asked
                       \* with, the bundle it fetched, the heartbeat it read from
                       \* the snapshot and later the answer to it
          upserts, faults,
          intended,    \* history: the values of the bundles applied in full
          rejected,    \* history: a malformed bundle was applied in part
          overlapped   \* history: a heartbeat went out, or was answered, after the
                       \* values it was read from had changed

worker == <<pc, since, fetched, beat>>
control == <<configs, record, late>>
nodeHistory == <<intended, rejected, overlapped>>
nodeVars == <<control, snapshot, worker, upserts, faults, nodeHistory>>

Flags == [version |-> 0, endpoint |-> FlagEndpoint, healthy |-> TRUE]
Beats == [endpoint : Endpoints \union {NoEndpoint}, healthy : BOOLEAN]
NoBeat == [endpoint |-> NoEndpoint, healthy |-> FALSE]

NodeInit ==
    /\ configs = [i \in 1..MaxId |-> NoBundle]
    /\ record = [known |-> TRUE, endpoint |-> NoEndpoint, healthy |-> FALSE]
    /\ late = {}
    /\ snapshot = Flags
    /\ pc = [w \in Workers |-> "idle"]
    /\ since = [w \in Workers |-> 0]
    /\ fetched = [w \in Workers |-> NoBundle]
    /\ beat = [w \in Workers |-> NoBeat]
    /\ upserts = 0 /\ faults = 0
    /\ intended = Flags /\ rejected = FALSE /\ overlapped = FALSE

Fault == faults < MaxFaults /\ faults' = faults + 1

-----------------------------------------------------------------------------
(* The control plane.                                                      *)

UpsertConfig(id, content) ==
    /\ upserts < MaxUpserts /\ upserts' = upserts + 1
    /\ configs' = [configs EXCEPT ![id] =
           [version |-> content.version, endpoint |-> content.endpoint,
            healthy |-> content.healthy, at |-> upserts + 1]]
    /\ UNCHANGED <<record, late, snapshot, worker, faults, nodeHistory>>

\* selectConfig: the loop over the bundles in the order of their identifiers.
selectConfig(bundles) ==
    LET selected[i \in 0..MaxId] ==
            IF i = 0 THEN NoBundle
            ELSE IF /\ bundles[i] # NoBundle
                    /\ \/ selected[i - 1] = NoBundle
                       \/ bundles[i].at > selected[i - 1].at
                       \/ bundles[i].version > selected[i - 1].version
                 THEN bundles[i]
                 ELSE selected[i - 1]
    IN  selected[MaxId]

RetireNode ==
    /\ Fault /\ record.known
    /\ record' = [known |-> FALSE, endpoint |-> NoEndpoint, healthy |-> FALSE]
    /\ UNCHANGED <<configs, late, snapshot, worker, upserts, nodeHistory>>

\* RegisterNode: the node of the request, over one that may be there already.
RegisterNode(b) ==
    /\ Fault
    /\ record' = [known |-> TRUE, endpoint |-> b.endpoint, healthy |-> b.healthy]
    /\ UNCHANGED <<configs, late, snapshot, worker, upserts, nodeHistory>>

\* Mutant: a heartbeat without an endpoint is taken for an unhealthy node.
RecordedBlankIsDown(b) ==
    [known |-> TRUE, healthy |-> b.healthy /\ b.endpoint # NoEndpoint,
     endpoint |-> IF b.endpoint # NoEndpoint THEN b.endpoint ELSE record.endpoint]

\* RecordNodeHeartbeat: what the node record becomes.
Recorded(b) ==
    [known |-> TRUE, healthy |-> b.healthy,
     endpoint |-> IF b.endpoint # NoEndpoint THEN b.endpoint ELSE record.endpoint]

LateHeartbeat(b) ==
    /\ late' = late \ {b}
    /\ record' = IF record.known THEN Recorded(b) ELSE record
    /\ UNCHANGED <<configs, snapshot, worker, upserts, faults, nodeHistory>>

-----------------------------------------------------------------------------
(* A round of the node.                                                    *)

Snapshot == [endpoint |-> snapshot.endpoint, healthy |-> snapshot.healthy]

\* SyncOnce and WatchConfigOnce begin: the snapshot is read, then the control plane is
\* asked, by a watch for what is not the version that was read.
StartRound(w) ==
    /\ pc[w] = "idle"
    /\ pc' = [pc EXCEPT ![w] = "fetch"]
    /\ beat' = [beat EXCEPT ![w] = Snapshot]
    /\ since' = [since EXCEPT ![w] = IF w = "watch" THEN snapshot.version ELSE 0]
    /\ UNCHANGED <<control, snapshot, fetched, upserts, faults, nodeHistory>>

\* The round holds values the snapshot no longer has.
Stale(w) == beat[w] # Snapshot

\* The answer to a request for configurations: a bundle that the round applies next, or
\* none, and the heartbeat is the one read before.
Answered(w, bundle) ==
    /\ pc' = [pc EXCEPT ![w] = IF bundle = NoBundle THEN "push" ELSE "apply"]
    /\ since' = [since EXCEPT ![w] = 0]
    /\ fetched' = [fetched EXCEPT ![w] = bundle]
    /\ overlapped' = (overlapped \/ (bundle = NoBundle /\ Stale(w)))
    /\ UNCHANGED <<control, snapshot, beat, upserts, faults, intended, rejected>>

\* Mutant: SyncOnce skips a bundle whose version the snapshot has.
SyncFetchNewOnly(w) ==
    LET bundle == selectConfig(configs)
    IN  /\ w = "sync" /\ pc[w] = "fetch"
        /\ Answered(w, IF bundle.version # snapshot.version THEN bundle ELSE NoBundle)

\* SyncOnce: all configurations are fetched, and the selected one is applied whether
\* or not it is new.
SyncFetch(w) ==
    /\ w = "sync" /\ pc[w] = "fetch"
    /\ Answered(w, selectConfig(configs))

\* WatchConfigOnce: the control plane answers with the selected bundle once its version
\* is not the one asked with, or times out.
WatchFetch(w) ==
    LET bundle == selectConfig(configs)
    IN  /\ w = "watch" /\ pc[w] = "fetch"
        /\ Answered(w, IF bundle.version # since[w] THEN bundle ELSE NoBundle)

RoundEnds(w) ==
    /\ pc' = [pc EXCEPT ![w] = "idle"]
    /\ since' = [since EXCEPT ![w] = 0]
    /\ fetched' = [fetched EXCEPT ![w] = NoBundle]
    /\ beat' = [beat EXCEPT ![w] = NoBeat]

\* The endpoint (and region) a bundle gives, taken over before its health is parsed.
WithEndpoint(s, bundle) ==
    [s EXCEPT !.endpoint = IF bundle.endpoint # NoEndpoint THEN bundle.endpoint ELSE @]

\* All of a well-formed bundle, over the values s.
WithBundle(s, bundle) ==
    [WithEndpoint(s, bundle) EXCEPT
        !.version = bundle.version,
        !.healthy = IF bundle.healthy = "" THEN @ ELSE bundle.healthy = "true"]

InFlight(w) == \E v \in Workers \ {w} : pc[v] \in {"push", "observe"}

ApplyConfig(w) ==
    LET bundle == fetched[w]
    IN  /\ pc[w] = "apply" /\ bundle.healthy \in BooleanTexts \union {""}
        /\ snapshot' = WithBundle(snapshot, bundle)
        /\ intended' = WithBundle(intended, bundle)
        /\ overlapped' = (overlapped \/ InFlight(w))
        /\ pc' = [pc EXCEPT ![w] = "applied"]
        /\ fetched' = [fetched EXCEPT ![w] = NoBundle]
        /\ UNCHANGED <<control, since, beat, upserts, faults, rejected>>

\* The snapshot is read again, after the lock was released.
ReadSnapshot(w) ==
    /\ pc[w] = "applied"
    /\ pc' = [pc EXCEPT ![w] = "push"]
    /\ beat' = [beat EXCEPT ![w] = Snapshot]
    /\ UNCHANGED <<control, snapshot, since, fetched, upserts, faults, nodeHistory>>

\* The health value cannot be parsed: the round fails, the endpoint has changed.
ApplyConfigFails(w) ==
    /\ pc[w] = "apply" /\ fetched[w].healthy \notin BooleanTexts \union {""}
    /\ snapshot' = WithEndpoint(snapshot, fetched[w])
    /\ rejected' = TRUE
    /\ RoundEnds(w)
    /\ UNCHANGED <<control, upserts, faults, intended, overlapped>>

\* The heartbeat is recorded and its answer is on the way back.
PushNodeHeartbeat(w) ==
    /\ pc[w] = "push" /\ record.known
    /\ record' = Recorded(beat[w])
    /\ beat' = [beat EXCEPT ![w] =
           [endpoint |-> record'.endpoint, healthy |-> record'.healthy]]
    /\ pc' = [pc EXCEPT ![w] = "observe"]
    /\ UNCHANGED <<configs, late, snapshot, since, fetched, upserts, faults, nodeHistory>>

\* The control plane does not know the node.
PushRefused(w) ==
    /\ pc[w] = "push" /\ ~record.known
    /\ RoundEnds(w)
    /\ UNCHANGED <<control, snapshot, upserts, faults, nodeHistory>>

\* The round fails on the node's side: a request never arrives or arrives later, or its
\* answer is lost.
RoundFails(w) ==
    /\ Fault /\ pc[w] \in {"fetch", "push", "observe"}
    /\ RoundEnds(w)
    /\ late' \in {late, IF pc[w] = "push" THEN late \union {beat[w]} ELSE late}
    /\ UNCHANGED <<configs, record, snapshot, upserts, nodeHistory>>

\* observeControlNode: the answer overwrites what the snapshot holds by now.
ObserveControlNode(w) ==
    /\ pc[w] = "observe"
    /\ snapshot' = [snapshot EXCEPT
           !.endpoint = IF beat[w].endpoint # NoEndpoint THEN beat[w].endpoint ELSE @,
           !.healthy = beat[w].healthy]
    /\ RoundEnds(w)
    /\ UNCHANGED <<control, upserts, faults, nodeHistory>>

\* The process is restarted: the snapshot is that of its flags again.
Restart ==
    /\ Fault
    /\ snapshot' = Flags /\ intended' = Flags
    /\ pc' = [w \in Workers |-> "idle"]
    /\ since' = [w \in Workers |-> 0]
    /\ fetched' = [w \in Workers |-> NoBundle]
    /\ beat' = [w \in Workers |-> NoBeat]
    /\ UNCHANGED <<control, upserts, rejected, overlapped>>

-----------------------------------------------------------------------------

Round(w) ==
    \/ StartRound(w) \/ SyncFetch(w) \/ WatchFetch(w)
    \/ ApplyConfig(w) \/ ApplyConfigFails(w) \/ ReadSnapshot(w)
    \/ PushNodeHeartbeat(w) \/ PushRefused(w) \/ ObserveControlNode(w)

NodeNext ==
    \/ \E i \in 1..MaxId, c \in Contents : UpsertConfig(i, c)
    \/ RetireNode \/ (\E b \in Registrations : RegisterNode(b))
    \/ \E b \in late : LateHeartbeat(b)
    \/ \E w \in Workers : Round(w) \/ RoundFails(w)
    \/ Restart

\* RunSyncLoop starts a sync round at every interval and every request ends (the client
\* has a timeout); nothing repeats the watch rounds.  An abandoned request is recorded
\* or gone at some time.
NodeFairness ==
    /\ WF_nodeVars("sync" \in Workers /\ Round("sync"))
    /\ \A b \in Beats : WF_nodeVars(b \in late /\ LateHeartbeat(b))

NodeSpec == NodeInit /\ [][NodeNext]_nodeVars /\ NodeFairness

-----------------------------------------------------------------------------
(* Properties.                                                             *)

NodeTypeOK ==
    /\ \A i \in 1..MaxId : configs[i].at \in 0..MaxUpserts
    /\ record.known \in BOOLEAN /\ record.healthy \in BOOLEAN
    /\ record.endpoint \in Endpoints \union {NoEndpoint}
    /\ late \subseteq Beats
    /\ snapshot.endpoint \in Endpoints \union {NoEndpoint} /\ snapshot.healthy \in BOOLEAN
    /\ pc \in [Workers -> {"idle", "fetch", "apply", "applied", "push", "observe"}]
    /\ beat \in [Workers -> Beats]
    /\ upserts \in 0..MaxUpserts /\ faults \in 0..MaxFaults

\* Unless a malformed bundle was applied in part, or a round's heartbeat went out or was
\* answered after another round had changed the values it was read from, the node's
\* version names the bundle its endpoint and health come from: answers of the control
\* plane, late heartbeats, restarts, retirements and registrations do not mix them.
VersionNamesValues ==
    ~rejected /\ ~overlapped =>
        /\ snapshot.version = intended.version
        /\ snapshot.healthy = intended.healthy
        /\ intended.endpoint # NoEndpoint => snapshot.endpoint = intended.endpoint

Selected == selectConfig(configs)

\* Whatever was lost, reordered, rejected or overwritten on the way, and whatever rounds
\* overlapped: once there are no more watch rounds, the sync loop brings the control
\* plane's record of a registered node, and the node's version, to what the selected
\* bundle says, for good, if that is well-formed and says what its health is.
RecordConverges ==
    <>[](\A w \in Workers \ {"sync"} : pc[w] = "idle") =>
    <>[](Selected.healthy \in BooleanTexts /\ record.known
         => /\ record.healthy = (Selected.healthy = "true")
            /\ Selected.endpoint # NoEndpoint => record.endpoint = Selected.endpoint
            /\ snapshot.version = Selected.version)

=============================================================================
