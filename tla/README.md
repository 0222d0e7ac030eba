# A TLA+ model of AnixOps SD-WAN

AnixOps SD-WAN is a Go control plane (`anix-control`), a client agent
(`anix-agent`), an edge node (`anix-node`) and a desktop UI.  This directory holds
TLA+ modules that model its stateful parts, TLC configurations that check them on
small instances, and TLAPS proofs that hold for every instance.  Paths below are
relative to the repository.

`PROJECT.json` is the machine-readable side: components, runs, mutants, the map from
every definition to its source lines, findings, hazards, theorems.

## 1. Inventory

### The parts and their state

| Part | State | Operations | Correct when |
|---|---|---|---|
| `internal/store` (Memory, FileRepository, backup) | tenants, devices, nodes, policies, configs, telemetry and an audit trail per tenant; one JSON file | create, register, heartbeat, retire, record, upsert; save by snapshot, temporary file and rename; load, backup, restore | every change has its audit event in every copy of the store; the file is always an earlier value of memory; what was answered survives a restart |
| `internal/control` (server) | the repository, authority, sessions, config signer and its persister | HTTP handlers: one store call, then an audit event of the acting subject; long poll of configs; key rotation | handlers that interleave, fail half-way or die leave a consistent store; the running signer and the key file agree |
| `internal/cert` | issued records (memory only); published PEM list and manifest | issue, revoke, rotate, make list, publish, verify, status | one good certificate per lineage; the published list catches up with every answered revocation |
| `internal/config` | none (bundles, signatures, pins are values) | sign, verify, check the trust policy | only a bundle of a trusted key is applied |
| `internal/agent` (sync) | config version, cache file, trusted key and its cache file, revocation list cache | five kinds of round: poll, signed, key-refreshing, long poll, signed long poll; local API | the cache file is what is in force; a pin holds; the selected bundle is delivered in the end |
| `internal/agent` (telemetry) | bounded queue file, backoff | push, keep, clear, retry | nothing queued is lost or overtakes; the queue drains once failures stop |
| `internal/agent`, `internal/transport` (switching) | running programs, supervisor record, runtime's protocol, cooldown | start, evaluate, activate with rollback | at most the recorded transport is up; reports say what is running |
| `internal/transport` (selection) | none between rounds | probe, derive signals, select | no protocol known to fail while another works; thresholds are exact |
| `internal/edge` | limiter windows, health with time to live, open connections | authenticate, limit, rank, dial, relay, assign, observe heartbeats, shut down | the rate is bounded across windows, no node that is up is overlooked, sockets are closed, shutdown ends |
| `internal/node` | version, endpoint and health in one snapshot | sync and watch rounds: fetch, apply, heartbeat, take over the answer | the version names the values in force; the control plane's record comes to agree |
| `internal/auth` | sessions, session file | password and OIDC login, renew, authenticate, authorise, revoke | a revoked session stays revoked, a given one survives, both are audited |
| `internal/policy` | none | classify, match, evaluate | what was decided is what is routed |
| `internal/linuxgw` (gateway) | nft table, ip rules, routes, two files | plan from policies or observed traffic, apply, roll back | traffic leaves by the decided egress; a rollback leaves nothing; a failed apply steers nothing |
| `internal/linuxgw` (service chains), `internal/controlcontract` | last accepted sequence, plan in force | sign, verify, compile, prepare | what runs was signed for this POP, never gets older, and steers as signed beside the gateway's rules |
| `internal/core`, `internal/release` | host state | render, apply a command list, roll back | a failure is undone or reported |
| `controlclient`, `domain`, `telemetry`, `system`, `desktop`, `protocolinterop`, `buildinfo`, `cmd` | none of their own | validation, encoding, text, wiring | |

### How they interact

- A control handler calls the repository once or twice under the repository's lock,
  one lock acquisition per call; nothing holds a lock across two calls.
- The repository saves after every mutation: it snapshots under the lock and writes
  and renames outside it, so saves of different handlers interleave.
- An agent round is a sequence of HTTP requests; between any two of them the control
  plane may change its bundles, rotate its key or restart.
- The agent's sync loop, its local API and its probe loop are goroutines that share
  `agent.Service` under one mutex, which `Start` releases before it activates.
- Revocation lists go from the authority through the publisher's two files, and
  through the agent's cache, to whoever verifies certificates.
- The session store saves the way the repository does, outside its lock; login and
  logout handlers write an audit event through the repository before they answer.
- An edge has a goroutine per connection and per assignment request; they share the
  limiter and the health tracker, each under a lock of its own, and use a clock
  reading taken before either lock.
- A node's sync loop and its watch call share one snapshot, locked only while it is
  read or changed; the answer to a heartbeat is written back into it.
- The gateway's effect is a sequence of `nft`, `ip` and `systemctl` commands; service
  chains are rendered beside the gateway's own rules, and the two share the kernel's
  mark and preference space.

### What is hard here

Saves and publications that overtake each other; two-call handlers cut in the middle;
operations that fail after part of them took effect (rotation, revocation, switching,
key rotation); state that a restart forgets while files keep it; answers read before
and signed after a change; requests recorded although the sender saw an error; a
bounded queue at its limit; a backoff that must double, cap and reset; a rate window at
its edge; heartbeats that arrive out of order; answers written over newer state; a
command list cut off in the middle of doing or undoing; envelopes repeated, overtaken
or kept too long; and liveness of polling, long polling, shutdown and node records.  `PROJECT.json` lists each of these under `hazards`, at
its line, with the properties that catch it.

## 2. Plan

Order: what the control plane stores and promises first, then what reaches the
agent, then what the agent does with it.

Done:

1. `AuditLog` (abstract), `ControlStore` (implements it), `ControlStoreProofs`
2. `TransportSwitch`, `TransportSwitchProofs`; `TransportSelector` (proofs in the same)
3. `TelemetryQueue`, `TelemetryQueueProofs`
4. `CertLifecycle`, `CertLifecycleProofs`
5. `ConfigDelivery`, `ConfigDeliveryProofs`
6. `EdgeIngress`, `EdgeIngressProofs`: connections and requests as processes over
   limiter, health tracker, ranking and failover; shutdown of `Serve`
7. `SessionStore`, `SessionStoreProofs`: logins, renewal and logout over the session file
8. `NodeService` (proofs in `EdgeIngressProofs`): rounds of a POP node and the control plane's record of it
9. `Gateway` (proofs in `ServiceChainProofs`): policy engine, classifier, both planners, apply and rollback over a kernel
10. `ServiceChain`, `ServiceChainProofs`: signed envelopes, compiler, and the steering
    of flows by the compiled plan

Left, in this order:

11. Certificate status by validity window, backup of the CA pair.
12. `core` and `release`: the same scheme as `Gateway` over other commands.

Every invariant and every action property that a run checks is a theorem (section 5),
and so is the type invariant of every module that has one.

## 3. Modules

Each component has a module, an `MC` module that adds the symmetry sets or constant
values a `.cfg` cannot express, and, where something is proved, a `Proofs` module that
extends it.  Three of these also hold the proofs of a neighbour, and extend both:
`TransportSwitchProofs` has those of `TransportSelector`, `EdgeIngressProofs` those of
`NodeService` and `ServiceChainProofs` those of `Gateway`.  The two modules of a pair share
no variable; to be extended together the neighbour gives its specification names of its
own (`SelectorInit`, `SelectorNext`, `SelectorSpec`; `NodeSpec`, `NodeTypeOK`; `GatewaySpec`,
`GatewayTypeOK`).  A definition whose comment says it is a plausible mistake (such as
`RetireNodeSilently`) is a mutant: not part of any specification, it replaces the
definition that follows it to show that a property notices.

### AuditLog and ControlStore

`ControlStore` models one handler per request: `Begin`, the store operation
(`CreateTenant`, `RegisterDevice`, ..., each the whole method of `store.Memory` with
its trailing audit event), `Snapshot`, `Rename` (or `SaveFails`), and the same three
steps for the subject's audit event.  `mem` is `store.Memory`, `disk` the store file,
`snap[h]` the snapshot a handler is writing, `backup` the backup file.  `Crash`,
`Restart`, `Backup` and `RestoreBackup` are the process's and the operator's.
`Abandon` is a request whose context ends.  The tenant of a request is the tenant of
both events, because authorisation demands it (`auth/rbac.go`).  Requests refused
before they change anything are left out; the handlers that only write an audit
event are represented by `auth.denied`.

`AuditLog` is the promise to readers of the trail: the log only grows while the
server runs, the stable part is always a prefix of it, and after a crash the log is
the stable part (or, restored by the operator, the archived one).  ControlStore maps
`mem.audit`, `disk.audit` and `backup.audit` to it.

### TransportSwitch and TransportSelector

`Activate(p, ok)` is `Supervisor.Activate` with every outcome of its stop, start and
restore; `StartRead` and `StartApply` are the two halves of `Service.Start`, split
where it releases the lock; `EvaluateSwitch`, `EvaluateSuppressed` and `EvaluateSame`
are `SwitchRuntime.EvaluateAndApply`.  `host` is what is really up, `active` what the
supervisor has on record, `current` what the runtime has, `shown` the protocol of the
agent's snapshot, which evaluations and `ApplyConfig` both write.  `Show` is the end of an
evaluation: its report is delivered and the snapshot follows, or the reporter fails and the
snapshot stays, also when the switch was made (`unreported`).  Programs may die, and a
`wg-quick` tunnel outlives the agent.  `Supervisor.Stop` has no caller outside tests
and is not an action.

`TransportSelector` runs probe rounds, computes `SignalsFromProbeResults` in integer
arithmetic and `Select` with the handshake fallback list.

### TelemetryQueue

One action per outcome of each step of `pushTelemetry` and `runSyncLoop`: `Load`,
`Push`, `PushRefused`, `PushTimesOut` (recorded already, or later by `LateArrival`),
`Keep`, `Clear`, `SaveFails`, `Crash`, and `NextRound` when the chosen delay is over.
`queued`, `trimmed` and `doubts` are history variables.

### CertLifecycle

`status` is `Authority.issued`.  `Rotate` takes two steps, `RotateMark` and
`RotateIssue`, because the authority releases its lock between them.  A publication is
`MakeList`, `WritePem`, `WriteManifest`, with a failed write (`PublishFails`) leaving a file
cut off.  A list is its identity, the serials it holds and the process life it was made
in; a manifest is the identity of the list it names by its hash.  The verifier of the two
files is not modelled (section 6).  `crowded` says that another request was under way since
the last one began, `overlap` that it has been so since the last publication by a request
that none overlapped.  `AgentFetches` and `AgentSaves` are `SyncCRLOnce`.

### ConfigDelivery

`mode` is the kind of round the agent runs and `pin` the key it was given to trust, if
any; both are chosen at the start and stay.  `FetchKey` or `UseCachedKey`,
`StartRound`, `ReadConfigs` or `WatchConfig`, `SignConfigs`, `Apply`, `SaveKey` are
the steps of a round; the server reads the bundles before it signs them
(`handleConfigs`), so they are two steps.  `selectConfig` is the loop of
`agent/sync.go` over bundles in the order of their identifiers, with `Better` its
condition.  A signature is the key it was made with.  A bundle's upsert time stands for
the values it carries; a version is a string of which only the order matters.
`RotatePersist` and `RotatePublish` are the two steps of `RotateConfigSigningKey`; any
number of handlers take them, and `crossed` says that the latest rotation began while
another was under way.  An upserted bundle is in the server's memory, where agents read it,
before any save: `SnapshotStore` and `RenameStore` are a save, of which several may be under
way, and `ServerRestarts` brings back what the file holds; the upserts it takes are `lost`.
The audit event of a rotation and the telemetry push that ends a round are the
subject of ControlStore and TelemetryQueue.  The history variable `orderly` says that
versions grew and no identifier changed its target; `NewestSelected` and
`NeverBackwards` hold as long as it does.

### EdgeIngress

`Accept`, `Cancel`, `AcceptFails` and `ServeReturns` are `IngressRuntime.Serve`; a
connection goes through `StartRead`, `ReadToken` (or `ReadFails`, `ReadTimesOut`),
`Allow` (`WindowLimiter`), `RankCandidates` (`HealthTracker`, `Scheduler`), `DialFails`
or `DialSucceeds`, and forwarding: a copy per direction (`CopyEnds`, `CopyCut`), the
watcher of the context (`WatchContext`) and `TakeResult`.  `Request` starts the
HTTP assignment handler, which shares limiter and tracker.  `Observe` is a heartbeat
with the time it was made at, which may be earlier than the last one.  `stamp` is the
clock reading of a client, `granted` and `untried` (the nodes that were up at the ranking
and that the connection has not dialled yet) are history variables.

### SessionStore

`PasswordLogin`, `OIDCLogin`, `IssueSession` and `Logout` put a handler to work.
`SubjectFromRequest` says whose request it is: of a bearer session, else of the peer
certificate, else of the subject that its headers name.  `Issue` and `Revoke` change the
map, `Snapshot` and `Rename` save it, `SaveFails` is a save with an error (which `Revoke`
drops and `Issue` returns).  An audit event goes through `store.FileRepository`:
`RecordEvent` puts it into memory (`audit`), `SnapshotAudit` and `RenameAudit` save it to the
file (`trail`), `AuditFails` is when one of them cannot; `Deny` is a refused request, which
saves the same repository.  A logout is recorded and filed before the session is revoked, a
new session after it is saved and before it is given (`AnswerSession`, `AnswerLogout`).
`Authenticates`, `Allowed` and `Grants` are the session check and the role table.  A session
counts as `doubtful`, and an event as `unsure`, if its own save failed or another save was
under way.

### NodeService

A round of worker `w` is `StartRound`, which reads the snapshot, then `SyncFetch` or
`WatchFetch`, the answer to its request, then `ApplyConfig` and `ReadSnapshot` if there is a
bundle (or `ApplyConfigFails`, which leaves the endpoint changed), `PushNodeHeartbeat` (or
`PushRefused`, `RoundFails`), and `ObserveControlNode`, which takes over the answer.  A
watch that times out pushes what it read before it asked.  `RetireNode`,
`RegisterNode`, `UpsertConfig` and `LateHeartbeat` are the control plane's side.
`intended` is what the last applied bundle says; `overlapped` records that a heartbeat went
out, or was answered, after another round had changed the values it was read from, and
`rejected` that a bundle was applied in part.

### Gateway

`Classify`, `Matching` and `Evaluate` are the policy engine; `PlanPolicyRouteRules` and
`PlanObservedPolicyRouteRules` the two planners; `ApplyCommands` and
`RenderRollbackCommands` the command sequences.  `ApplyPolicyRoutes`,
`ApplyObservedPolicyRoutes` and `Rollback` start a call; `RunCommand` runs the next command
and `CommandFails` is one that fails, because the kernel refuses it or for a reason of
its own.  The kernel (`Accepted`, `Execute`, `MarkOf`, `EgressOf`) is external: it is
modelled from the commands the code renders: `ip rule add` refuses a rule that is
there, `ip route replace` does not, `ip route del` needs the route, `meta mark set`
does not end the chain, `ip rule` as the code calls it adds rules for IPv4 only, and the
nat chain of the table redirects TCP and UDP of the LAN to the proxy (`SentTo`), after the
marks and before the route, so that the egress a policy decides carries what is neither.
Addresses are IPv4 (`V4`) or IPv6, requests and policy rules have a tenant, and routes a
destination (`DestCIDR`).  A CIDR is the set of addresses it holds.  The three sorts of
the code are one operator, `Sorted`, over a set and the pairs that stand in order.

### ServiceChain

`Issue` signs an envelope, `Deliver` hands the POP any envelope ever sent or an altered
one, `PrepareSignedServiceChainDelivery` verifies (`Verify`) and compiles
(`CompileServiceChainPlan`) it, and `SaveSequence`, `Install` and `Restart` are the
caller's: nothing in the repository calls the package yet, so the caller saves the
sequence before it installs (a caller that did not would accept a bundle twice after
a restart).  `Packet` is a packet of a
flow under the installed rules, with its connection mark.  A digest is the payload it
was made of and a signature the key and the input it was made with.

## 4. Runs

All properties are invariants unless marked (action) or (liveness).

| Run | Instance | Distinct states | Shows |
|---|---|---|---|
| `control_store` | 2 handlers, 3 requests, 1 crash, 1 backup | 973,668 | `TrailExplainsStore`, `DiskIsPast`, `Durable`, `ImplementsAuditLog` (refinement) |
| `transport_switch` | 4 protocols, one without a lifecycle spec, all failures, bundles that name a transport, failing reports, 2 lives | 32,176 | `NoOrphanTransport`, `RuntimeMatchesSupervisor` |
| `transport_selector` | up to 12 probes, round trips of 1, 249, 251 ms | 49,748 | `SignalsAreExact`, `NoKnownBadSelected` |
| `telemetry_queue` | capacity 2, 5 reports, 4 faults | 369,237 | `QueuedNotLost`, `FirstRecordsInOrder`, `NoRepeatsWhenSure`, `BackoffDoubles`, `EventuallyDrained` (liveness) |
| `cert_lifecycle` | 3 serials, 2 handlers, 5 requests, 2 faults, 1 restart | 2,019,435 | `OneGoodPerLineage`, `ListCatchesUp`, `EveryChangeAudited`, `CacheNeverForgets` (action) |
| `config_delivery` | 5 modes, with and without a pin, 2 identifiers and versions, 2 upserts, 2 rotating handlers, up to 3 rotations, 2 faults | 589,927 | `CacheIsCurrent`, `PinHolds`, `SignerIsDurable`, `NewestSelected`, `NeverBackwards` (action), `EventuallyDelivered` (liveness) |
| `edge_ingress` | 2 connections or 4 requests, up to 3 heartbeats, 2 nodes, limit and window 2 | 274,630 | `RateBound`, `NoSocketLeaks`, `NoCandidateSkipped` (action), `ShutdownCompletes` (liveness) |
| `session_store` | 2 handlers; sessions, faults and ticks of the clock: 3 together, of which 2 sessions and 1 tick | 4,625,888 | `LoggedOutStaysOut`, `GivenSessionSurvives`, `SessionsAreAudited` |
| `node_service` | a sync and a watch worker, 2 identifiers, 2 upserts of 3 bundles, 2 faults | 651,920 | `VersionNamesValues`, `RecordConverges` (liveness) |
| `gateway` | 4 addresses, one of them IPv6, 2 tenants, 3 policy sets, 5 logs, 2 destinations, 3 calls, 2 faults | 654,734 | `ObservedRoutedAsDecided`, `RolledBackIsGone`, `FailedApplyMarksNothing` |
| `service_chain` | 6 profiles, 3 envelopes, 3 flows, 1 restart | 401,100 | `InstalledAsSigned`, `SteersToFirstHop`, `NeverOlder` (action) |

Several properties hold only of behaviours in which something did not happen: no two
requests or rotations at once, no restart, no switch between the two halves of `Start`.
The history variables `overlap`, `overlapped`, `crossed`, `raced`, `overridden`,
`unreported`, `orderly`, `lost`, `doubtful`, `unsure` and `tableKept` say so inside one run,
instead of a second run with a smaller instance; a theorem about such a property then
covers every number of handlers.

One run, `control_store_lost_write`, states what a document says and finds it violated;
section 6 has it.  Every module with state beyond a round has a `TypeOK`
(`NodeTypeOK`, `GatewayTypeOK`).  It is proved (section 5) and held on the instances
above, but it is not a property of a run.

### Bounds, and why they are enough

- *Handlers, rotators*: two.  Every race in this code is between two saves, two
  publications or two rotations; the theorems cover any number.
- *Requests*: three with two handlers suffice for an older snapshot to be renamed
  over a newer one, and for a node to be retired after its tenant and itself were
  created.  Five certificate requests let two certificates be issued and rotated,
  revoked or fetched in any order with a third serial as the successor.
- *Queue*: capacity two with five reports overflows the queue twice; four faults of
  any kind cover a lost answer, a failed save and a crash in one behaviour.
- *Backoff* 2, interval 3, maximum 7: 2, 4, 7: one real doubling and one that is
  capped and not a power of two times the start.
- *Probes*: twelve is beyond the smallest round in which one, but not two, losses
  stay under ten percent; round trips on both sides of 250 ms make the average fall on
  either side of the threshold by less than one.
- *Bundles and versions*: two identifiers and two versions allow a newer bundle in
  either position of the selection loop, with a version that grows, stays or goes down;
  two upserts allow a change while the answer to the one before is under way, and a save
  of the first that is renamed after one of the second.  `Budget` spends them on the
  unsigned rounds and leaves one to the signed ones, which have the rotations instead:
  three, so that two cross and a third comes after them.
- *Edge*: `Bounds` is a set of triples: two connections that share the limiter and are
  waited for at shutdown; one connection with two heartbeats; one request with three
  heartbeats in any order, the least that lets an older one overwrite a newer one of
  the same node while another node is up; four requests, twice the limit, around the
  edge of a window.
- *Sessions*: `MaxEvents` bounds sessions, faults and ticks together: two sessions, so that
  the saves of an issue and of a revocation overlap, with a fault or a tick; or one session
  and two faults, such as a failed save and a crash.  One tick is enough for a session
  to expire and for a certificate and an ID token to become valid.
- *Node*: a well-formed bundle that says "false" and changes the endpoint, one that says
  "true" and does not, and a malformed one; two of them in any order.
- *Gateway*: a domain rule above a CIDR rule, a class rule, and observations of one
  address that agree and that disagree, an IPv6 address that a rule of its tenant matches
  and one of another tenant; three calls are an apply, a second apply over
  it or its rollback, and one more; two faults fail a command and then its undoing.
- *Service chain*: overlapping selectors in both orders, a third route whose mark an
  existing rule has, a route without a gateway, bundles for another POP and a client;
  three envelopes allow a repeated and an overtaken one beside a newer one.
- *Process lives and faults*: small numbers that are budgets, not kinds: every kind of
  fault is explored at every step where the code can meet it.

Where a bound stops a behaviour, deadlock checking is off: the system itself never
ends.  `TransportSelector` has no such bound and is checked for deadlock.

Symmetry is used for handlers (ControlStore, CertLifecycle, SessionStore), serials,
tenants and objects in runs with invariants and action properties only.  The refinement checked in `control_store` is
a safety property and its mapping does not choose among elements.

### Fairness

- TelemetryQueue: weak fairness of the loop's own successful steps together.
  `runSyncLoop` returns only when its context ends; its timer fires; and faults are
  limited, so `EventuallyDrained` is about what happens once they stop.  A request that
  arrives late has no fairness: it may never arrive.
- ConfigDelivery (`FairSpec`): weak fairness of the round's steps in the polling modes, which
  are the sync loop, as above, and of the second half of a rotation.  The two watch rounds
  are single calls, `WatchConfigOnce` and `WatchSignedConfigOnce`, that nothing in the
  repository repeats; nothing is assumed of them, and `EventuallyDelivered` is about
  polling.  Where the agent's verifier is given once and for all (signed rounds), it asks
  nothing after a rotation it cannot follow (`CanVerify`).
- EdgeIngress: weak fairness of `Accept` failing once the context is done, of
  `Serve`'s return, and of each connection's own steps: Go runs every goroutine that
  can run, and the listener is closed on cancellation.  Peers have none: they may stay
  silent for ever, which is why `ShutdownCompletes` needs the read timeout
  (`HasReadTimeout`).
- NodeService: weak fairness of the sync worker's round (`RunSyncLoop` starts one at every
  interval, and requests end because the client has a timeout), and of an abandoned
  heartbeat being recorded or gone at some time.  Nothing repeats the watch rounds; since
  each may put back a value it read before it asked, `RecordConverges` is about
  behaviours in which they end.  Losing a message uses up a fault.
- The other modules assume none.

## 5. Theorems

All are proved for arbitrary sets of handlers, tenants, objects, serials and
protocols and arbitrary bounds, from the assumptions the modules name.

| Theorem | States | Inductive invariant and why it is needed |
|---|---|---|
| ControlStore `TypeCorrect` | `TypeOK` | itself |
| `DiskNeverAhead` | `DiskIsPast` | `PastInv`: adds that a stopped server has no snapshot under way, without which a restart from an older file would leave a snapshot ahead of memory |
| `ImplementsPromise` | `ImplementsAuditLog` | `PastInv`, which makes each rename a step of the stable part to a prefix of the log |
| `OwnEventsSaved` | `RenameSavesOwn` (only proved) | `OwnInv`: the positions a handler has written are in memory, and in its snapshot once it has taken one |
| `SequentialDurability` | `Durable` (as long as no two requests overlapped) | `FreshInv`: until then at most one handler is busy, and a snapshot on its way to disk is the current memory; false after an overlap, which is the finding of section 6 |
| `TrailsExplain` | `TrailExplainsStore` | `GoodInv`: the property for memory, disk, backup and every snapshot at once, with the types of the objects; `MemoryStepEffect` and `EffectKeepsGood` say that each store operation changes objects and trail together, and the file operations copy whole stores |
| TransportSwitch `TypeCorrect`, `AtMostOneTransport` | `TypeOK`, `NoOrphanTransport` | inductive with the types; `ActivateEffect` is the lemma about one activation |
| `RuntimeAgrees` | `RuntimeMatchesSupervisor` | `AgreeInv`: the two agree before the start too, what `Start` read under the lock is still the runtime's protocol unless a switch came after the read, and `shown` follows the runtime unless `overridden` or `unreported` |
| TransportSelector `ThresholdsAreExact` | `SignalsAreExact` | `SelectionInv`: the counts of a round and that a selection is the selection for its signals; the rest is arithmetic of the truncating divisions, for any number of probes |
| `FallbackIsComplete` | `NoKnownBadSelected` | `SelectionInv`, and two lemmas: the fallbacks of a protocol are all the other ones (`FallbackFacts`), and the first of them known to work is taken (`FallbackSucceeds`) |
| TelemetryQueue `TypeCorrect`, `NothingQueuedIsLost`, `FileStaysOrdered` | `TypeOK`, `QueuedNotLost`, `QueueOrdered` (only proved) | `QueueInv`: `RoundKnowsFile` (what the file holds is in the round or recorded) and `FileIsOld` (the new report is larger than all in the file) |
| `RecordedOnceWhenSure` | `NoRepeatsWhenSure` | `SureInv`: until the first unknown outcome nothing is under way, and what the round still has to push is not recorded |
| `RecordedInOrder` | `FirstRecordsInOrder` | `OrderInv`, for late requests too: whoever is recorded or may yet be has all older kept reports recorded before it; `KnownInv` numbers reports and ties the round to the file |
| `BackoffIsExact` | `BackoffDoubles` | `BackoffInv`: the failures counted are those since the last success.  `Doubled` is a recursive function; that it satisfies its equation is proved from the least number at which it would not |
| CertLifecycle `TypeCorrect`, `OneGoodCertificate` | `TypeOK`, `OneGoodPerLineage` | `LineageInv`: `RootsIssued` and `RotationHoldsLineage` (between the two steps of a rotation its lineage has no good certificate and no second rotation) |
| `CacheKeepsRevocations` | `CacheNeverForgets` (action) | `CacheInv`: within a life of the authority the fetched list holds what the cache holds, and both hold only what is revoked |
| `ChangesAudited` | `EveryChangeAudited` | `AuditInv`: a certificate that is good or revoked is in the trail, or the handler that will write it there is still at work and knows its serial |
| `ListIsBroughtUp` | `ListCatchesUp` | `PublishedInv`: while no other request is about, the list in a handler's hands holds every revocation, the file holds that list once it is written, and an answer comes only after it; beside `LocalsInv`, what a handler at each step has already done |
| ConfigDelivery `CacheAgrees` | `CacheIsCurrent` | itself |
| `PinIsKept` | `PinHolds` | `PinInv`: in a round under way the key in hand is the pin |
| `SignerSurvivesRestart` | `SignerIsDurable`, for any number of rotating handlers | `SignerInv`: unless rotations crossed, a rotation under way is the only one and holds the key the file holds; false of rotations that cross, see section 6 |
| `LoopSelectsNewest` | `NewestSelected` | `ConfigsInv`: as long as versions grow, the order of upserts is the order of versions.  The lemma about `selectConfig`, a recursive function, is an induction over the positions of its loop |
| `AgentNeverGoesBack` | `NeverBackwards` (action) | `ForwardInv`: what is in force and what an answer brings is 0, lost, or still covered by a bundle of the control plane that is as new (`Kept`), and an answer on its way is not older than what is in force unless that is lost |
| `DeliveryTypes` | `TypeOK` | `SelectionInv` for the bundles, and that a key fetched in the round is a key until it is saved (`RoundTyped`) |
| SessionStore `LogoutIsFinal`, `SessionIsKept` | `LoggedOutStaysOut`, `GivenSessionSurvives` | `IInv`: `NoneAhead` (no copy holds a session not issued yet), `SnapshotsAgree` (what memory holds of a session that is not `doubtful`, a snapshot on its way to the file holds too, so a rename takes nothing back), `WorkIsDone` and `AnswersHold`, which tie a handler's step and an answer to what memory and file already show |
| `SessionTrail` | `SessionsAreAudited` | beside `IInv`, `TrailAgrees`: an event that is not `unsure` is in every snapshot on its way to the file, so a rename takes none back; and `TrailCovers`: a handler past the filing, an answered session and a revoked one, in any copy, have theirs in the file |
| `SessionTypes` | `TypeOK` | `RecordsOK` beside `IInv`: what each copy of the sessions, each handler and each event may hold |
| EdgeIngress `SocketsClosed` | `NoSocketLeaks` | `SocketsFollowPhase`: which sockets are open follows from where the handler is |
| `ReturnLeavesNothing` | once `Serve` has returned no connection's goroutine runs, none starts and no socket is open (only proved) | `Returned` beside `SocketsFollowPhase`: `wg.Wait` is passed when all have ended, and nothing is accepted any more |
| `RankingIsComplete` | the ranking lists every healthy node once, nothing else, in the order of load and id (only proved) | `HealthInv`; the number of better nodes is an injection of the healthy ones into as many places, hence a bijection (`RankIsRanking`) |
| `SentAwayAfterAll` | `NoCandidateSkipped` (action) | `TriedInv`: of the nodes up at the ranking, those not tried yet are still in the queue; at its beginning the ranking lists them all (`RankIsRanking`) |
| `RateIsBounded` | `RateBound` | `RateInv`, of which `WindowOK` is the heart: at most `Limit` are granted from the start of the current window, at most `Limit - 1` in a part of the stretch before it, and a stretch that ends earlier is bounded already.  Sums over a set of times are folds; the lemmas on them are by induction over the size of the set |
| `IngressTypes` | `TypeOK` | the invariants above with `EgressInv` (candidates are nodes, and a connection is forwarded to a resolvable one) and `ServeInv` |
| NodeService `VersionIsMeaningful` | `VersionNamesValues` | `NodeInv`: as long as rounds are undisturbed, snapshot and intention agree, and every heartbeat and answer still under way carries values of the intended bundle |
| `NodeTypes` | `NodeTypeOK` | `BundlesTyped` and `BeatsTyped`: every endpoint stored, fetched or under way is one that was configured; the loop of `selectConfig` ends with one of the bundles (`SelectedIsOneOf`) |
| ServiceChain `RunsWhatWasSigned` | `InstalledAsSigned` | `SentOK`, `DeliveriesOK`: both the prepared and the installed delivery are what was signed; lemma `VerifiedIsSigned` says that an envelope that verifies, altered or not, is one that was sent |
| `OnlyNewerInstalled` | `NeverOlder` | `SequencesOrdered`: installed <= saved <= last accepted, and a prepared delivery has the last accepted sequence, above the installed one; without the saved sequence in between a restart would accept an installed plan again |
| `FlowsFollowProfile` | `SteersToFirstHop` | `SteerInv`: `CompiledInv` (the plan installed is compiled from the signed profile beside the existing rules) and `TrafficInv` (a flow settled under this plan has its mark and hop, one settled under an earlier plan says so) |
| `ChainTypes` | `TypeOK` | `WithinBounds`: sequences and clock within their bounds, beside the invariants above |
| Gateway `RollbackIsComplete` | `RolledBackIsGone` | `GatewayInv`, part `Undoing`: a rule or route of the configuration is gone or its deletion still waits.  It needs that `ip rule` holds no rule twice, so that one deletion is enough |
| `FailedApplyIsHarmless` | `FailedApplyMarksNothing` | the same: the deletion of the nft table is the next command or the table, with its marks and its redirection, is gone |
| `ObservedTrafficFollowsPolicy` | `ObservedRoutedAsDecided` | `GatewayInv`, part `Applying`: chain, rules and routes are the configuration's or their commands wait, which needs that a configuration gives a table one egress; and `Steers`, about the configuration alone: the last rule that matches a decided address is a planned one with a mark of its own, for a rule of the tenant (`PlannedFor`).  The lemmas below it say what sorting a finite set gives (`CanBeListed`, `SortedFacts`), what the planners make of it, and what each command does |
| `GatewayTypes` | `GatewayTypeOK` | `CountsWithin` beside the types of `GatewayInv` |

The assumptions on constants say what the program's own validation or its types
give: bounds are natural numbers; a limiter, tracker or authenticator was made by its
constructor; profiles, policy rules and route rules passed `Validate`, and lists are lists
(`InputAssumption`, `GatewayAssumption`); the sets of nodes, rules and log lines at hand
are finite; clocks have at least one tick.  Three go beyond it, and the code leaves them to
whoever configures it: in Gateway a table has one egress (`DistinctTables`) and the base
configuration's marks and preferences lie below those of the plans (`BaseBelowPlans`; the
defaults are 1000 and 10000, and nothing checks them against each other); in ServiceChain the
caller saves a sequence before it installs the plan.

Data of any size is reached with the well-foundedness of the natural numbers: a set of
numbers that is not empty has a least one (`LeastNatural`), so a set that holds 0 and
with each number the next holds all (`CountUp`).  Recursive functions, folds over sets
and sorted sequences are reasoned about this way.

Only model-checked: the four liveness properties (`EventuallyDrained`,
`EventuallyDelivered`, `ShutdownCompletes`, `RecordConverges`), since fairness and `ENABLED`
are beyond the prover.

## 6. Findings

**`control_store_lost_write`.** `FileRepository.save` snapshots and renames outside a
common lock: an older snapshot overwrites a newer one, and an answered change is not
in the file of an idle server.  `PROJECT.json` quotes the document that says otherwise.
What holds nevertheless is in `control_store`: durability while requests do not overlap.

The models show more, without a run of their own.  Where a property excludes a case,
this is the reason.

Control plane, certificates and agent:

- two revocations at once may publish the older list last (`CertLifecycle`, the
  condition `~overlap` of `ListCatchesUp`);
- `VerifyPublishedRevocationList` accepts hardly any list the server publishes: the list is
  made at `time.Now()` (`control/server.go:1788`), its manifest has `next_update` with the
  nanoseconds, the X.509 encoding keeps whole seconds, and `cert/publisher.go:196` requires
  the two to be equal.  The test of the publisher makes its list at a whole second.  The
  module has no verifier, so that no property rests on one;
- when publishing fails after a revocation took effect, no audit event says so
  (`faults = 0` in `EveryChangeAudited`);
- a restart with the CA on disk forgets the issued records, so the next list
  lacks earlier revocations (`cert/authority.go:173`; `CacheNeverForgets` speaks
  of one life of the authority);
- selection by time *or* version lets an older bundle win when versions do not grow
  (`agent/sync.go:409`; `orderly`);
- two rotations at once leave one key in the file and the other in the server, until the
  next rotation or restart (`control/server.go:122`; `crossed` in `SignerIsDurable`);
- an agent can apply a bundle that is visible and not saved yet; a crash of the control
  plane takes the bundle, and the agent is served the older one (`store/file.go:101`;
  `lost` in `NeverBackwards`);
- a restarted agent reports the version of its cached bundle while none of its values
  is in force until a later round (`AgentRestarts`, and why `CacheIsCurrent` says
  `effective # NoBundle`);
- a failed switch is reported as rolled back to a protocol that the supervisor may not
  have been able to restore (`transport/runtime.go:80`; `RuntimeMatchesSupervisor` allows a
  supervisor that has none);
- when the reporter fails after a switch, `EvaluateAndApply` returns before it updates the
  snapshot, so the agent shows and sends the protocol of before (`transport/runtime.go:90`,
  `agent/service.go:171`; `unreported`);
- a bundle that names a transport changes what the agent shows and sends as telemetry,
  not what runs, until the next evaluation (`agent/service.go:208`; `overridden`), and a
  new agent process knows nothing of tunnels an earlier one left up (`leftover`);
- without UDP, the handshake fallback of REALITY may select a transport over UDP when
  its handshakes are known to work (`fallbacks` in `TransportSelector`);
- `Revoke` drops the error of its save, so a logout is answered with success although a
  restart brings the session back (`auth/session.go:149`; `doubtful`);
- the audit event of a login or logout can be lost in a crash although the request was
  answered, when another save of the repository was under way (`store/file.go:116`;
  `unsure` in `SessionsAreAudited`).

Edge and node:

- without a read timeout a silent peer keeps `Serve` from returning;
- the limiter lets up to `2 * Limit - 1` requests through in a stretch as long as its
  window, and a request is counted in the window of its clock reading, however late it
  reaches the limiter;
- a malformed health value makes `ApplyConfig` fail after the endpoint has changed
  (`rejected`);
- two overlapping rounds can hand each other's stale health to and fro for ever, since
  the answer to a heartbeat overwrites the snapshot, and a watch that times out pushes
  what it read before the long poll (`node/service.go:150`; `overlapped`, and the
  condition of `RecordConverges`);
- the long poll answers when the version is not the one the agent named, so a bundle put
  again under the same version reaches no watching agent (`control/server.go:1457`).

Gateway and service chains:

- an apply that fails before a route was added cannot be undone completely: the
  rollback stops at the first command that fails, `ip route del` of a route that was
  never added is such a command, and rules added before stay (`linuxgw/apply.go:33`).  The
  tests use a runner that never refuses an undo.  `FailedApplyMarksNothing` is what
  holds: the nft table goes first, so the rules that stay match no packet, unless deleting
  the table itself fails although it is there (`tableKept`);
- TCP and UDP of the LAN go to the proxy whatever the policy decides (`config.go:110`), and
  IPv6 destinations are marked and given routes but no `ip rule` (`config.go:165`), so an
  egress decided for them is not used; `ObservedRoutedAsDecided` is about the rest;
- an apply over an earlier one fails at `ip rule add` (`clean`);
- nft keeps the mark of the *last* rule that matches, the plan of policy rules lists the
  rule of highest priority first; `ObservedRoutedAsDecided` is about observed
  destinations, which are single addresses;
- two nodes that share a table make a rollback of one fail on the other's route
  (`DistinctTables`);
- the envelope's tenant is not compared with anything by the POP, while
  `docs/superpowers/specs/2026-07-19-plan-b-windows-mitm-pop-design.md:108-112` has
  cross-tenant profiles rejected;
- the rendered rules have no fallback that denies: when a hop's route is gone, the flow
  goes where the main table says, while the same document (line 182) says "do not
  direct-route it"; `directFallback` is refused, and that is all;
- restoring the connection mark of an established flow also clears a mark of the
  gateway's own policy when the connection has none, and a mark is an index into the
  plan, so a flow keeps a mark whose meaning a newer plan has changed (`under` in
  `SteersToFirstHop`).

## 7. Not modelled

- *Planned*: section 2, items 11 and 12.
- *Text and encoding*: renderers of transport, WireGuard, FRR, dnsmasq and service
  files, OCSP's ASN.1, X.509 fields, JSON wire forms, redaction of telemetry labels.
  They have no control state; a bundle, a list or a report is an identity here.
- *Documents that are validated once*: approval requests, exported policy bundles,
  release manifests, the MITM profile's fields, file permissions, password hashes.
- *Streams*: following a growing log or a command's output calls a handler per line;
  `Gateway` models what becomes of the lines.
- *Wiring*: flags, logging, HTTP client methods, desktop views, preflight lists,
  version strings.
