--------------------------- MODULE ConfigDelivery ---------------------------
(***************************************************************************)
(* How a configuration bundle gets from the control plane to one agent     *)
(* (internal/control, internal/config, internal/agent).                    *)
(*                                                                         *)
(* The control plane keeps bundles by identifier and a signing key it can  *)
(* rotate.  The agent runs one loop, whose rounds take several steps: it   *)
(* may fetch the signing key, it asks for the bundles (by polling or by a  *)
(* long poll), the server reads the bundles and then signs them, and the   *)
(* agent verifies, selects, saves to its cache file and applies.  Upserts, *)
(* saves, rotations, the agent's local API, lost messages, failing writes  *)
(* and restarts of either side come between any two of these steps.        *)
(*                                                                         *)
(* A bundle's upsert time identifies it, so it stands for the values the   *)
(* bundle carries; versions are strings, of which only the order matters.  *)
(***************************************************************************)
EXTENDS Integers, FiniteSets

CONSTANTS MaxId,        \* bundle identifiers are 1 .. MaxId, in the order of their names
          MaxVersion,   \* versions are 1 .. MaxVersion, in the order of the strings
          Modes,        \* ways of running the agent's loop that are explored
          Rotators,     \* handlers that rotate the signing key
          Pins,         \* trust policies explored: a pinned key, or NoKey for none
          MaxUpserts,   \* bound: upserts of bundles
          MaxRotations, \* bound: rotations of the signing key
          Budget,       \* bound: how many of both are spent on an agent in each mode
          MaxLocal,     \* bound: bundles applied through the agent's local API
          MaxFaults     \* bound: lost messages, failing writes and restarts

\* Keys are numbered in the order they are generated.
NoKey == -1
Keys == 0 .. MaxRotations

AllModes == {"poll", "signed", "keyrefresh", "watch", "signedwatch"}
Watching == {"watch", "signedwatch"}
Verifying == {"signed", "keyrefresh", "signedwatch"}

ASSUME DeliveryAssumption ==
    /\ MaxId \in Nat /\ MaxVersion \in Nat
    /\ Modes \subseteq AllModes
    /\ Pins \subseteq Keys \cup {NoKey}
    /\ Budget \in [Modes -> [upserts : Nat, rotations : Nat]]
    /\ MaxUpserts \in Nat /\ MaxRotations \in Nat /\ MaxLocal \in Nat /\ MaxFaults \in Nat

VARIABLES configs,     \* the tenant's bundles, by identifier, in the server's memory
          saving,      \* snapshots of them that a save has taken and not yet renamed
          stored,      \* the bundles in the store file
          upserts,     \* number of upserts, the clock of CreatedAt
          signer,      \* the signing key in the server's memory
          signerFile,  \* the signing key in the server's key file
          made,        \* number of the latest key that was generated
          rotating,    \* rotating[r]: the key r has persisted and not yet published
          mode,        \* how the agent runs its loop
          pin,         \* the pinned key of its trust policy, or NoKey
          pc,          \* the next step of the agent's round
          since,       \* the version the agent named in its long poll
          key,         \* the key of the round's verifier
          fetched,     \* the key was fetched in this round
          answer,      \* the bundle the answer's bundles lead to
          answerKey,   \* the key the answer is signed with
          version,     \* the configuration version the agent reports
          effective,   \* the bundle whose values are in force since the start
          appliedKey,  \* history: the key that signed the effective bundle
          cache,       \* the agent's config cache file
          keyCache,    \* the agent's signing key cache file
          local,       \* number of bundles applied through the local API
          faults,      \* number of faults
          orderly,     \* history: every bundle had a version above the earlier ones, and
                       \* no identifier has changed its target
          lost,        \* history: the upserts that a restart took from the server
          crossed      \* history: the latest rotation began while another was under way

store == <<configs, saving, stored, upserts, lost>>
signing == <<signer, signerFile, made, rotating, crossed>>
server == <<store, signing>>
round == <<pc, since, key, fetched, answer, answerKey>>
applied == <<version, effective, appliedKey, cache>>
agent == <<mode, pin>>
vars == <<server, agent, round, applied, keyCache, local, faults, orderly>>

Ids == 1 .. MaxId
Versions == 1 .. MaxVersion
NoBundle == [version |-> 0, target |-> "none", at |-> 0]

Bundles == [version : Versions, target : {"device", "other"}, at : 0 .. MaxUpserts]

-----------------------------------------------------------------------------
(***************************************************************************)
(* The selection among the bundles, in the order of their identifiers: the *)
(* server (selectTargetConfig) and the agent (selectConfig,                *)
(* selectVerifiedConfig) use the same loop.                                *)
(***************************************************************************)

\* Mutant of Better: the first bundle stays selected.
BetterNever(candidate, selected) == selected = NoBundle

Better(candidate, selected) ==
    \/ selected = NoBundle
    \/ candidate.at > selected.at
    \/ candidate.version > selected.version

selectConfig(bundles) ==
    LET selected[i \in 0 .. MaxId] ==
            IF i = 0 THEN NoBundle
            ELSE IF /\ bundles[i].target = "device"
                    /\ Better(bundles[i], selected[i - 1])
                 THEN bundles[i]
                 ELSE selected[i - 1]
    IN selected[MaxId]

-----------------------------------------------------------------------------
Init ==
    /\ configs = [i \in Ids |-> NoBundle]
    /\ saving = {} /\ stored = configs
    /\ upserts = 0 /\ lost = {}
    /\ signer = 0 /\ signerFile = 0 /\ made = 0
    /\ rotating = [r \in Rotators |-> NoKey] /\ crossed = FALSE
    /\ mode \in Modes /\ pin \in Pins /\ keyCache \in {NoKey, 0}
    /\ {pin, keyCache} # {NoKey} => mode = "keyrefresh"   \* the one mode that reads them
    /\ pc = "idle"
    /\ since = 0
    /\ key = IF mode \in {"signed", "signedwatch"} THEN 0 ELSE NoKey
    /\ fetched = FALSE
    /\ answer = NoBundle
    /\ answerKey = NoKey
    /\ version = 0 /\ effective = NoBundle /\ appliedKey = NoKey /\ cache = NoBundle
    /\ local = 0
    /\ faults = 0
    /\ orderly = TRUE

(***************************************************************************)
(* The control plane.                                                      *)
(***************************************************************************)

InOrder(i, v, target) ==
    /\ \A j \in Ids : configs[j].version < v
    /\ configs[i].target \in {"none", target}

\* Mutant of UpsertConfig: CreatedAt is taken from the request.
UpsertConfigAnyTime(i, v, target) ==
    /\ upserts < MaxUpserts /\ upserts < Budget[mode].upserts
    /\ orderly' = (orderly /\ InOrder(i, v, target))
    /\ upserts' = upserts + 1
    /\ \E at \in 1 .. MaxUpserts :
          configs' = [configs EXCEPT ![i] = [version |-> v, target |-> target, at |-> at]]
    /\ UNCHANGED <<saving, stored, lost, signing, agent, round, applied, keyCache, local, faults>>

\* Memory.UpsertConfig sets CreatedAt under its lock; agents read the bundle from here on.
UpsertConfig(i, v, target) ==
    /\ upserts < MaxUpserts /\ upserts < Budget[mode].upserts
    /\ orderly' = (orderly /\ InOrder(i, v, target))
    /\ upserts' = upserts + 1
    /\ configs' = [configs EXCEPT ![i] = [version |-> v, target |-> target, at |-> upserts + 1]]
    /\ UNCHANGED <<saving, stored, lost, signing, agent, round, applied, keyCache, local, faults>>

\* save, first half: a handler that wrote anything to the store takes a snapshot of memory
\* (one like the store file would change nothing).
SnapshotStore ==
    /\ configs # stored
    /\ saving' = saving \cup {configs}
    /\ UNCHANGED <<configs, stored, upserts, lost, signing, agent, round, applied, keyCache, local,
                   faults, orderly>>

\* save, second half: the snapshot replaces the store file.  Saves share no lock, so an
\* older one may come last; one that fails leaves the file alone.
RenameStore(snapshot) ==
    /\ stored' = snapshot
    /\ saving' = saving \ {snapshot}
    /\ UNCHANGED <<configs, upserts, lost, signing, agent, round, applied, keyCache, local, faults,
                   orderly>>

\* Another rotation than r's is between its two halves.
OthersRotating(r) == \E s \in Rotators \ {r} : rotating[s] # NoKey

\* Mutant of RotatePersist: the new key is published before it is persisted.
RotatePersistLate(r) ==
    /\ rotating[r] = NoKey
    /\ made < MaxRotations /\ made < Budget[mode].rotations
    /\ made' = made + 1
    /\ signer' = made + 1
    /\ rotating' = [rotating EXCEPT ![r] = made + 1]
    /\ crossed' = OthersRotating(r)
    /\ UNCHANGED <<store, signerFile, agent, round, applied, keyCache, local, faults, orderly>>

\* RotateConfigSigningKey, first half: a new key is written to the key file.
RotatePersist(r) ==
    /\ rotating[r] = NoKey
    /\ made < MaxRotations /\ made < Budget[mode].rotations
    /\ made' = made + 1
    /\ signerFile' = made + 1
    /\ rotating' = [rotating EXCEPT ![r] = made + 1]
    /\ crossed' = OthersRotating(r)
    /\ UNCHANGED <<store, signer, agent, round, applied, keyCache, local, faults, orderly>>

\* RotateConfigSigningKey, second half: the key is set under signerMu.
RotatePublish(r) ==
    /\ rotating[r] # NoKey
    /\ signer' = rotating[r]
    /\ rotating' = [rotating EXCEPT ![r] = NoKey]
    /\ UNCHANGED <<store, signerFile, made, crossed, agent, round, applied, keyCache, local, faults, orderly>>

-----------------------------------------------------------------------------
(***************************************************************************)
(* A round of the agent's loop.                                            *)
(***************************************************************************)

\* What a round that is over leaves behind: the fixed verifier of a signed mode.
RoundOver ==
    /\ pc' = "idle"
    /\ since' = 0
    /\ key' = IF mode = "keyrefresh" THEN NoKey ELSE key
    /\ fetched' = FALSE
    /\ answer' = NoBundle
    /\ answerKey' = NoKey

Fault ==
    /\ faults < MaxFaults
    /\ faults' = faults + 1

\* SigningKeyTrustPolicy.Validate
Trusted(k) == pin \in {NoKey, k}

\* Mutant of FetchKey: a key in the cache file is used as long as there is one.
FetchKeyCached ==
    /\ pc = "idle"
    /\ mode = "keyrefresh"
    /\ key' = IF keyCache # NoKey THEN keyCache ELSE signer
    /\ Trusted(key')
    /\ fetched' = TRUE
    /\ pc' = "fetch"
    /\ UNCHANGED <<server, agent, since, answer, answerKey, applied, keyCache, local, faults, orderly>>

\* signingKeyForSync when the control plane answers.
FetchKey ==
    /\ pc = "idle"
    /\ mode = "keyrefresh"
    /\ Trusted(signer)
    /\ key' = signer
    /\ fetched' = TRUE
    /\ pc' = "fetch"
    /\ UNCHANGED <<server, agent, since, answer, answerKey, applied, keyCache, local, faults, orderly>>

\* Mutant of UseCachedKey: the pin is only checked on a fetched key.
UseCachedKeyUnpinned ==
    /\ pc = "idle"
    /\ mode = "keyrefresh"
    /\ Fault
    /\ keyCache # NoKey
    /\ key' = keyCache
    /\ pc' = "fetch"
    /\ UNCHANGED <<server, agent, since, fetched, answer, answerKey, applied, keyCache, local, orderly>>

\* signingKeyForSync when it does not: the cached key is used, if there is one.
UseCachedKey ==
    /\ pc = "idle"
    /\ mode = "keyrefresh"
    /\ Fault
    /\ keyCache # NoKey
    /\ Trusted(keyCache)
    /\ key' = keyCache
    /\ pc' = "fetch"
    /\ UNCHANGED <<server, agent, since, fetched, answer, answerKey, applied, keyCache, local, orderly>>

\* The other modes start by asking for the bundles.
StartRound ==
    /\ pc = "idle"
    /\ mode # "keyrefresh"
    /\ since' = version
    /\ pc' = "fetch"
    /\ UNCHANGED <<server, agent, key, fetched, answer, answerKey, applied, keyCache, local, faults, orderly>>

\* The server reads the tenant's bundles; a signed answer is signed in a later step.
Answer ==
    /\ answer' = selectConfig(configs)
    /\ pc' = IF mode \in Verifying THEN "sign" ELSE "apply"
    /\ UNCHANGED <<server, agent, since, key, fetched, answerKey, applied, keyCache, local, faults, orderly>>

ReadConfigs ==
    /\ pc = "fetch"
    /\ mode \notin Watching
    /\ Answer

\* changedConfig
Changed == selectConfig(configs) # NoBundle /\ selectConfig(configs).version # since

WatchConfig ==
    /\ pc = "fetch"
    /\ mode \in Watching
    /\ Changed
    /\ Answer

\* The long poll's context is done and nothing has changed: 204.
WatchTimesOut ==
    /\ pc = "fetch"
    /\ mode \in Watching
    /\ ~Changed
    /\ RoundOver
    /\ UNCHANGED <<server, agent, applied, keyCache, local, faults, orderly>>

\* Every bundle of the answer is signed with the key of this moment.
SignConfigs ==
    /\ pc = "sign"
    /\ answerKey' = signer
    /\ pc' = "apply"
    /\ UNCHANGED <<server, agent, since, key, fetched, answer, applied, keyCache, local, faults, orderly>>

\* A request or its answer is lost.
RequestFails ==
    /\ pc \in {"fetch", "sign", "apply"}
    /\ Fault
    /\ RoundOver
    /\ UNCHANGED <<server, agent, applied, keyCache, local, orderly>>

\* selectVerifiedConfig: a bundle for this device does not verify.
VerifyFails ==
    /\ pc = "apply"
    /\ mode \in Verifying
    /\ answer # NoBundle
    /\ answerKey # key
    /\ RoundOver
    /\ UNCHANGED <<server, agent, applied, keyCache, local, faults, orderly>>

Verified == answer # NoBundle /\ (mode \in Verifying => answerKey = key)

\* After the bundle comes the key cache, if the key was fetched in this round.
AfterApply ==
    IF fetched
    THEN /\ pc' = "savekey"
         /\ UNCHANGED <<since, key, fetched, answer, answerKey>>
    ELSE RoundOver

\* Mutant of Apply: only a version above the one the agent reports is applied.
ApplyNewer ==
    /\ pc = "apply"
    /\ Verified
    /\ IF answer.version <= version
       THEN UNCHANGED applied
       ELSE /\ cache' = answer
            /\ version' = answer.version
            /\ effective' = answer
            /\ appliedKey' = answerKey
    /\ AfterApply
    /\ UNCHANGED <<server, agent, keyCache, local, faults, orderly>>

\* ApplyConfig: the cache file first, then memory, under the service's mutex.
Apply ==
    /\ pc = "apply"
    /\ Verified
    /\ cache' = answer
    /\ version' = answer.version
    /\ effective' = answer
    /\ appliedKey' = answerKey
    /\ AfterApply
    /\ UNCHANGED <<server, agent, keyCache, local, faults, orderly>>

\* No bundle of the answer is for this device.
NothingToApply ==
    /\ pc = "apply"
    /\ answer = NoBundle
    /\ AfterApply
    /\ UNCHANGED <<server, agent, applied, keyCache, local, faults, orderly>>

\* Mutant of CacheFails: the bundle is in force when the cache write fails.
CacheFailsApplied ==
    /\ pc = "apply"
    /\ Verified
    /\ Fault
    /\ version' = answer.version
    /\ effective' = answer
    /\ appliedKey' = answerKey
    /\ RoundOver
    /\ UNCHANGED <<server, agent, cache, keyCache, local, orderly>>

\* The cache file cannot be written: nothing is applied.
CacheFails ==
    /\ pc = "apply"
    /\ Verified
    /\ Fault
    /\ RoundOver
    /\ UNCHANGED <<server, agent, applied, keyCache, local, orderly>>

SaveKey ==
    /\ pc = "savekey"
    /\ keyCache' = key
    /\ RoundOver
    /\ UNCHANGED <<server, agent, applied, local, faults, orderly>>

SaveKeyFails ==
    /\ pc = "savekey"
    /\ Fault
    /\ RoundOver
    /\ UNCHANGED <<server, agent, applied, keyCache, local, orderly>>

-----------------------------------------------------------------------------
(***************************************************************************)
(* The agent's local API, and restarts.                                    *)
(***************************************************************************)

\* POST /v1/config: ApplyConfig with a bundle from the desktop.
LocalApply(v) ==
    /\ local < MaxLocal
    /\ local' = local + 1
    /\ LET bundle == [version |-> v, target |-> "device", at |-> 0] IN
       /\ cache' = bundle
       /\ effective' = bundle
    /\ version' = v
    /\ appliedKey' = NoKey
    /\ UNCHANGED <<server, agent, round, keyCache, faults, orderly>>

\* The agent restarts: newServiceWithDependencies takes the version of the cached
\* bundle, and none of its values.
AgentRestarts ==
    /\ Fault
    /\ version' = cache.version
    /\ effective' = NoBundle
    /\ appliedKey' = NoKey
    /\ RoundOver
    /\ UNCHANGED <<server, agent, cache, keyCache, local, orderly>>

\* The server restarts: loadConfigSigner reads the key file and NewFileRepository the
\* store file, so upserts later than those of the file are gone.  A rotation, a save and
\* a request under way are lost too.
ServerRestarts ==
    /\ Fault
    /\ configs' = stored
    /\ saving' = {}
    /\ lost' = lost \cup {at \in 1 .. upserts : \A i \in Ids : stored[i].at < at}
    /\ signer' = signerFile
    /\ rotating' = [r \in Rotators |-> NoKey]
    /\ crossed' = FALSE
    /\ IF pc \in {"fetch", "sign"} THEN RoundOver ELSE UNCHANGED round
    /\ UNCHANGED <<stored, upserts, signerFile, made, agent, applied, keyCache, local, orderly>>

-----------------------------------------------------------------------------
Control ==
    \/ \E i \in Ids, v \in Versions, target \in {"device", "other"} : UpsertConfig(i, v, target)
    \/ SnapshotStore
    \/ \E snapshot \in saving : RenameStore(snapshot)
    \/ \E r \in Rotators : RotatePersist(r) \/ RotatePublish(r)

\* The steps the loop takes by itself.
Progress ==
    \/ FetchKey
    \/ StartRound
    \/ ReadConfigs
    \/ WatchConfig
    \/ WatchTimesOut
    \/ SignConfigs
    \/ VerifyFails
    \/ Apply
    \/ NothingToApply
    \/ SaveKey

Faults ==
    \/ UseCachedKey
    \/ RequestFails
    \/ CacheFails
    \/ SaveKeyFails
    \/ AgentRestarts
    \/ ServerRestarts

Next ==
    \/ Control
    \/ Progress
    \/ Faults
    \/ \E v \in Versions : LocalApply(v)

Spec == Init /\ [][Next]_vars

\* The polling loop goroutine keeps running (runSyncLoop returns only when its context is
\* done), and a rotation that began is finished.  Nothing in the repository repeats the
\* watch rounds, so nothing is assumed of them.
FairSpec ==
    /\ Spec
    /\ WF_vars(mode \notin Watching /\ Progress)
    /\ \A r \in Rotators : WF_vars(RotatePublish(r))

-----------------------------------------------------------------------------
(***************************************************************************)
(* Properties.                                                             *)
(***************************************************************************)

\* Every variable has its type.
TypeOK ==
    /\ configs \in [Ids -> Bundles \cup {NoBundle}]
    /\ stored \in [Ids -> Bundles \cup {NoBundle}]
    /\ saving \subseteq [Ids -> Bundles \cup {NoBundle}]
    /\ upserts \in 0 .. MaxUpserts /\ lost \subseteq 1 .. MaxUpserts
    /\ signer \in Keys /\ signerFile \in Keys /\ made \in Keys
    /\ rotating \in [Rotators -> Keys \cup {NoKey}]
    /\ mode \in Modes /\ pin \in Pins
    /\ orderly \in BOOLEAN /\ crossed \in BOOLEAN
    /\ pc \in {"idle", "fetch", "sign", "apply", "savekey"}
    /\ since \in Versions \cup {0}
    /\ key \in Keys \cup {NoKey}
    /\ pc = "savekey" => key \in Keys
    /\ fetched \in BOOLEAN
    /\ answer \in Bundles \cup {NoBundle}
    /\ answerKey \in Keys \cup {NoKey}
    /\ version \in Versions \cup {0}
    /\ effective \in Bundles \cup {NoBundle}
    /\ appliedKey \in Keys \cup {NoKey}
    /\ cache \in Bundles \cup {NoBundle}
    /\ keyCache \in Keys \cup {NoKey}
    /\ local \in 0 .. MaxLocal
    /\ faults \in 0 .. MaxFaults

\* What the agent reports and has in force is what its cache file holds, whatever
\* the loop and the local API do in between: a restart never goes back behind a
\* configuration the agent has reported (ApplyConfig saves before it assigns).
CacheIsCurrent ==
    /\ version = cache.version
    /\ effective # NoBundle => effective = cache

\* With a pinned key, no bundle signed with another key is ever in force because
\* of the loop: not after a rotation between the key and the bundles, and not
\* because of a key that an earlier, unpinned agent left in the cache file.
PinHolds == mode = "keyrefresh" /\ pin # NoKey => appliedKey \in {NoKey, pin}

\* A key is on disk before it signs anything, and the key file only runs ahead of
\* the server for as long as a rotation is between its two steps, so a restart of
\* an idle server keeps the key that clients were given (RotateConfigSigningKey holds
\* no lock from persist to publish).  Rotations that cross can leave another key in the
\* file, until the next one that has the server to itself, or a restart.
SignerIsDurable ==
    ~crossed /\ signer # signerFile => \E r \in Rotators : rotating[r] = signerFile

\* The latest of the bundles for this device.
Newest(bundle) ==
    \A i \in Ids : configs[i].target = "device" => configs[i].at <= bundle.at

\* If versions have only grown, in whatever order the identifiers come, the selection
\* loop ends with the bundle that was upserted last.
NewestSelected == orderly => Newest(selectConfig(configs))

\* As long as they do, the loop never replaces a bundle by one that was upserted before
\* it, however late an answer comes, but for a bundle that the control plane itself lost:
\* an agent can read and apply one before its save has replaced the store file.
NeverBackwards ==
    [][orderly' /\ effective # NoBundle /\ effective'.at # 0 /\ effective.at \notin lost
           => effective'.at >= effective.at]_vars

\* The agent's verifier is for the key of the server: in the two modes in which it is
\* given once and for all no rotation can be followed, and a pinned agent follows none
\* to another key.
CanVerify ==
    /\ mode \in {"signed", "signedwatch"} => key = signer
    /\ mode = "keyrefresh" => Trusted(signer)

\* Once operators, rotations and faults come to rest, the agent ends up with the
\* bundle the control plane selects for it in force, through any sequence of lost
\* answers, stale keys, restarts and locally applied bundles.
Delivered == selectConfig(configs) # NoBundle => effective = selectConfig(configs)
EventuallyDelivered == <>[](mode \notin Watching /\ CanVerify => Delivered)

=============================================================================
