------------------------ MODULE ConfigDeliveryProofs ------------------------
(***************************************************************************)
(* Proofs about ConfigDelivery, for any number of bundles, versions, keys  *)
(* and faults: the agent's cache file, the pinned key, the signing key,    *)
(* and what the selection loop ends with.                                  *)
(***************************************************************************)
EXTENDS ConfigDelivery, WellFoundedInduction, TLAPS

-----------------------------------------------------------------------------
(***************************************************************************)
(* What the agent reports and what its cache file holds.                   *)
(***************************************************************************)

\* Every step of the agent leaves version, effective bundle and cache file in
\* agreement, so a restart never goes back behind what was reported: the cache
\* write of ApplyConfig comes first and the mutex covers it.
THEOREM CacheAgrees == Spec => []CacheIsCurrent
<1>1. Init => CacheIsCurrent
  BY DEF Init, CacheIsCurrent, NoBundle
<1>2. CacheIsCurrent /\ [Next]_vars => CacheIsCurrent'
  <2>. SUFFICES ASSUME CacheIsCurrent, [Next]_vars
                PROVE  CacheIsCurrent'
    OBVIOUS
  <2>1. CASE UNCHANGED applied
    BY <2>1 DEF applied, CacheIsCurrent
  <2>2. CASE Apply
    BY <2>2 DEF Apply, CacheIsCurrent
  <2>3. ASSUME NEW v \in Versions, LocalApply(v)
        PROVE  CacheIsCurrent'
    BY <2>3 DEF LocalApply, CacheIsCurrent
  <2>4. CASE AgentRestarts
    BY <2>4 DEF AgentRestarts, CacheIsCurrent
  <2>5. UNCHANGED applied \/ Apply \/ AgentRestarts \/ \E v \in Versions : LocalApply(v)
    BY DEF Next, Control, Progress, Faults, vars, UpsertConfig, SnapshotStore, RenameStore, RotatePersist, RotatePublish,
           FetchKey, StartRound, ReadConfigs, WatchConfig, Answer, WatchTimesOut, SignConfigs,
           VerifyFails, NothingToApply, SaveKey, UseCachedKey, RequestFails, CacheFails,
           SaveKeyFails, ServerRestarts
  <2>. QED
    BY <2>1, <2>2, <2>3, <2>4, <2>5
<1>. QED
  BY <1>1, <1>2, PTL DEF Spec

-----------------------------------------------------------------------------
(***************************************************************************)
(* The pinned key.  The strengthening follows the key through a round: the *)
(* verifier that a pinned agent builds is always the pinned key.           *)
(***************************************************************************)

PinInv ==
    mode = "keyrefresh" /\ pin # NoKey =>
        /\ key \in {NoKey, pin}
        /\ pc # "idle" => key = pin
        /\ appliedKey \in {NoKey, pin}

LEMMA PinStep == PinInv /\ [Next]_vars => PinInv'
<1>. SUFFICES ASSUME PinInv, [Next]_vars PROVE PinInv'
  OBVIOUS
<1>m. mode' = mode /\ pin' = pin
  BY DEF agent, Next, Control, Progress, Faults, vars, UpsertConfig, SnapshotStore, RenameStore, RotatePersist, RotatePublish,
         FetchKey, StartRound, ReadConfigs, WatchConfig, Answer, WatchTimesOut, SignConfigs,
         VerifyFails, Apply, NothingToApply, SaveKey, UseCachedKey, RequestFails, CacheFails,
         SaveKeyFails, AgentRestarts, ServerRestarts, LocalApply
<1>. SUFFICES ASSUME mode = "keyrefresh", pin # NoKey
              PROVE  key' \in {NoKey, pin} /\ (pc' # "idle" => key' = pin)
                     /\ appliedKey' \in {NoKey, pin}
  BY <1>m DEF PinInv
<1>k. key \in {NoKey, pin} /\ (pc # "idle" => key = pin) /\ appliedKey \in {NoKey, pin}
  BY DEF PinInv
<1>1. CASE UNCHANGED <<round, applied>>
  BY <1>1, <1>k DEF round, applied
<1>2. CASE FetchKey \/ UseCachedKey
  BY <1>2, <1>k DEF FetchKey, UseCachedKey, Trusted, applied
<1>3. CASE StartRound
  BY <1>3 DEF StartRound
<1>4. CASE ReadConfigs \/ WatchConfig \/ SignConfigs
  BY <1>4, <1>k DEF ReadConfigs, WatchConfig, Answer, SignConfigs, applied
<1>5. CASE WatchTimesOut \/ RequestFails \/ VerifyFails \/ CacheFails \/ SaveKey \/ SaveKeyFails
  BY <1>5, <1>k DEF WatchTimesOut, RequestFails, VerifyFails, CacheFails, SaveKey, SaveKeyFails,
                    RoundOver, applied
<1>6. CASE Apply
  <2>1. answerKey = key /\ key = pin
    BY <1>6, <1>k DEF Apply, Verified, Verifying
  <2>2. appliedKey' = pin
    BY <1>6, <2>1 DEF Apply
  <2>3. key' \in {NoKey, key} /\ (pc' # "idle" => key' = key)
    BY <1>6 DEF Apply, AfterApply, RoundOver
  <2>. QED
    BY <2>1, <2>2, <2>3
<1>7. CASE NothingToApply
  BY <1>7, <1>k DEF NothingToApply, AfterApply, RoundOver, applied
<1>8. ASSUME NEW v \in Versions, LocalApply(v)
      PROVE  key' \in {NoKey, pin} /\ (pc' # "idle" => key' = pin)
             /\ appliedKey' \in {NoKey, pin}
  BY <1>8, <1>k DEF LocalApply, round
<1>9. CASE AgentRestarts
  BY <1>9, <1>k DEF AgentRestarts, RoundOver
<1>10. CASE ServerRestarts
  BY <1>10, <1>k DEF ServerRestarts, RoundOver, round, applied
<1>11. ASSUME Control PROVE UNCHANGED <<round, applied>>
  BY <1>11 DEF Control, UpsertConfig, SnapshotStore, RenameStore, RotatePersist, RotatePublish
<1>12. ASSUME UNCHANGED vars PROVE UNCHANGED <<round, applied>>
  BY <1>12 DEF vars
<1>. QED
  BY <1>1, <1>2, <1>3, <1>4, <1>5, <1>6, <1>7, <1>8, <1>9, <1>10, <1>11, <1>12
     DEF Next, Progress, Faults

\* A pinned agent never has a bundle of the loop in force that was signed with
\* another key, through rotations, lost answers, restarts and any key that the
\* cache file held when it started.
THEOREM PinIsKept == Spec => []PinHolds
<1>1. Init => PinInv
  BY DEF Init, PinInv
<1>2. PinInv => PinHolds
  BY DEF PinInv, PinHolds
<1>. QED
  BY <1>1, <1>2, PinStep, PTL DEF Spec

-----------------------------------------------------------------------------
(***************************************************************************)
(* The signing key.  A rotation that has the server to itself leaves the   *)
(* key file and the server's key in step.                                  *)
(***************************************************************************)

SignerInv ==
    /\ rotating \in [Rotators -> Keys \cup {NoKey}]
    /\ signerFile \in Keys
    /\ made \in Keys
    /\ ~crossed => \A r \in Rotators : rotating[r] # NoKey =>
                       rotating[r] = signerFile /\ ~OthersRotating(r)
    /\ SignerIsDurable

LEMMA NextKey == ASSUME made \in Keys, made < MaxRotations PROVE made + 1 \in Keys
BY DeliveryAssumption DEF Keys

LEMMA SignerStep == SignerInv /\ [Next]_vars => SignerInv'
<1>. SUFFICES ASSUME SignerInv, [Next]_vars PROVE SignerInv'
  OBVIOUS
<1>1. CASE UNCHANGED signing
  BY <1>1 DEF SignerInv, SignerIsDurable, OthersRotating, signing
<1>2. ASSUME NEW r \in Rotators, RotatePersist(r)
      PROVE  SignerInv'
  <2>1. /\ signerFile' = made + 1 /\ made' = made + 1 /\ made + 1 \in Keys
        /\ rotating' = [rotating EXCEPT ![r] = made + 1]
        /\ crossed' = OthersRotating(r)
    BY <1>2, NextKey DEF RotatePersist, SignerInv
  <2>2. /\ rotating' \in [Rotators -> Keys \cup {NoKey}] /\ rotating'[r] = signerFile'
        /\ \A s \in Rotators \ {r} : rotating'[s] = rotating[s]
    BY <2>1 DEF SignerInv
  <2>3. ASSUME ~crossed', NEW s \in Rotators, rotating'[s] # NoKey
        PROVE  s = r /\ ~OthersRotating(s)'
    BY <2>1, <2>2, <2>3 DEF OthersRotating
  <2>. QED
    BY <2>1, <2>2, <2>3 DEF SignerInv, SignerIsDurable
<1>3. ASSUME NEW r \in Rotators, RotatePublish(r)
      PROVE  SignerInv'
  <2>1. /\ rotating[r] # NoKey /\ signer' = rotating[r] /\ UNCHANGED <<signerFile, made, crossed>>
        /\ rotating' = [rotating EXCEPT ![r] = NoKey]
    BY <1>3 DEF RotatePublish
  <2>2. ~crossed => signer' = signerFile' /\ \A s \in Rotators \ {r} : rotating[s] = NoKey
    BY <2>1 DEF SignerInv, OthersRotating
  <2>3. rotating' \in [Rotators -> Keys \cup {NoKey}]
    BY <2>1 DEF SignerInv
  <2>4. ~crossed => \A s \in Rotators : rotating'[s] = NoKey
    BY <2>1, <2>2, <2>3 DEF SignerInv
  <2>. QED
    BY <2>1, <2>2, <2>3, <2>4 DEF SignerInv, SignerIsDurable
<1>4. CASE ServerRestarts
  <2>1. /\ signer' = signerFile /\ UNCHANGED <<signerFile, made>>
        /\ rotating' = [r \in Rotators |-> NoKey]
    BY <1>4 DEF ServerRestarts
  <2>. QED
    BY <2>1 DEF SignerInv, SignerIsDurable
<1>5. \/ UNCHANGED signing
      \/ \E r \in Rotators : RotatePersist(r) \/ RotatePublish(r)
      \/ ServerRestarts
  BY DEF Next, Control, Progress, Faults, vars, server, signing, UpsertConfig, SnapshotStore,
         RenameStore, FetchKey, StartRound, ReadConfigs, WatchConfig, Answer, WatchTimesOut,
         SignConfigs, VerifyFails, Apply, NothingToApply, SaveKey, UseCachedKey, RequestFails,
         CacheFails, SaveKeyFails, AgentRestarts, LocalApply
<1>. QED
  BY <1>1, <1>2, <1>3, <1>4, <1>5

\* For any number of handlers that rotate at once: unless the latest rotation crossed
\* another, the key file holds the server's key except between the two steps of a
\* rotation, so restarting an idle server changes no key (RotateConfigSigningKey holds
\* no lock from persist to publish).
THEOREM SignerSurvivesRestart == Spec => []SignerIsDurable
<1>1. Init => SignerInv
  <2>1. 0 \in Keys
    BY DeliveryAssumption DEF Keys
  <2>. QED
    BY <2>1 DEF Init, SignerInv, SignerIsDurable, OthersRotating
<1>2. SignerInv => SignerIsDurable
  BY DEF SignerInv
<1>. QED
  BY <1>1, <1>2, SignerStep, PTL DEF Spec

-----------------------------------------------------------------------------
(***************************************************************************)
(* The selection among the bundles.  The loop is a recursive function: its *)
(* values are reached by way of the least identifier for which a claim     *)
(* about them fails.                                                       *)
(***************************************************************************)

\* A set of natural numbers has a least element.
LEMMA LeastNatural ==
  ASSUME NEW T \in SUBSET Nat, T # {}
  PROVE  \E x \in T : \A y \in T : x <= y
<1>. DEFINE R == {ss \in Nat \X Nat : ss[1] < ss[2]}
<1>1. OpToRel(<, Nat) = R
  BY Zenon DEF OpToRel
<1>2. IsWellFoundedOn(R, Nat)
  BY <1>1, NatLessThanWellFounded, Zenon
<1>3. \E x \in T : \A y \in T : ~(<<y, x>> \in R)
  <2>. HIDE DEF R
  <2>. QED
    BY <1>2, WFMin, Zenon
<1>4. ASSUME NEW x \in T, NEW y \in T, ~(<<y, x>> \in R)
      PROVE  x <= y
  BY <1>4
<1>. QED
  BY <1>3, <1>4

\* A set that holds 0 and, with a number below n, the next one holds all up to n.
LEMMA CountUp ==
  ASSUME NEW n \in Nat, NEW S, 0 \in S, \A i \in 0 .. n - 1 : i \in S => i + 1 \in S
  PROVE  \A i \in 0 .. n : i \in S
<1>. DEFINE T == {i \in 0 .. n : i \notin S}
<1>. SUFFICES ASSUME T # {} PROVE FALSE
  OBVIOUS
<1>1. PICK x \in T : \A y \in T : x <= y
  <2>1. T \in SUBSET Nat
    OBVIOUS
  <2>. HIDE DEF T
  <2>. QED
    BY <2>1, LeastNatural
<1>2. x \in 1 .. n /\ x - 1 \in 0 .. n - 1 /\ x - 1 \notin T
  BY <1>1
<1>3. x - 1 \in S
  BY <1>2
<1>. QED
  BY <1>2, <1>3

\* One turn of the loop, and the selections of its first n turns.
Turn(candidate, selected) ==
    IF candidate.target = "device" /\ Better(candidate, selected) THEN candidate ELSE selected

IsSelection(s, bundles, n) ==
    s = [i \in 0 .. n |-> IF i = 0 THEN NoBundle ELSE Turn(bundles[i], s[i - 1])]

\* The recursion of the loop is well-defined.
LEMMA SelectionExists == ASSUME NEW bundles PROVE \E s : IsSelection(s, bundles, MaxId)
<1>. DEFINE S == {n \in 0 .. MaxId : \E s : IsSelection(s, bundles, n)}
<1>1. 0 \in S
  <2>. DEFINE s == [i \in 0 .. 0 |-> NoBundle]
  <2>1. IsSelection(s, bundles, 0)
    BY DEF IsSelection
  <2>. QED
    BY <2>1, DeliveryAssumption
<1>2. ASSUME NEW n \in 0 .. MaxId - 1, n \in S PROVE n + 1 \in S
  <2>1. PICK s : IsSelection(s, bundles, n)
    BY <1>2
  <2>. DEFINE t == [i \in 0 .. n + 1 |-> IF i = n + 1 THEN Turn(bundles[i], s[n]) ELSE s[i]]
              u == [i \in 0 .. n + 1 |-> IF i = 0 THEN NoBundle ELSE Turn(bundles[i], t[i - 1])]
  <2>2. /\ s[0] = NoBundle
        /\ \A i \in 1 .. n : s[i] = Turn(bundles[i], s[i - 1])
    BY <2>1, DeliveryAssumption DEF IsSelection
  <2>3. ASSUME NEW i \in 0 .. n + 1 PROVE t[i] = u[i]
    <3>1. CASE i = n + 1
      BY <3>1, DeliveryAssumption
    <3>2. CASE i \in 1 .. n
      BY <2>2, <3>2, DeliveryAssumption
    <3>3. CASE i = 0
      BY <2>2, <3>3, DeliveryAssumption
    <3>. QED
      BY <3>1, <3>2, <3>3, DeliveryAssumption
  <2>4. t = u
    BY <2>3
  <2>5. IsSelection(t, bundles, n + 1)
    BY <2>4 DEF IsSelection
  <2>6. n + 1 \in 0 .. MaxId
    BY DeliveryAssumption
  <2>. HIDE DEF t
  <2>. QED
    BY <2>5, <2>6
<1>3. MaxId \in S
  <2>. HIDE DEF S
  <2>. QED
    BY <1>1, <1>2, CountUp, DeliveryAssumption
<1>. QED
  BY <1>3

LEMMA SelectionIsLast ==
  ASSUME NEW bundles
  PROVE  \E s : /\ selectConfig(bundles) = s[MaxId] /\ s[0] = NoBundle
                /\ \A i \in 1 .. MaxId : s[i] = Turn(bundles[i], s[i - 1])
<1>1. \E s : IsSelection(s, bundles, MaxId) /\ selectConfig(bundles) = s[MaxId]
  BY SelectionExists, Zenon DEF selectConfig, IsSelection, Turn
<1>2. ASSUME NEW s, IsSelection(s, bundles, MaxId)
      PROVE  s[0] = NoBundle /\ \A i \in 1 .. MaxId : s[i] = Turn(bundles[i], s[i - 1])
  BY <1>2, DeliveryAssumption DEF IsSelection
<1>. QED
  BY <1>1, <1>2

\* The bundles of one tenant: versions and times of creation are in the same order.
Ordered(bundles) ==
    \A i, j \in Ids : bundles[i].at > bundles[j].at <=> bundles[i].version > bundles[j].version

\* The loop ends with a bundle for this device, or with none if there is none, and with
\* one of the latest creation if versions and times agree (selectConfig,
\* selectTargetConfig, selectVerifiedConfig).
LEMMA SelectionFacts ==
  ASSUME NEW bundles \in [Ids -> Bundles \cup {NoBundle}]
  PROVE  /\ \/ selectConfig(bundles) = NoBundle
            \/ \E j \in Ids : bundles[j].target = "device" /\ selectConfig(bundles) = bundles[j]
         /\ Ordered(bundles) =>
                \A j \in Ids : bundles[j].target = "device" => bundles[j].at <= selectConfig(bundles).at
<1>1. PICK s : /\ selectConfig(bundles) = s[MaxId] /\ s[0] = NoBundle
               /\ \A i \in 1 .. MaxId : s[i] = Turn(bundles[i], s[i - 1])
  BY SelectionIsLast
<1>. DEFINE From(i) == \/ s[i] = NoBundle
                       \/ \E j \in Ids : bundles[j].target = "device" /\ s[i] = bundles[j]
            Latest(i) == \A j \in 1 .. i : bundles[j].target = "device" => bundles[j].at <= s[i].at
            S == {i \in 0 .. MaxId : From(i) /\ (Ordered(bundles) => Latest(i))}
<1>t. \A j \in Ids : /\ bundles[j].at \in Nat /\ bundles[j].version \in Nat
                     /\ bundles[j].target = "device" => bundles[j] # NoBundle
  BY DeliveryAssumption DEF Bundles, NoBundle, Versions
<1>2. 0 \in S
  BY <1>1, DeliveryAssumption
<1>3. ASSUME NEW i \in 0 .. MaxId - 1, i \in S PROVE i + 1 \in S
  <2>. DEFINE c == bundles[i + 1]
  <2>1. /\ i + 1 \in Ids /\ i + 1 \in 1 .. MaxId /\ i + 1 \in 0 .. MaxId /\ (i + 1) - 1 = i
    BY DeliveryAssumption DEF Ids
  <2>2. s[i + 1] = Turn(c, s[i])
    BY <1>1, <2>1
  <2>3. From(i) /\ (Ordered(bundles) => Latest(i))
    BY <1>3
  <2>4. s[i].at \in Nat /\ c.at \in Nat
    BY <1>t, <2>1, <2>3 DEF NoBundle
  <2>5. CASE c.target = "device" /\ Better(c, s[i])
    <3>1. s[i + 1] = c
      BY <2>2, <2>5 DEF Turn
    <3>2. From(i + 1)
      BY <2>1, <2>5, <3>1
    <3>3. ASSUME Ordered(bundles) PROVE s[i].at <= c.at
      <4>1. CASE s[i] = NoBundle
        BY <2>4, <4>1 DEF NoBundle
      <4>2. CASE s[i] # NoBundle
        <5>1. PICK j \in Ids : s[i] = bundles[j]
          BY <2>3, <4>2
        <5>2. c.at > s[i].at \/ c.version > s[i].version
          BY <2>5, <4>2 DEF Better
        <5>3. c.at > bundles[j].at <=> c.version > bundles[j].version
          BY <2>1, <3>3 DEF Ordered
        <5>4. c.at > s[i].at
          BY <5>1, <5>2, <5>3
        <5>. QED
          BY <2>4, <5>4
      <4>. QED
        BY <4>1, <4>2
    <3>4. ASSUME Ordered(bundles), NEW j \in 1 .. i + 1, bundles[j].target = "device"
          PROVE  bundles[j].at <= s[i + 1].at
      <4>1. CASE j = i + 1
        BY <2>4, <3>1, <4>1
      <4>2. CASE j \in 1 .. i
        <5>0. j \in Ids
          BY <4>2, DeliveryAssumption DEF Ids
        <5>1. bundles[j].at <= s[i].at /\ bundles[j].at \in Nat
          BY <1>t, <2>3, <3>4, <4>2, <5>0
        <5>. QED
          BY <2>4, <3>1, <3>3, <3>4, <5>1
      <4>. QED
        BY <3>4, <4>1, <4>2
    <3>. QED
      BY <2>1, <3>2, <3>4
  <2>6. CASE ~(c.target = "device" /\ Better(c, s[i]))
    <3>1. s[i + 1] = s[i]
      BY <2>2, <2>6 DEF Turn
    <3>2. From(i + 1)
      BY <2>3, <3>1
    <3>3. ASSUME Ordered(bundles), NEW j \in 1 .. i + 1, bundles[j].target = "device"
          PROVE  bundles[j].at <= s[i + 1].at
      <4>1. CASE j = i + 1
        BY <2>4, <2>6, <3>1, <3>3, <4>1 DEF Better
      <4>2. CASE j \in 1 .. i
        BY <2>3, <3>1, <3>3, <4>2
      <4>. QED
        BY <3>3, <4>1, <4>2
    <3>. QED
      BY <2>1, <3>2, <3>3
  <2>. QED
    BY <2>5, <2>6
<1>4. MaxId \in S
  <2>. HIDE DEF S
  <2>. QED
    BY <1>2, <1>3, CountUp, DeliveryAssumption
<1>. QED
  BY <1>1, <1>4 DEF Ids

\* Every copy of the bundles that a restart can bring to memory.
Copies == {configs, stored} \cup saving

\* CreatedAt runs with the upserts, and versions with it as long as they only grow.  A copy
\* is what memory was at an earlier time, and memory has every upsert that was not lost.
ConfigsInv ==
    /\ Copies \subseteq [Ids -> Bundles \cup {NoBundle}]
    /\ upserts \in Nat /\ orderly \in BOOLEAN
    /\ \A copy \in Copies : \A i \in Ids : copy[i].at <= upserts
    /\ \A copy \in Copies : \A i, k \in Ids : configs[i].at <= copy[k].at => copy[i] = configs[i]
    /\ orderly => \A copy \in Copies : Ordered(copy)
    /\ \A at \in 1 .. upserts : at \in lost \/ \E i \in Ids : at <= configs[i].at

\* Some identifier is for this device and as late in every copy that goes so far, unless
\* the time is none or the upsert was lost.
Covers(j, at) ==
    \A copy \in Copies : (\E k \in Ids : at <= copy[k].at)
                              => copy[j].target = "device" /\ at <= copy[j].at

Kept(at) == at = 0 \/ at \in lost \/ \E j \in Ids : Covers(j, at)

\* An answer on its way is not behind what is in force, unless that was lost.
ForwardInv ==
    /\ effective \in Bundles \cup {NoBundle} /\ answer \in Bundles \cup {NoBundle}
    /\ effective.at <= upserts /\ answer.at <= upserts
    /\ orderly => /\ Kept(effective.at) /\ Kept(answer.at)
                  /\ answer # NoBundle => effective.at \in lost \/ effective.at <= answer.at

SelectionInv == ConfigsInv /\ ForwardInv

\* The times of the bundles are numbers.
LEMMA TimesAreNumbers ==
  ASSUME SelectionInv
  PROVE  /\ effective.at \in Nat /\ answer.at \in Nat /\ upserts \in Nat
         /\ \A copy \in Copies : \A i \in Ids : copy[i].at \in Nat /\ copy[i].version \in Nat
BY DeliveryAssumption DEF SelectionInv, ConfigsInv, ForwardInv, Bundles, NoBundle, Versions

LEMMA UpsertStep ==
  ASSUME SelectionInv, NEW i \in Ids, NEW v \in Versions, NEW target \in {"device", "other"},
         UpsertConfig(i, v, target)
  PROVE  SelectionInv'
<1>. DEFINE b == [version |-> v, target |-> target, at |-> upserts + 1]
<1>1. /\ upserts < MaxUpserts /\ upserts' = upserts + 1 /\ configs' = [configs EXCEPT ![i] = b]
      /\ orderly' = (orderly /\ InOrder(i, v, target))
      /\ UNCHANGED <<saving, stored, lost, effective, answer>>
  BY DEF UpsertConfig, round, applied
<1>2. b \in Bundles /\ v \in Nat /\ upserts \in Nat
  BY <1>1, DeliveryAssumption DEF Bundles, Versions, SelectionInv, ConfigsInv
<1>3. /\ configs' \in [Ids -> Bundles \cup {NoBundle}]
      /\ configs'[i] = b /\ \A j \in Ids \ {i} : configs'[j] = configs[j]
  BY <1>1, <1>2 DEF SelectionInv, ConfigsInv, Copies
<1>n. \A copy \in Copies : \A j \in Ids :
          copy[j].at \in Nat /\ copy[j].version \in Nat /\ copy[j].at <= upserts
  BY TimesAreNumbers DEF SelectionInv, ConfigsInv
<1>t. \A j \in Ids : configs[j].at \in Nat /\ configs[j].version \in Nat /\ configs[j].at <= upserts
  BY <1>n DEF Copies
<1>4. b.at = upserts + 1 /\ b.version = v /\ b.target = target
  OBVIOUS
<1>c. \A copy \in Copies' : copy = configs' \/ copy \in Copies
  BY <1>1 DEF Copies
<1>. HIDE DEF b
<1>5. \A copy \in Copies' : \A j \in Ids : copy[j].at <= upserts'
  <2>1. \A j \in Ids : configs'[j].at <= upserts'
    BY <1>1, <1>2, <1>3, <1>4, <1>t
  <2>2. \A copy \in Copies : \A j \in Ids : copy[j].at <= upserts'
    BY <1>1, <1>2, <1>n
  <2>. QED
    BY <1>c, <2>1, <2>2, Zenon
<1>6. ASSUME orderly' PROVE Ordered(configs')
  <2>1. orderly /\ \A j \in Ids : configs[j].version < v
    BY <1>1, <1>6 DEF InOrder
  <2>2. \A j, k \in Ids : configs[j].at > configs[k].at <=> configs[j].version > configs[k].version
    BY <2>1 DEF SelectionInv, ConfigsInv, Ordered, Copies
  <2>3. ASSUME NEW j \in Ids, NEW k \in Ids
        PROVE  configs'[j].at > configs'[k].at <=> configs'[j].version > configs'[k].version
    <3>1. CASE j # i /\ k # i
      BY <1>3, <2>2, <3>1
    <3>2. CASE j = i /\ k = i
      BY <1>2, <1>3, <1>4, <3>2
    <3>3. CASE j = i /\ k # i
      BY <1>2, <1>3, <1>4, <1>t, <2>1, <3>3
    <3>4. CASE j # i /\ k = i
      BY <1>2, <1>3, <1>4, <1>t, <2>1, <3>4
    <3>. QED
      BY <3>1, <3>2, <3>3, <3>4
  <2>. QED
    BY <2>3 DEF Ordered
<1>7. ASSUME orderly', NEW at \in Nat, at <= upserts, Kept(at) PROVE Kept(at)'
  <2>1. CASE at = 0 \/ at \in lost
    BY <1>1, <2>1 DEF Kept
  <2>2. CASE at # 0 /\ at \notin lost
    <3>1. PICK j \in Ids : Covers(j, at)
      BY <1>7, <2>2 DEF Kept
    <3>2. at \in 1 .. upserts
      BY <1>2, <1>7, <2>2
    <3>3. configs[j].target = "device" /\ at <= configs[j].at
      BY <2>2, <3>1, <3>2 DEF Covers, Copies, SelectionInv, ConfigsInv
    <3>4. configs'[j].target = "device" /\ at <= configs'[j].at
      <4>1. CASE j # i
        BY <1>3, <3>3, <4>1
      <4>2. CASE j = i
        <5>1. target = "device"
          BY <1>1, <1>7, <3>3, <4>2 DEF InOrder
        <5>. QED
          BY <1>2, <1>3, <1>4, <1>7, <4>2, <5>1
      <4>. QED
        BY <4>1, <4>2
    <3>5. ASSUME NEW copy \in Copies', \E k \in Ids : at <= copy[k].at
          PROVE  copy[j].target = "device" /\ at <= copy[j].at
      BY <1>c, <3>1, <3>4, <3>5 DEF Covers
    <3>. QED
      BY <3>5 DEF Kept, Covers
  <2>. QED
    BY <2>1, <2>2
<1>8. effective.at \in Nat /\ answer.at \in Nat
  BY TimesAreNumbers
<1>9. ForwardInv'
  <2>1. effective.at <= upserts' /\ answer.at <= upserts'
    BY <1>1, <1>2, <1>8 DEF SelectionInv, ForwardInv
  <2>. QED
    BY <1>1, <1>7, <1>8, <2>1 DEF SelectionInv, ForwardInv
<1>10. ASSUME NEW copy \in Copies', NEW j \in Ids, NEW k \in Ids, configs'[j].at <= copy[k].at
       PROVE  copy[j] = configs'[j]
  <2>1. CASE copy = configs'
    BY <2>1
  <2>2. CASE copy \in Copies
    <3>1. copy[k].at <= upserts /\ copy[k].at \in Nat
      BY <1>n, <2>2
    <3>2. j # i
      BY <1>2, <1>3, <1>4, <1>10, <3>1
    <3>. QED
      BY <1>3, <1>10, <2>2, <3>2 DEF SelectionInv, ConfigsInv
  <2>. QED
    BY <1>c, <2>1, <2>2
<1>11. ASSUME NEW at \in 1 .. upserts' PROVE at \in lost' \/ \E k \in Ids : at <= configs'[k].at
  BY <1>1, <1>2, <1>3, <1>4
<1>12. ConfigsInv'
  <2>1. orderly' \in BOOLEAN /\ upserts' \in Nat
    BY <1>1, <1>2
  <2>2. Copies' \subseteq [Ids -> Bundles \cup {NoBundle}]
    BY <1>3, <1>c DEF SelectionInv, ConfigsInv
  <2>3. orderly' => \A copy \in Copies' : Ordered(copy)
    BY <1>1, <1>6, <1>c DEF SelectionInv, ConfigsInv
  <2>. QED
    BY <1>5, <1>10, <1>11, <2>1, <2>2, <2>3 DEF ConfigsInv
<1>. QED
  BY <1>9, <1>12 DEF SelectionInv

\* A step that only drops copies, or makes one of memory, disturbs nothing.
LEMMA CopiesShrink ==
  ASSUME SelectionInv, Copies' \subseteq Copies, configs' = configs,
         UNCHANGED <<upserts, lost, orderly, effective, answer>>
  PROVE  SelectionInv'
<1>1. ConfigsInv'
  BY DEF SelectionInv, ConfigsInv
<1>2. \A j \in Ids : \A at \in Nat : Covers(j, at) => Covers(j, at)'
  BY DEF Covers
<1>3. ForwardInv'
  BY <1>2, TimesAreNumbers DEF SelectionInv, ForwardInv, Kept
<1>. QED
  BY <1>1, <1>3 DEF SelectionInv

\* Memory is read again from the store file: what the file lacks is lost.
LEMMA RestartStep == ASSUME SelectionInv, ServerRestarts PROVE SelectionInv'
<1>1. /\ configs' = stored /\ Copies' = {stored} /\ UNCHANGED <<upserts, orderly, effective>>
      /\ lost' = lost \cup {at \in 1 .. upserts : \A i \in Ids : stored[i].at < at}
      /\ answer' \in {answer, NoBundle}
  BY DEF ServerRestarts, RoundOver, round, applied, Copies
<1>2. stored \in Copies
  BY DEF Copies
<1>n. /\ effective.at \in Nat /\ answer.at \in Nat /\ upserts \in Nat
      /\ \A i \in Ids : stored[i].at \in Nat
  BY <1>2, TimesAreNumbers
<1>3. ASSUME NEW at \in 1 .. upserts PROVE at \in lost' \/ \E i \in Ids : at <= configs'[i].at
  BY <1>1, <1>n
<1>4. ConfigsInv'
  BY <1>1, <1>2, <1>3 DEF SelectionInv, ConfigsInv
<1>5. ASSUME NEW at \in Nat, Kept(at) PROVE Kept(at)'
  <2>1. \A j \in Ids : Covers(j, at) => Covers(j, at)'
    BY <1>1, <1>2 DEF Covers
  <2>. QED
    BY <1>1, <1>5, <2>1 DEF Kept
<1>6. NoBundle.at = 0 /\ Kept(0)'
  BY DEF NoBundle, Kept
<1>7. ForwardInv'
  BY <1>1, <1>5, <1>6, <1>n DEF SelectionInv, ForwardInv
<1>. QED
  BY <1>4, <1>7 DEF SelectionInv

LEMMA AnswerStep == ASSUME SelectionInv, Answer PROVE SelectionInv'
<1>. DEFINE sel == selectConfig(configs)
<1>1. answer' = sel /\ UNCHANGED <<configs, saving, stored, upserts, lost, orderly, effective>>
  BY DEF Answer, server, store, applied
<1>2. configs \in Copies /\ configs \in [Ids -> Bundles \cup {NoBundle}]
  BY DEF SelectionInv, ConfigsInv, Copies
<1>3. /\ sel = NoBundle \/ \E j \in Ids : configs[j].target = "device" /\ sel = configs[j]
      /\ Ordered(configs) => \A j \in Ids : configs[j].target = "device" => configs[j].at <= sel.at
  BY <1>2, SelectionFacts
<1>. HIDE DEF sel
<1>4. sel \in Bundles \cup {NoBundle}
  BY <1>2, <1>3
<1>n. /\ effective.at \in Nat /\ upserts \in Nat
      /\ \A copy \in Copies : \A j \in Ids : copy[j].at \in Nat
  BY TimesAreNumbers
<1>t. /\ sel.at \in Nat /\ sel.at <= upserts
      /\ \A j \in Ids : configs[j].at \in Nat
  BY <1>2, <1>3, <1>n DEF SelectionInv, ConfigsInv, NoBundle
<1>5. Kept(sel.at)
  <2>1. CASE sel = NoBundle
    BY <2>1 DEF Kept, NoBundle
  <2>2. ASSUME NEW j \in Ids, configs[j].target = "device", sel = configs[j]
        PROVE  Covers(j, sel.at)
    <3>1. ASSUME NEW copy \in Copies, NEW k \in Ids, sel.at <= copy[k].at
          PROVE  copy[j].target = "device" /\ sel.at <= copy[j].at
      <4>1. copy[j] = configs[j]
        BY <2>2, <3>1 DEF SelectionInv, ConfigsInv
      <4>. QED
        BY <1>t, <2>2, <4>1
    <3>. QED
      BY <3>1 DEF Covers
  <2>. QED
    BY <1>3, <2>1, <2>2 DEF Kept
<1>6. ASSUME orderly, effective.at \notin lost PROVE effective.at <= sel.at
  <2>1. Kept(effective.at) /\ Ordered(configs) /\ effective.at <= upserts
    BY <1>2, <1>6 DEF SelectionInv, ForwardInv, ConfigsInv
  <2>2. CASE effective.at = 0
    BY <1>t, <2>2
  <2>3. CASE effective.at # 0
    <3>1. PICK j \in Ids : Covers(j, effective.at)
      BY <1>6, <2>1, <2>3 DEF Kept
    <3>2. \E k \in Ids : effective.at <= configs[k].at
      BY <1>6, <1>n, <2>1, <2>3 DEF SelectionInv, ConfigsInv
    <3>3. configs[j].target = "device" /\ effective.at <= configs[j].at
      BY <1>2, <3>1, <3>2 DEF Covers
    <3>4. configs[j].at <= sel.at
      BY <1>3, <2>1, <3>3
    <3>. QED
      BY <1>n, <1>t, <3>3, <3>4
  <2>. QED
    BY <2>2, <2>3
<1>c. Copies' = Copies
  BY <1>1 DEF Copies
<1>7. ConfigsInv'
  BY <1>1, <1>c DEF SelectionInv, ConfigsInv
<1>8. \A at \in Nat : Kept(at) => Kept(at)'
  BY <1>1, <1>c DEF Kept, Covers
<1>9. ForwardInv'
  BY <1>1, <1>4, <1>5, <1>6, <1>8, <1>n, <1>t DEF SelectionInv, ForwardInv
<1>. QED
  BY <1>7, <1>9 DEF SelectionInv

LEMMA SelectionStep == SelectionInv /\ [Next]_vars => SelectionInv'
<1>. SUFFICES ASSUME SelectionInv, [Next]_vars PROVE SelectionInv'
  OBVIOUS
<1>n. NoBundle.at = 0 /\ effective.at \in Nat /\ answer.at \in Nat /\ upserts \in Nat
  BY TimesAreNumbers DEF NoBundle
<1>s. ASSUME UNCHANGED <<store, orderly>>
      PROVE  ConfigsInv' /\ \A at \in Nat : Kept(at) => Kept(at)'
  <2>1. Copies' = Copies /\ UNCHANGED <<configs, upserts, lost, orderly>>
    BY <1>s DEF store, Copies
  <2>. QED
    BY <2>1 DEF SelectionInv, ConfigsInv, Kept, Covers
<1>1. ASSUME UNCHANGED <<store, orderly>>, answer' \in {answer, NoBundle},
             effective' \in {effective, NoBundle} \/ (effective' \in Bundles /\ effective'.at = 0)
      PROVE  SelectionInv'
  <2>1. ConfigsInv' /\ (\A at \in Nat : Kept(at) => Kept(at)') /\ Kept(0)'
        /\ UNCHANGED <<upserts, lost, orderly>>
    BY <1>1, <1>s DEF Kept, store
  <2>3. /\ effective' \in Bundles \cup {NoBundle} /\ answer' \in Bundles \cup {NoBundle}
        /\ effective'.at \in {0, effective.at} /\ answer'.at \in {0, answer.at}
        /\ answer' # NoBundle => answer' = answer
    BY <1>1, <1>n DEF SelectionInv, ForwardInv
  <2>4. ForwardInv'
    BY <1>n, <2>1, <2>3 DEF SelectionInv, ForwardInv
  <2>. QED
    BY <2>1, <2>4 DEF SelectionInv
<1>2. CASE Apply
  <2>1. /\ answer # NoBundle /\ effective' = answer /\ answer' \in {answer, NoBundle}
        /\ UNCHANGED <<store, orderly>>
    BY <1>2 DEF Apply, Verified, AfterApply, RoundOver, server
  <2>2. ConfigsInv' /\ (\A at \in Nat : Kept(at) => Kept(at)') /\ Kept(0)'
        /\ UNCHANGED <<upserts, lost, orderly>>
    BY <2>1, <1>s DEF Kept, store
  <2>4. ForwardInv'
    BY <1>n, <2>1, <2>2 DEF SelectionInv, ForwardInv
  <2>. QED
    BY <2>2, <2>4 DEF SelectionInv
<1>3. ASSUME NEW v \in Versions, LocalApply(v) PROVE SelectionInv'
  <2>1. effective' = [version |-> v, target |-> "device", at |-> 0]
        /\ UNCHANGED <<store, orderly, answer>>
    BY <1>3 DEF LocalApply, server, round
  <2>2. effective' \in Bundles /\ effective'.at = 0
    BY <2>1, DeliveryAssumption DEF Bundles
  <2>. QED
    BY <1>1, <2>1, <2>2
<1>4. CASE AgentRestarts
  BY <1>1, <1>4 DEF AgentRestarts, RoundOver, server, round, applied
<1>5. CASE WatchTimesOut \/ RequestFails \/ VerifyFails \/ CacheFails \/ SaveKey \/ SaveKeyFails
           \/ NothingToApply
  BY <1>1, <1>5 DEF WatchTimesOut, RequestFails, VerifyFails, CacheFails, SaveKey, SaveKeyFails,
     NothingToApply, AfterApply, RoundOver, server, applied
<1>6. CASE FetchKey \/ UseCachedKey \/ StartRound \/ SignConfigs \/ UNCHANGED vars
  BY <1>1, <1>6 DEF FetchKey, UseCachedKey, StartRound, SignConfigs, server, applied, round, vars
<1>7. ASSUME NEW r \in Rotators, RotatePersist(r) \/ RotatePublish(r) PROVE SelectionInv'
  BY <1>1, <1>7 DEF RotatePersist, RotatePublish, round, applied
<1>8. CASE ReadConfigs \/ WatchConfig
  BY <1>8, AnswerStep DEF ReadConfigs, WatchConfig
<1>9. CASE SnapshotStore
  BY <1>9, CopiesShrink DEF SnapshotStore, Copies, round, applied
<1>10. ASSUME NEW snapshot \in saving, RenameStore(snapshot) PROVE SelectionInv'
  BY <1>10, CopiesShrink DEF RenameStore, Copies, round, applied
<1>. QED
  BY <1>2, <1>3, <1>4, <1>5, <1>6, <1>7, <1>8, <1>9, <1>10, UpsertStep, RestartStep
     DEF Next, Control, Progress, Faults

LEMMA AlwaysSelectionInv == Spec => []SelectionInv
<1>1. Init => SelectionInv
  <2>. SUFFICES ASSUME Init PROVE SelectionInv
    OBVIOUS
  <2>1. Copies = {configs} /\ \A i \in Ids : configs[i] = NoBundle
    BY DEF Init, Copies
  <2>2. NoBundle.at = 0 /\ NoBundle.version = 0
    BY DEF NoBundle
  <2>3. ConfigsInv
    BY <2>1, <2>2 DEF Init, ConfigsInv, Ordered
  <2>4. ForwardInv
    BY <2>2 DEF Init, ForwardInv, Kept
  <2>. QED
    BY <2>3, <2>4 DEF SelectionInv
<1>. QED
  BY <1>1, SelectionStep, PTL DEF Spec

\* For any number of bundles, in whatever order the identifiers come, the selection loop
\* ends with the bundle that was upserted last, if versions have only grown
\* (selectConfig, selectTargetConfig; UpsertConfig sets CreatedAt under the lock).
THEOREM LoopSelectsNewest == Spec => []NewestSelected
<1>1. SelectionInv => NewestSelected
  BY SelectionFacts DEF SelectionInv, ConfigsInv, Copies, NewestSelected, Newest
<1>. QED
  BY <1>1, AlwaysSelectionInv, PTL

\* For any faults, restarts, saves, rotations and locally applied bundles, and however late
\* an answer comes, the agent never replaces a bundle by one upserted before it, as long as
\* versions have only grown, unless a restart took the bundle from the control plane
\* (syncConfig, selectVerifiedConfig, ApplyConfig; FileRepository saves after the fact).
THEOREM AgentNeverGoesBack == Spec => NeverBackwards
<1>1. ASSUME SelectionInv, Next, orderly', effective # NoBundle, effective'.at # 0,
             effective.at \notin lost
      PROVE  effective'.at >= effective.at
  <2>1. CASE Apply
    <3>1. answer # NoBundle /\ effective' = answer /\ orderly
      BY <1>1, <2>1 DEF Apply, Verified
    <3>2. effective.at <= answer.at /\ effective.at \in Nat /\ answer.at \in Nat
      BY <1>1, <3>1 DEF SelectionInv, ForwardInv, Bundles, NoBundle
    <3>. QED
      BY <3>1, <3>2
  <2>2. CASE AgentRestarts
    BY <1>1, <2>2 DEF AgentRestarts, NoBundle
  <2>3. ASSUME NEW v \in Versions, LocalApply(v) PROVE FALSE
    BY <1>1, <2>3 DEF LocalApply
  <2>4. CASE UNCHANGED effective
    BY <1>1, <2>4 DEF SelectionInv, ForwardInv, Bundles, NoBundle
  <2>5. UNCHANGED effective \/ Apply \/ AgentRestarts \/ \E v \in Versions : LocalApply(v)
    BY <1>1 DEF Next, Control, Progress, Faults, applied, UpsertConfig, SnapshotStore, RenameStore, RotatePersist,
           RotatePublish, FetchKey, StartRound, ReadConfigs, WatchConfig, Answer, WatchTimesOut,
           SignConfigs, VerifyFails, NothingToApply, SaveKey, UseCachedKey, RequestFails,
           CacheFails, SaveKeyFails, ServerRestarts
  <2>. QED
    BY <2>1, <2>2, <2>3, <2>4, <2>5
<1>2. SelectionInv /\ [Next]_vars =>
          [orderly' /\ effective # NoBundle /\ effective'.at # 0 /\ effective.at \notin lost
               => effective'.at >= effective.at]_vars
  BY <1>1
<1>. QED
  BY <1>2, AlwaysSelectionInv, PTL DEF Spec, NeverBackwards

-----------------------------------------------------------------------------
(***************************************************************************)
(* Types.  The bundles come from SelectionInv; a key that was fetched in   *)
(* this round is a key, so what SaveKey writes is one.                     *)
(***************************************************************************)

ServerTyped ==
    /\ upserts \in 0 .. MaxUpserts /\ lost \subseteq 1 .. MaxUpserts
    /\ crossed \in BOOLEAN
    /\ signer \in Keys /\ signerFile \in Keys /\ made \in Keys
    /\ rotating \in [Rotators -> Keys \cup {NoKey}]

RoundTyped ==
    /\ mode \in Modes /\ pin \in Pins
    /\ pc \in {"idle", "fetch", "sign", "apply", "savekey"}
    /\ since \in Versions \cup {0}
    /\ key \in Keys \cup {NoKey} /\ answerKey \in Keys \cup {NoKey}
    /\ fetched \in BOOLEAN
    /\ fetched \/ pc = "savekey" => key \in Keys

AgentTyped ==
    /\ version \in Versions \cup {0}
    /\ appliedKey \in Keys \cup {NoKey}
    /\ cache \in Bundles \cup {NoBundle}
    /\ keyCache \in Keys \cup {NoKey}
    /\ local \in 0 .. MaxLocal /\ faults \in 0 .. MaxFaults

\* A bundle's version is one an agent can report.
LEMMA VersionOf == ASSUME NEW b \in Bundles \cup {NoBundle} PROVE b.version \in Versions \cup {0}
BY DEF Bundles, NoBundle

LEMMA ServerTypedStep == ASSUME ServerTyped, [Next]_vars PROVE ServerTyped'
<1>1. CASE UNCHANGED server
  BY <1>1 DEF server, store, signing, ServerTyped
<1>2. ASSUME NEW i \in Ids, NEW v \in Versions, NEW target \in {"device", "other"},
             UpsertConfig(i, v, target)
      PROVE  ServerTyped'
  BY <1>2, DeliveryAssumption DEF UpsertConfig, signing, ServerTyped
<1>3. ASSUME NEW r \in Rotators, RotatePersist(r) PROVE ServerTyped'
  <2>1. /\ made' = made + 1 /\ signerFile' = made + 1 /\ UNCHANGED <<upserts, lost, signer>>
        /\ rotating' = [rotating EXCEPT ![r] = made + 1] /\ made + 1 \in Keys
        /\ crossed' \in BOOLEAN
    BY <1>3, NextKey DEF RotatePersist, OthersRotating, store, ServerTyped
  <2>. QED
    BY <2>1 DEF ServerTyped
<1>4. ASSUME NEW r \in Rotators, RotatePublish(r) PROVE ServerTyped'
  BY <1>4 DEF RotatePublish, store, ServerTyped
<1>5. CASE ServerRestarts
  <2>1. /\ UNCHANGED <<upserts, signerFile, made>> /\ crossed' = FALSE /\ signer' = signerFile
        /\ lost' = lost \cup {at \in 1 .. upserts : \A i \in Ids : stored[i].at < at}
        /\ rotating' = [r \in Rotators |-> NoKey]
    BY <1>5 DEF ServerRestarts
  <2>2. lost' \subseteq 1 .. MaxUpserts
    <3>. DEFINE gone == {at \in 1 .. upserts : \A i \in Ids : stored[i].at < at}
    <3>1. gone \subseteq 1 .. upserts
      OBVIOUS
    <3>. HIDE DEF gone
    <3>2. 1 .. upserts \subseteq 1 .. MaxUpserts /\ lost \subseteq 1 .. MaxUpserts
      BY DeliveryAssumption DEF ServerTyped
    <3>. QED
      BY <2>1, <3>1, <3>2 DEF gone
  <2>. QED
    BY <2>1, <2>2 DEF ServerTyped
<1>s. CASE UNCHANGED <<upserts, lost, signing>>
  BY <1>s DEF signing, ServerTyped
<1>6. \/ UNCHANGED server \/ ServerRestarts \/ UNCHANGED <<upserts, lost, signing>>
      \/ \E r \in Rotators : RotatePersist(r) \/ RotatePublish(r)
      \/ \E i \in Ids, v \in Versions, target \in {"device", "other"} : UpsertConfig(i, v, target)
  BY DEF Next, Control, Progress, Faults, vars, SnapshotStore, RenameStore, FetchKey,
         StartRound, ReadConfigs, WatchConfig, Answer, WatchTimesOut, SignConfigs, VerifyFails, Apply, NothingToApply, SaveKey,
         UseCachedKey, RequestFails, CacheFails, SaveKeyFails, AgentRestarts, LocalApply
<1>. QED
  BY <1>1, <1>2, <1>3, <1>4, <1>5, <1>6, <1>s

LEMMA RoundTypedStep ==
  ASSUME ServerTyped, RoundTyped, AgentTyped, [Next]_vars
  PROVE  RoundTyped'
<1>m. mode' = mode /\ pin' = pin
  BY DEF agent, Next, Control, Progress, Faults, vars, UpsertConfig, SnapshotStore, RenameStore, RotatePersist, RotatePublish,
         FetchKey, StartRound, ReadConfigs, WatchConfig, Answer, WatchTimesOut, SignConfigs,
         VerifyFails, Apply, NothingToApply, SaveKey, UseCachedKey, RequestFails, CacheFails,
         SaveKeyFails, AgentRestarts, ServerRestarts, LocalApply
<1>1. CASE UNCHANGED round
  BY <1>1, <1>m DEF round, RoundTyped
<1>2. CASE RoundOver
  BY <1>2, <1>m DEF RoundOver, RoundTyped
<1>3. CASE FetchKey
  BY <1>3, <1>m DEF FetchKey, RoundTyped, ServerTyped
<1>4. CASE UseCachedKey
  BY <1>4, <1>m DEF UseCachedKey, RoundTyped, AgentTyped
<1>5. CASE StartRound
  BY <1>5, <1>m DEF StartRound, RoundTyped, AgentTyped
<1>6. CASE Answer
  BY <1>6, <1>m DEF Answer, RoundTyped
<1>7. CASE SignConfigs
  BY <1>7, <1>m DEF SignConfigs, RoundTyped, ServerTyped
<1>8. CASE AfterApply
  BY <1>2, <1>8, <1>m DEF AfterApply, RoundTyped
<1>9. \/ UNCHANGED round \/ RoundOver \/ FetchKey \/ UseCachedKey \/ StartRound \/ Answer
      \/ SignConfigs \/ AfterApply
  BY DEF Next, Control, Progress, Faults, vars, UpsertConfig, SnapshotStore, RenameStore, RotatePersist, RotatePublish,
         ReadConfigs, WatchConfig, WatchTimesOut, VerifyFails, Apply, NothingToApply, SaveKey,
         RequestFails, CacheFails, SaveKeyFails, AgentRestarts, ServerRestarts, LocalApply
<1>. QED
  BY <1>1, <1>2, <1>3, <1>4, <1>5, <1>6, <1>7, <1>8, <1>9

LEMMA AgentTypedStep ==
  ASSUME SelectionInv, RoundTyped, AgentTyped, [Next]_vars
  PROVE  AgentTyped'
<1>f. ASSUME Fault PROVE faults' \in 0 .. MaxFaults
  BY <1>f, DeliveryAssumption DEF Fault, AgentTyped
<1>1. CASE UNCHANGED <<applied, keyCache, local, faults>>
  BY <1>1 DEF applied, AgentTyped
<1>2. CASE Fault /\ UNCHANGED <<applied, keyCache, local>>
  BY <1>2, <1>f DEF applied, AgentTyped
<1>3. CASE Apply
  <2>1. answer \in Bundles \cup {NoBundle} /\ answer.version \in Versions \cup {0}
    BY VersionOf DEF SelectionInv, ForwardInv
  <2>2. /\ cache' = answer /\ version' = answer.version /\ appliedKey' = answerKey
        /\ UNCHANGED <<keyCache, local, faults>>
    BY <1>3 DEF Apply
  <2>. QED
    BY <2>1, <2>2 DEF RoundTyped, AgentTyped
<1>4. CASE SaveKey
  BY <1>4 DEF SaveKey, RoundTyped, AgentTyped, applied
<1>5. CASE AgentRestarts
  <2>1. version' \in Versions \cup {0} /\ faults' \in 0 .. MaxFaults
    BY <1>5, <1>f, VersionOf DEF AgentRestarts, AgentTyped
  <2>. QED
    BY <1>5, <2>1 DEF AgentRestarts, AgentTyped
<1>6. ASSUME NEW v \in Versions, LocalApply(v) PROVE AgentTyped'
  <2>1. [version |-> v, target |-> "device", at |-> 0] \in Bundles
    BY DeliveryAssumption DEF Bundles
  <2>2. local' \in 0 .. MaxLocal
    BY <1>6, DeliveryAssumption DEF LocalApply, AgentTyped
  <2>. QED
    BY <1>6, <2>1, <2>2 DEF LocalApply, AgentTyped
<1>7. \/ UNCHANGED <<applied, keyCache, local, faults>>
      \/ Fault /\ UNCHANGED <<applied, keyCache, local>>
      \/ Apply \/ SaveKey \/ AgentRestarts \/ \E v \in Versions : LocalApply(v)
  BY DEF Next, Control, Progress, Faults, vars, UpsertConfig, SnapshotStore, RenameStore, RotatePersist, RotatePublish,
         FetchKey, StartRound, ReadConfigs, WatchConfig, Answer, WatchTimesOut, SignConfigs,
         VerifyFails, NothingToApply, UseCachedKey, RequestFails, CacheFails, SaveKeyFails,
         ServerRestarts
<1>. QED
  BY <1>1, <1>2, <1>3, <1>4, <1>5, <1>6, <1>7

\* Through every fault, rotation and locally applied bundle, the agent holds bundles that
\* the control plane or its own API made, reports a version of theirs, and writes a key
\* to its key cache only if it fetched one (syncConfig, SaveConfigSigningKey).
THEOREM DeliveryTypes == Spec => []TypeOK
<1>. DEFINE Typed == ServerTyped /\ RoundTyped /\ AgentTyped
<1>1. Init => Typed
  <2>. SUFFICES ASSUME Init PROVE Typed
    OBVIOUS
  <2>1. 0 \in Keys
    BY DeliveryAssumption DEF Keys
  <2>2. ServerTyped
    <3>1. upserts \in 0 .. MaxUpserts /\ lost \subseteq 1 .. MaxUpserts
      BY DeliveryAssumption DEF Init
    <3>2. crossed \in BOOLEAN
      BY DEF Init
    <3>3. /\ signer \in Keys /\ signerFile \in Keys /\ made \in Keys
          /\ rotating \in [Rotators -> Keys \cup {NoKey}]
      BY <2>1 DEF Init
    <3>. QED
      BY <3>1, <3>2, <3>3 DEF ServerTyped
  <2>3. RoundTyped
    BY <2>1 DEF Init, RoundTyped
  <2>4. AgentTyped
    BY <2>1, DeliveryAssumption DEF Init, AgentTyped
  <2>. QED
    BY <2>2, <2>3, <2>4
<1>2. SelectionInv /\ Typed /\ [Next]_vars => Typed'
  BY ServerTypedStep, RoundTypedStep, AgentTypedStep
<1>3. SelectionInv /\ Typed => TypeOK
  BY DEF SelectionInv, ConfigsInv, Copies, ForwardInv, ServerTyped, RoundTyped, AgentTyped, TypeOK
<1>. HIDE DEF Typed
<1>. QED
  BY <1>1, <1>2, <1>3, AlwaysSelectionInv, PTL DEF Spec

=============================================================================
