--------------------------- MODULE CertLifecycle ---------------------------
(***************************************************************************)
(* The certificates of one tenant: cert.Authority, the handlers of the     *)
(* control server that issue, revoke and rotate (handleCertificates,       *)
(* handleCertificateRevocations, handleCertificateRotations), the          *)
(* publisher of the revocation list (FileRevocationListPublisher) and an   *)
(* agent that keeps the list it fetches (SyncCRLOnce).                     *)
(*                                                                         *)
(* Each handler takes the locks of the authority one call at a time, so    *)
(* handlers interleave between calls, and between the two files a          *)
(* publication writes.  Authority.issued is kept in memory only.  Requests *)
(* that are refused before they change anything are not modelled, nor are  *)
(* serials of other tenants, which are refused as well.                    *)
(***************************************************************************)
EXTENDS Naturals, FiniteSets

CONSTANTS Serials,       \* the random serial numbers
          Handlers,      \* requests served at the same time
          MaxRequests,   \* bound: requests
          FaultKinds,    \* what may fail: "issue", "publish", "audit"
          MaxFaults,     \* bound: faults
          MaxCrashes,    \* bound: restarts of the control plane
          None           \* no serial

ASSUME CertAssumption ==
    /\ None \notin Serials
    /\ FaultKinds \subseteq {"issue", "publish", "audit"}
    /\ MaxRequests \in Nat /\ MaxFaults \in Nat /\ MaxCrashes \in Nat

\* No list: none made, none published yet, or a file cut off while being written.
NoList == [id |-> 0, revoked |-> {}, life |-> 0]

\* No manifest, or one cut off.
NoManifest == 0

VARIABLES status,     \* Authority.issued: what the authority knows of a serial
          root,       \* history: the certificate a serial descends from by rotation
          pc,         \* where a handler is
          target,     \* the serial of the request, and then
          fresh,      \* ... the serial issued for it
          list,       \* the revocation list the handler is publishing
          crowded,    \* history: another request was under way since the last one began
          overlap,    \* history: requests have overlapped since the last publication by a
                      \* request that none overlapped
          pem,        \* the published list
          manifest,   \* the published manifest: the list it names, by its hash
          audit,      \* audited operations
          answered,   \* history: serials whose revocation or rotation this authority answered
          cache,      \* the agent's FileCRLCache
          fetched,    \* the list the agent has fetched and not saved yet
          made,       \* lists made so far
          requests,   \* requests so far
          faults,     \* faults so far
          lives       \* restarts so far

authority == <<status, root>>
handlers == <<pc, target, fresh, list, crowded, overlap>>
files == <<pem, manifest>>
agent == <<cache, fetched>>
counters == <<made, requests, faults, lives>>
vars == <<authority, handlers, files, audit, answered, agent, counters>>

Lists == [id : Nat, revoked : SUBSET Serials, life : Nat]

PcValues == {"idle", "revoke", "rotate", "issue", "list", "pem", "manifest", "audit"}

Revoked == {s \in Serials : status[s] = "revoked"}

\* Mutant of RevocationListByTenant: certificates that were rotated are left out.
RevocationListWithoutRotated ==
    [id |-> made + 1, life |-> lives,
     revoked |-> {s \in Revoked : \A t \in Serials \ {s} : root[t] # root[s]}]

\* The tenant's list as of now; every list has a hash of its own.
RevocationListByTenant == [id |-> made + 1, revoked |-> Revoked, life |-> lives]

-----------------------------------------------------------------------------

Init ==
    /\ status = [s \in Serials |-> "unknown"]
    /\ root = [s \in Serials |-> None]
    /\ pc = [h \in Handlers |-> "idle"]
    /\ target = [h \in Handlers |-> None]
    /\ fresh = [h \in Handlers |-> None]
    /\ list = [h \in Handlers |-> NoList]
    /\ crowded = FALSE /\ overlap = FALSE
    /\ pem = NoList /\ manifest = NoManifest
    /\ audit = {} /\ answered = {}
    /\ cache = NoList /\ fetched = NoList
    /\ made = 0 /\ requests = 0 /\ faults = 0 /\ lives = 0

Fault(kind) == kind \in FaultKinds /\ faults < MaxFaults /\ faults' = faults + 1

\* Handler h goes on to its next step.
GoTo(h, where) ==
    /\ pc' = [pc EXCEPT ![h] = where]
    /\ crowded' = \/ \E g \in Handlers \ {h} : pc[g] # "idle"
                  \/ crowded /\ pc[h] # "idle"
    /\ overlap' = \/ crowded'
                  \/ overlap /\ <<pc[h], where>> # <<"manifest", "audit">>

\* The handler answers; its locals are gone.
Answer(h) ==
    /\ GoTo(h, "idle")
    /\ target' = [target EXCEPT ![h] = None]
    /\ fresh' = [fresh EXCEPT ![h] = None]
    /\ list' = [list EXCEPT ![h] = NoList]

\* Authority.Issue of a certificate that descends from r (from itself if None).
Issue(h, s, r) ==
    /\ root[s] = None
    /\ status' = [status EXCEPT ![s] = "good"]
    /\ root' = [root EXCEPT ![s] = IF r = None THEN s ELSE r]
    /\ fresh' = [fresh EXCEPT ![h] = s]

\* handleCertificates, POST.
IssueCertificate(h, s) ==
    /\ pc[h] = "idle" /\ requests < MaxRequests
    /\ requests' = requests + 1
    /\ Issue(h, s, None)
    /\ GoTo(h, "audit")
    /\ UNCHANGED <<target, list, files, audit, answered, agent, made, faults, lives>>

\* The two handlers look the record up before they act on it.
Lookup(h, s, what) ==
    /\ pc[h] = "idle" /\ requests < MaxRequests
    /\ requests' = requests + 1
    /\ status[s] # "unknown"
    /\ target' = [target EXCEPT ![h] = s]
    /\ GoTo(h, what)
    /\ UNCHANGED <<authority, fresh, list, files, audit, answered, agent, made, faults, lives>>

\* Authority.Revoke: a revoked certificate may be revoked again.
Revoke(h) ==
    /\ pc[h] = "revoke"
    /\ status' = [status EXCEPT ![target[h]] = "revoked"]
    /\ GoTo(h, "list")
    /\ UNCHANGED <<root, target, fresh, list, files, audit, answered, agent, counters>>

\* Mutant of RotateMark: the check for an earlier revocation is left out.
RotateMarkUnchecked(h) ==
    /\ pc[h] = "rotate"
    /\ status' = [status EXCEPT ![target[h]] = "revoked"]
    /\ GoTo(h, "issue")
    /\ UNCHANGED <<root, target, fresh, list, files, audit, answered, agent, counters>>

\* Authority.Rotate, under the lock.
RotateMark(h) ==
    /\ pc[h] = "rotate"
    /\ status[target[h]] = "good"
    /\ status' = [status EXCEPT ![target[h]] = "revoked"]
    /\ GoTo(h, "issue")
    /\ UNCHANGED <<root, target, fresh, list, files, audit, answered, agent, counters>>

\* Authority.Rotate of a certificate that is already revoked.
RotateRefused(h) ==
    /\ pc[h] = "rotate"
    /\ status[target[h]] = "revoked"
    /\ Answer(h)
    /\ UNCHANGED <<authority, files, audit, answered, agent, counters>>

\* Mutant of RotateIssue: the record read before is written back.
RotateIssueWritesBack(h, s) ==
    /\ pc[h] = "issue"
    /\ root[s] = None
    /\ status' = [status EXCEPT ![s] = "good", ![target[h]] = "good"]
    /\ root' = [root EXCEPT ![s] = root[target[h]]]
    /\ fresh' = [fresh EXCEPT ![h] = s]
    /\ GoTo(h, "list")
    /\ UNCHANGED <<target, list, files, audit, answered, agent, counters>>

\* Authority.Rotate, after the unlock: Issue for the same identity.
RotateIssue(h, s) ==
    /\ pc[h] = "issue"
    /\ Issue(h, s, root[target[h]])
    /\ GoTo(h, "list")
    /\ UNCHANGED <<target, list, files, audit, answered, agent, counters>>

\* Issue fails: the old certificate is revoked and has no successor.
RotateIssueFails(h) ==
    /\ pc[h] = "issue"
    /\ Fault("issue")
    /\ Answer(h)
    /\ UNCHANGED <<authority, files, audit, answered, agent, made, requests, lives>>

\* publishRevocationList: the list is made under the read lock ...
MakeList(h) ==
    /\ pc[h] = "list"
    /\ list' = [list EXCEPT ![h] = RevocationListByTenant]
    /\ made' = made + 1
    /\ GoTo(h, "pem")
    /\ UNCHANGED <<authority, target, fresh, files, audit, answered, agent, requests, faults, lives>>

\* ... and PublishRevocationList writes the two files, under no lock.
WritePem(h) ==
    /\ pc[h] = "pem"
    /\ pem' = list[h]
    /\ GoTo(h, "manifest")
    /\ UNCHANGED <<authority, target, fresh, list, manifest, audit, answered, agent, counters>>

WriteManifest(h) ==
    /\ pc[h] = "manifest"
    /\ manifest' = list[h].id
    /\ GoTo(h, "audit")
    /\ UNCHANGED <<authority, target, fresh, list, pem, audit, answered, agent, counters>>

\* What a write that does not finish may leave in the files.
HalfWritten(h) ==
    \/ pc[h] = "pem" /\ pem' \in {pem, NoList} /\ UNCHANGED manifest
    \/ pc[h] = "manifest" /\ manifest' \in {manifest, NoManifest} /\ UNCHANGED pem

\* A write fails and with it the request: 500, and nothing is audited.
PublishFails(h) ==
    /\ HalfWritten(h)
    /\ Fault("publish")
    /\ Answer(h)
    /\ UNCHANGED <<authority, audit, answered, agent, made, requests, lives>>

\* Mutant of Operation: a rotation is recorded as the revocation of its target.
OperationOfTarget(h) == IF target[h] = None THEN <<"issued", fresh[h]>> ELSE <<"revoked", target[h]>>

\* What the audit event of a handler is about.
Operation(h) == IF fresh[h] # None THEN <<"issued", fresh[h]>> ELSE <<"revoked", target[h]>>

\* recordAuditEvent, then 200 or 201.
Audit(h) ==
    /\ pc[h] = "audit"
    /\ audit' = audit \cup {Operation(h)}
    /\ answered' = IF target[h] = None THEN answered ELSE answered \cup {target[h]}
    /\ Answer(h)
    /\ UNCHANGED <<authority, files, agent, counters>>

\* recordAuditEvent fails: 500.
AuditFails(h) ==
    /\ pc[h] = "audit"
    /\ Fault("audit")
    /\ Answer(h)
    /\ UNCHANGED <<authority, files, audit, answered, agent, made, requests, lives>>

\* SyncCRLOnce: the agent asks the API for a list made for it, and saves it.
AgentFetches ==
    /\ fetched = NoList
    /\ requests < MaxRequests /\ requests' = requests + 1
    /\ fetched' = RevocationListByTenant
    /\ made' = made + 1
    /\ UNCHANGED <<authority, handlers, files, audit, answered, cache, faults, lives>>

AgentSaves ==
    /\ fetched # NoList
    /\ cache' = fetched
    /\ fetched' = NoList
    /\ UNCHANGED <<authority, handlers, files, audit, answered, counters>>

\* The control plane restarts with its CA from --ca-cert and --ca-key: the issued
\* records are gone; a file that was being written may be cut off.
Crash ==
    /\ lives < MaxCrashes
    /\ lives' = lives + 1
    /\ status' = [s \in Serials |-> "unknown"]
    /\ pc' = [h \in Handlers |-> "idle"]
    /\ target' = [h \in Handlers |-> None]
    /\ fresh' = [h \in Handlers |-> None]
    /\ list' = [h \in Handlers |-> NoList]
    /\ \/ UNCHANGED files
       \/ \E h \in Handlers : HalfWritten(h)
    /\ answered' = {}
    /\ UNCHANGED <<root, crowded, overlap, audit, agent, made, requests, faults>>

Next ==
    \/ \E h \in Handlers :
          \/ \E s \in Serials :
                \/ IssueCertificate(h, s)
                \/ Lookup(h, s, "revoke") \/ Lookup(h, s, "rotate")
                \/ RotateIssue(h, s)
          \/ Revoke(h) \/ RotateMark(h) \/ RotateRefused(h) \/ RotateIssueFails(h)
          \/ MakeList(h) \/ WritePem(h) \/ WriteManifest(h) \/ PublishFails(h)
          \/ Audit(h) \/ AuditFails(h)
    \/ AgentFetches \/ AgentSaves
    \/ Crash

Spec == Init /\ [][Next]_vars

-----------------------------------------------------------------------------
(***************************************************************************)
(* Properties.                                                             *)
(***************************************************************************)

\* Every variable has its type.
TypeOK ==
    /\ status \in [Serials -> {"unknown", "good", "revoked"}]
    /\ root \in [Serials -> Serials \cup {None}]
    /\ pc \in [Handlers -> PcValues]
    /\ target \in [Handlers -> Serials \cup {None}]
    /\ \A h \in Handlers : pc[h] \in {"revoke", "rotate", "issue"} => target[h] \in Serials
    /\ fresh \in [Handlers -> Serials \cup {None}]
    /\ list \in [Handlers -> Lists]
    /\ crowded \in BOOLEAN /\ overlap \in BOOLEAN
    /\ pem \in Lists /\ manifest \in Nat
    /\ audit \subseteq {"issued", "revoked"} \X (Serials \cup {None})
    /\ answered \subseteq Serials
    /\ cache \in Lists /\ fetched \in Lists
    /\ made \in Nat /\ requests \in 0 .. MaxRequests
    /\ faults \in 0 .. MaxFaults /\ lives \in 0 .. MaxCrashes

\* However rotations, revocations and failures interleave, no two certificates of
\* one lineage are good at the same time: rotating twice at once does not leave the
\* device with two successors (Authority.Rotate checks and marks under one lock).
OneGoodPerLineage ==
    \A a, b \in Serials :
        a # b /\ root[a] = root[b] => ~(status[a] = "good" /\ status[b] = "good")

\* The agent's cached list forgets no revocation for a list of the same life of the
\* authority, though it is fetched and saved in two steps.
CacheNeverForgets ==
    [][cache'.life = cache.life => cache.revoked \subseteq cache'.revoked]_vars

AtRest == \A h \in Handlers : pc[h] = "idle"

\* The published list, unless it is cut off, shows every revocation the authority has
\* answered.  Requests that overlap publish in any order, so it may fall behind; the next
\* publication by a request that none overlaps brings it up again, whatever writes failed
\* and wherever the control plane was restarted before (publishRevocationList makes the
\* list after the change and writes it before the answer).
ListCatchesUp == ~overlap /\ pem.id # 0 => answered \subseteq pem.revoked

\* However requests interleave, as long as nothing fails: at rest every certificate
\* issued is in the audit trail, and for every certificate revoked its revocation or
\* its replacement is (the handlers audit after they have published).
EveryChangeAudited ==
    AtRest /\ faults = 0 /\ lives = 0 => \A s \in Serials :
        /\ status[s] = "good" => <<"issued", s>> \in audit
        /\ status[s] = "revoked" =>
              \/ <<"revoked", s>> \in audit
              \/ \E t \in Serials \ {s} : root[t] = root[s] /\ <<"issued", t>> \in audit

=============================================================================
