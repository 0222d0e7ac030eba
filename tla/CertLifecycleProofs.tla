------------------------ MODULE CertLifecycleProofs ------------------------
(***************************************************************************)
(* Theorems about CertLifecycle, for any number of handlers, serials and   *)
(* restarts.                                                               *)
(***************************************************************************)
EXTENDS CertLifecycle, TLAPS

-----------------------------------------------------------------------------
(***************************************************************************)
(* Type correctness.                                                       *)
(***************************************************************************)

LEMMA NoListType == NoList \in Lists
BY DEF NoList, Lists

LEMMA NoManifestType == NoManifest \in Nat
BY DEF NoManifest

LEMMA ListType == TypeOK => RevocationListByTenant \in Lists
BY CertAssumption DEF TypeOK, RevocationListByTenant, Lists, Revoked

LEMMA TypeInit == Init => TypeOK
<1>. SUFFICES ASSUME Init PROVE TypeOK
  OBVIOUS
<1>1. crowded \in BOOLEAN /\ overlap \in BOOLEAN
  BY Zenon DEF Init
<1>. QED
  BY <1>1, CertAssumption, NoListType, NoManifestType DEF Init, TypeOK, PcValues

\* What answering leaves of the handlers' state.
LEMMA AnswerType ==
    ASSUME TypeOK, NEW h \in Handlers, Answer(h)
    PROVE  /\ pc' \in [Handlers -> PcValues]
           /\ target' \in [Handlers -> Serials \cup {None}]
           /\ \A g \in Handlers : pc'[g] \in {"revoke", "rotate", "issue"} => target'[g] \in Serials
           /\ fresh' \in [Handlers -> Serials \cup {None}]
           /\ list' \in [Handlers -> Lists]
           /\ crowded' \in BOOLEAN /\ overlap' \in BOOLEAN
<1>1. crowded' \in BOOLEAN /\ overlap' \in BOOLEAN
  BY Zenon DEF Answer, GoTo, TypeOK
<1>. QED
  BY <1>1, NoListType DEF Answer, GoTo, TypeOK, PcValues

\* A step that answers after a fault and leaves the authority alone.
LEMMA FaultType ==
    ASSUME TypeOK, NEW h \in Handlers, NEW kind, Fault(kind), Answer(h),
           pem' \in Lists, manifest' \in Nat,
           UNCHANGED <<status, root, audit, answered, cache, fetched, made, requests, lives>>
    PROVE  TypeOK'
<1>1. faults' \in 0 .. MaxFaults
  BY CertAssumption DEF Fault, TypeOK
<1>. QED
  BY <1>1, AnswerType DEF TypeOK

\* A step of one handler that stays within the request.
LEMMA HandlerType ==
    ASSUME TypeOK, NEW h \in Handlers, NEW where \in PcValues, GoTo(h, where),
           where \in {"revoke", "rotate", "issue"} => target'[h] \in Serials,
           NEW s \in Serials \cup {None}, target' \in {target, [target EXCEPT ![h] = s]},
           fresh' \in [Handlers -> Serials \cup {None}], list' \in [Handlers -> Lists],
           status' \in [Serials -> {"unknown", "good", "revoked"}],
           root' \in [Serials -> Serials \cup {None}],
           pem' \in Lists, manifest' \in Nat, made' \in Nat, requests' \in 0 .. MaxRequests,
           UNCHANGED <<audit, answered, cache, fetched, faults, lives>>
    PROVE  TypeOK'
<1>1. pc' \in [Handlers -> PcValues] /\ target' \in [Handlers -> Serials \cup {None}]
  BY DEF TypeOK, GoTo
<1>2. \A g \in Handlers : pc'[g] \in {"revoke", "rotate", "issue"} => target'[g] \in Serials
  <2>. SUFFICES ASSUME NEW g \in Handlers, pc'[g] \in {"revoke", "rotate", "issue"}
                PROVE  target'[g] \in Serials
    OBVIOUS
  <2>1. CASE g = h
    BY <2>1 DEF TypeOK, GoTo
  <2>2. CASE g # h
    BY <2>2 DEF TypeOK, GoTo
  <2>. QED
    BY <2>1, <2>2
<1>3. crowded' \in BOOLEAN /\ overlap' \in BOOLEAN
  BY Zenon DEF GoTo, TypeOK
<1>. QED
  BY <1>1, <1>2, <1>3 DEF TypeOK

LEMMA TypeStep == TypeOK /\ [Next]_vars => TypeOK'
<1>. SUFFICES ASSUME TypeOK, [Next]_vars PROVE TypeOK'
  OBVIOUS
<1>. USE DEF authority, files, agent, counters
<1>t. /\ status \in [Serials -> {"unknown", "good", "revoked"}]
      /\ root \in [Serials -> Serials \cup {None}]
      /\ fresh \in [Handlers -> Serials \cup {None}] /\ list \in [Handlers -> Lists]
      /\ pem \in Lists /\ manifest \in Nat /\ made \in Nat /\ requests \in 0 .. MaxRequests
      /\ target \in [Handlers -> Serials \cup {None}]
  BY DEF TypeOK
<1>1. ASSUME NEW h \in Handlers, NEW s \in Serials, IssueCertificate(h, s)
      PROVE  TypeOK'
  <2>1. /\ status' \in [Serials -> {"unknown", "good", "revoked"}]
        /\ root' \in [Serials -> Serials \cup {None}]
        /\ fresh' \in [Handlers -> Serials \cup {None}]
    BY <1>1, <1>t DEF IssueCertificate, Issue
  <2>2. requests' \in 0 .. MaxRequests /\ "audit" \in PcValues
    BY <1>1, <1>t, CertAssumption DEF IssueCertificate, PcValues
  <2>. QED
    BY <1>1, <1>t, <2>1, <2>2, HandlerType DEF IssueCertificate
<1>2. ASSUME NEW h \in Handlers, NEW s \in Serials, NEW what \in {"revoke", "rotate"},
             Lookup(h, s, what)
      PROVE  TypeOK'
  <2>1. requests' \in 0 .. MaxRequests /\ what \in PcValues
    BY <1>2, <1>t, CertAssumption DEF Lookup, PcValues
  <2>2. target'[h] \in Serials /\ target' = [target EXCEPT ![h] = s]
    BY <1>2, <1>t DEF Lookup
  <2>. QED
    BY <1>2, <1>t, <2>1, <2>2, HandlerType DEF Lookup
<1>3. ASSUME NEW h \in Handlers, Revoke(h) \/ RotateMark(h)
      PROVE  TypeOK'
  <2>1. target[h] \in Serials
    BY <1>3 DEF Revoke, RotateMark, TypeOK
  <2>2. status' \in [Serials -> {"unknown", "good", "revoked"}]
    BY <1>3, <1>t, <2>1 DEF Revoke, RotateMark
  <2>3. "list" \in PcValues /\ "issue" \in PcValues
    BY DEF PcValues
  <2>. QED
    BY <1>3, <1>t, <2>1, <2>2, <2>3, HandlerType DEF Revoke, RotateMark
<1>4. ASSUME NEW h \in Handlers, RotateRefused(h)
      PROVE  TypeOK'
  BY <1>4, AnswerType DEF RotateRefused, TypeOK
<1>5. ASSUME NEW h \in Handlers, NEW s \in Serials, RotateIssue(h, s)
      PROVE  TypeOK'
  <2>1. target[h] \in Serials
    BY <1>5 DEF RotateIssue, TypeOK
  <2>2. /\ status' \in [Serials -> {"unknown", "good", "revoked"}]
        /\ root' \in [Serials -> Serials \cup {None}]
        /\ fresh' \in [Handlers -> Serials \cup {None}]
    BY <1>5, <1>t, <2>1 DEF RotateIssue, Issue
  <2>3. "list" \in PcValues
    BY DEF PcValues
  <2>. QED
    BY <1>5, <1>t, <2>2, <2>3, HandlerType DEF RotateIssue
<1>6. ASSUME NEW h \in Handlers, RotateIssueFails(h)
      PROVE  TypeOK'
  BY <1>6, <1>t, FaultType DEF RotateIssueFails
<1>7. ASSUME NEW h \in Handlers, MakeList(h)
      PROVE  TypeOK'
  <2>1. list' \in [Handlers -> Lists] /\ made' \in Nat /\ "pem" \in PcValues
    BY <1>7, <1>t, ListType DEF MakeList, PcValues
  <2>. QED
    BY <1>7, <1>t, <2>1, HandlerType DEF MakeList
<1>8. ASSUME NEW h \in Handlers, WritePem(h) \/ WriteManifest(h)
      PROVE  TypeOK'
  <2>1. list[h] \in Lists /\ list[h].id \in Nat /\ {"manifest", "audit"} \subseteq PcValues
    BY <1>t DEF Lists, PcValues
  <2>2. manifest' \in Nat
    BY <1>8, <1>t, <2>1 DEF WritePem, WriteManifest
  <2>. QED
    BY <1>8, <1>t, <2>1, <2>2, HandlerType DEF WritePem, WriteManifest
<1>9. ASSUME NEW h \in Handlers, PublishFails(h)
      PROVE  TypeOK'
  <2>1. pem' \in Lists /\ manifest' \in Nat
    BY <1>9, <1>t, NoListType, NoManifestType DEF PublishFails, HalfWritten
  <2>. QED
    BY <1>9, <2>1, FaultType DEF PublishFails
<1>10. ASSUME NEW h \in Handlers, Audit(h)
       PROVE  TypeOK'
  <2>1. Operation(h) \in {"issued", "revoked"} \X (Serials \cup {None})
    BY <1>t DEF Operation
  <2>2. audit' \subseteq {"issued", "revoked"} \X (Serials \cup {None})
    BY <1>10, <2>1 DEF Audit, TypeOK
  <2>3. answered' \subseteq Serials
    BY <1>10, <1>t DEF Audit, TypeOK
  <2>. QED
    BY <1>10, <2>2, <2>3, AnswerType DEF Audit, TypeOK
<1>11. ASSUME NEW h \in Handlers, AuditFails(h)
       PROVE  TypeOK'
  BY <1>11, <1>t, FaultType DEF AuditFails
<1>12. CASE AgentFetches
  BY <1>12, ListType, CertAssumption DEF AgentFetches, TypeOK, handlers
<1>13. CASE AgentSaves
  BY <1>13, NoListType DEF AgentSaves, TypeOK, handlers
<1>14. CASE Crash
  <2>1. pem' \in Lists /\ manifest' \in Nat
    BY <1>14, <1>t, NoListType, NoManifestType DEF Crash, HalfWritten
  <2>2. lives' \in 0 .. MaxCrashes
    BY <1>14, CertAssumption DEF Crash, TypeOK
  <2>3. /\ pc' \in [Handlers -> PcValues] /\ \A g \in Handlers : pc'[g] = "idle"
        /\ target' \in [Handlers -> Serials \cup {None}]
        /\ fresh' \in [Handlers -> Serials \cup {None}]
        /\ list' \in [Handlers -> Lists]
        /\ status' \in [Serials -> {"unknown", "good", "revoked"}]
    BY <1>14, NoListType DEF Crash, PcValues
  <2>. QED
    BY <1>14, <2>1, <2>2, <2>3 DEF Crash, TypeOK
<1>15. CASE UNCHANGED vars
  BY <1>15 DEF vars, handlers, TypeOK
<1>. QED
  BY <1>1, <1>2, <1>3, <1>4, <1>5, <1>6, <1>7, <1>8, <1>9, <1>10, <1>11, <1>12, <1>13,
     <1>14, <1>15 DEF Next

\* Every variable of the certificate lifecycle keeps its type.
THEOREM TypeCorrect == Spec => []TypeOK
BY TypeInit, TypeStep, PTL DEF Spec

-----------------------------------------------------------------------------
(***************************************************************************)
(* One good certificate per lineage.  A rotation that has marked the old   *)
(* certificate and not yet issued the new one holds the lineage: nothing   *)
(* in it is good, and no other rotation is at the same point.              *)
(***************************************************************************)

\* An issued certificate has a root, and a root is a certificate that was issued.
RootsIssued ==
    /\ \A s \in Serials : status[s] # "unknown" => root[s] # None
    /\ \A s \in Serials : root[s] # None => root[root[s]] # None
    /\ \A h \in Handlers : pc[h] \in {"revoke", "rotate", "issue"} => root[target[h]] # None

RotationHoldsLineage ==
    \A h \in Handlers : pc[h] = "issue" =>
        /\ \A s \in Serials : root[s] = root[target[h]] => status[s] # "good"
        /\ \A g \in Handlers \ {h} : pc[g] = "issue" => root[target[g]] # root[target[h]]

LineageInv == TypeOK /\ RootsIssued /\ RotationHoldsLineage /\ OneGoodPerLineage

LEMMA LineageInit == Init => LineageInv
<1>. SUFFICES ASSUME Init PROVE LineageInv
  OBVIOUS
<1>1. RootsIssued /\ RotationHoldsLineage /\ OneGoodPerLineage
  BY DEF Init, RootsIssued, RotationHoldsLineage, OneGoodPerLineage
<1>. QED
  BY <1>1, TypeInit DEF LineageInv

\* A step that issues nothing, revokes at most, and starts no lookup.
LEMMA QuietStep ==
    ASSUME LineageInv, root' = root,
           \A s \in Serials : status'[s] \in {status[s], "revoked", "unknown"},
           \A s \in Serials : status[s] = "unknown" => status'[s] = "unknown",
           \A h \in Handlers : \/ pc'[h] = pc[h] /\ target'[h] = target[h]
                               \/ pc'[h] \notin {"revoke", "rotate", "issue"}
    PROVE  RootsIssued' /\ RotationHoldsLineage' /\ OneGoodPerLineage'
<1>1. RootsIssued'
  BY DEF LineageInv, RootsIssued
<1>2. RotationHoldsLineage'
  BY DEF LineageInv, RotationHoldsLineage
<1>3. OneGoodPerLineage'
  BY DEF LineageInv, OneGoodPerLineage
<1>. QED
  BY <1>1, <1>2, <1>3

LEMMA LineageStep == LineageInv /\ [Next]_vars => LineageInv'
<1>. SUFFICES ASSUME LineageInv, [Next]_vars PROVE LineageInv'
  OBVIOUS
<1>0. TypeOK /\ TypeOK'
  BY TypeStep DEF LineageInv
<1>t. /\ status \in [Serials -> {"unknown", "good", "revoked"}]
      /\ root \in [Serials -> Serials \cup {None}]
      /\ pc \in [Handlers -> PcValues]
      /\ target \in [Handlers -> Serials \cup {None}]
      /\ \A h \in Handlers : pc[h] \in {"revoke", "rotate", "issue"} => target[h] \in Serials
  BY <1>0 DEF TypeOK
<1>i. RootsIssued /\ RotationHoldsLineage /\ OneGoodPerLineage
  BY DEF LineageInv
<1>1. ASSUME NEW h \in Handlers, NEW s \in Serials, IssueCertificate(h, s)
      PROVE  LineageInv'
  <2>1. /\ root[s] = None /\ status' = [status EXCEPT ![s] = "good"]
        /\ root' = [root EXCEPT ![s] = s]
        /\ pc' = [pc EXCEPT ![h] = "audit"] /\ target' = target
    BY <1>1 DEF IssueCertificate, Issue, GoTo
  <2>2. \A a \in Serials : a # s => root'[a] = root[a] /\ root[a] # s /\ status'[a] = status[a]
    <3>. SUFFICES ASSUME NEW a \in Serials, a # s
                  PROVE  root'[a] = root[a] /\ root[a] # s /\ status'[a] = status[a]
      OBVIOUS
    <3>1. root'[a] = root[a] /\ status'[a] = status[a]
      BY <1>t, <2>1
    <3>2. ASSUME root[a] = s PROVE FALSE
      <4>1. root[a] # None
        BY <3>2, CertAssumption
      <4>2. root[root[a]] # None
        BY <1>i, <4>1 DEF RootsIssued
      <4>. QED
        BY <2>1, <3>2, <4>2
    <3>. QED
      BY <3>1, <3>2
  <2>3. root'[s] = s /\ status'[s] = "good"
    BY <1>t, <2>1
  <2>4. \A g \in Handlers : pc'[g] \in {"revoke", "rotate", "issue"} =>
            /\ pc[g] = pc'[g] /\ target'[g] = target[g]
            /\ target[g] \in Serials /\ target[g] # s
    BY <1>t, <1>i, <2>1 DEF RootsIssued
  <2>5. RootsIssued'
    BY <1>t, <1>i, <2>2, <2>3, <2>4, CertAssumption DEF RootsIssued
  <2>6. RotationHoldsLineage'
    BY <1>t, <1>i, <2>2, <2>3, <2>4 DEF RotationHoldsLineage
  <2>7. OneGoodPerLineage'
    BY <1>t, <1>i, <2>2, <2>3 DEF OneGoodPerLineage
  <2>. QED
    BY <1>0, <2>5, <2>6, <2>7 DEF LineageInv
<1>2. ASSUME NEW h \in Handlers, NEW s \in Serials, NEW what \in {"revoke", "rotate"},
             Lookup(h, s, what)
      PROVE  LineageInv'
  <2>1. /\ status[s] # "unknown" /\ status' = status /\ root' = root
        /\ pc' = [pc EXCEPT ![h] = what] /\ target' = [target EXCEPT ![h] = s]
    BY <1>2 DEF Lookup, GoTo, authority
  <2>2. RootsIssued'
    BY <1>t, <1>i, <2>1 DEF RootsIssued
  <2>3. RotationHoldsLineage'
    BY <1>t, <1>i, <2>1 DEF RotationHoldsLineage
  <2>4. OneGoodPerLineage'
    BY <1>i, <2>1 DEF OneGoodPerLineage
  <2>. QED
    BY <1>0, <2>2, <2>3, <2>4 DEF LineageInv
<1>3. ASSUME NEW h \in Handlers, RotateMark(h)
      PROVE  LineageInv'
  <2>1. /\ pc[h] = "rotate" /\ status[target[h]] = "good" /\ root' = root
        /\ status' = [status EXCEPT ![target[h]] = "revoked"]
        /\ pc' = [pc EXCEPT ![h] = "issue"] /\ target' = target
    BY <1>3 DEF RotateMark, GoTo
  <2>2. target[h] \in Serials
    BY <1>t, <2>1
  <2>3. RootsIssued'
    BY <1>t, <1>i, <2>1, <2>2 DEF RootsIssued
  <2>4. OneGoodPerLineage'
    BY <1>t, <1>i, <2>1, <2>2 DEF OneGoodPerLineage
  <2>5. \A s \in Serials : root[s] = root[target[h]] => status'[s] # "good"
    BY <1>t, <1>i, <2>1, <2>2 DEF OneGoodPerLineage
  <2>6. \A g \in Handlers \ {h} : pc[g] = "issue" => root[target[g]] # root[target[h]]
    BY <1>t, <1>i, <2>1, <2>2 DEF RotationHoldsLineage
  <2>7. RotationHoldsLineage'
    BY <1>t, <1>i, <2>1, <2>5, <2>6 DEF RotationHoldsLineage
  <2>. QED
    BY <1>0, <2>3, <2>4, <2>7 DEF LineageInv
<1>4. ASSUME NEW h \in Handlers, NEW s \in Serials, RotateIssue(h, s)
      PROVE  LineageInv'
  <2>1. /\ pc[h] = "issue" /\ root[s] = None /\ status' = [status EXCEPT ![s] = "good"]
        /\ root' = [root EXCEPT ![s] = IF root[target[h]] = None THEN s ELSE root[target[h]]]
        /\ pc' = [pc EXCEPT ![h] = "list"] /\ target' = target
    BY <1>4 DEF RotateIssue, Issue, GoTo
  <2>2. /\ target[h] \in Serials /\ root[target[h]] \in Serials /\ target[h] # s
        /\ root[root[target[h]]] # None
    BY <1>t, <1>i, <2>1 DEF RootsIssued
  <2>3. root'[s] = root[target[h]] /\ status'[s] = "good"
    BY <1>t, <2>1, <2>2, CertAssumption
  <2>4. \A a \in Serials : a # s => root'[a] = root[a] /\ root[a] # s /\ status'[a] = status[a]
    <3>. SUFFICES ASSUME NEW a \in Serials, a # s
                  PROVE  root'[a] = root[a] /\ root[a] # s /\ status'[a] = status[a]
      OBVIOUS
    <3>1. root'[a] = root[a] /\ status'[a] = status[a]
      BY <1>t, <2>1
    <3>2. ASSUME root[a] = s PROVE FALSE
      <4>1. root[a] # None
        BY <3>2, CertAssumption
      <4>2. root[root[a]] # None
        BY <1>i, <4>1 DEF RootsIssued
      <4>. QED
        BY <2>1, <3>2, <4>2
    <3>. QED
      BY <3>1, <3>2
  <2>5. \A g \in Handlers : pc'[g] \in {"revoke", "rotate", "issue"} =>
            /\ g # h /\ pc[g] = pc'[g] /\ target'[g] = target[g]
            /\ target[g] \in Serials /\ target[g] # s
    BY <1>t, <1>i, <2>1 DEF RootsIssued
  <2>6. RootsIssued'
    <3>1. \A a \in Serials : status'[a] # "unknown" => root'[a] # None
      BY <1>i, <2>2, <2>3, <2>4, CertAssumption DEF RootsIssued
    <3>2. \A a \in Serials : root'[a] # None => root'[root'[a]] # None
      BY <1>t, <1>i, <2>1, <2>2, <2>3, <2>4, CertAssumption DEF RootsIssued
    <3>3. \A g \in Handlers : pc'[g] \in {"revoke", "rotate", "issue"} => root'[target'[g]] # None
      BY <1>i, <2>4, <2>5 DEF RootsIssued
    <3>. QED
      BY <3>1, <3>2, <3>3 DEF RootsIssued
  <2>7. RotationHoldsLineage'
    BY <1>i, <2>1, <2>3, <2>4, <2>5 DEF RotationHoldsLineage
  <2>8. OneGoodPerLineage'
    BY <1>i, <2>1, <2>3, <2>4 DEF OneGoodPerLineage, RotationHoldsLineage
  <2>. QED
    BY <1>0, <2>6, <2>7, <2>8 DEF LineageInv
<1>5. ASSUME NEW h \in Handlers, Revoke(h)
      PROVE  LineageInv'
  <2>1. /\ root' = root /\ status' = [status EXCEPT ![target[h]] = "revoked"]
        /\ pc[h] = "revoke" /\ pc' = [pc EXCEPT ![h] = "list"] /\ target' = target
    BY <1>5 DEF Revoke, GoTo
  <2>2. target[h] \in Serials /\ root[target[h]] # None
    BY <1>t, <1>i, <2>1 DEF RootsIssued
  <2>3. RootsIssued'
    BY <1>t, <1>i, <2>1, <2>2 DEF RootsIssued
  <2>4. RotationHoldsLineage'
    BY <1>t, <1>i, <2>1, <2>2 DEF RotationHoldsLineage
  <2>5. OneGoodPerLineage'
    BY <1>t, <1>i, <2>1, <2>2 DEF OneGoodPerLineage
  <2>. QED
    BY <1>0, <2>3, <2>4, <2>5 DEF LineageInv
<1>6. ASSUME NEW h \in Handlers,
             \/ RotateRefused(h) \/ RotateIssueFails(h) \/ MakeList(h) \/ WritePem(h)
             \/ WriteManifest(h) \/ PublishFails(h) \/ Audit(h) \/ AuditFails(h)
      PROVE  LineageInv'
  <2>1. /\ root' = root /\ status' = status
        /\ \/ Answer(h)
           \/ target' = target /\ \E where \in {"pem", "manifest", "audit"} : GoTo(h, where)
    BY <1>6 DEF RotateRefused, RotateIssueFails, MakeList, WritePem, WriteManifest,
                PublishFails, Audit, AuditFails, authority
  <2>2. \A g \in Handlers : \/ pc'[g] = pc[g] /\ target'[g] = target[g]
                            \/ pc'[g] \notin {"revoke", "rotate", "issue"}
    BY <1>t, <2>1 DEF Answer, GoTo
  <2>. QED
    BY <1>0, <2>1, <2>2, QuietStep DEF LineageInv
<1>7. CASE AgentFetches \/ AgentSaves
  <2>1. root' = root /\ status' = status /\ pc' = pc /\ target' = target
    BY <1>7 DEF AgentFetches, AgentSaves, authority, handlers
  <2>. QED
    BY <1>0, <2>1, QuietStep DEF LineageInv
<1>8. CASE Crash
  <2>1. /\ root' = root /\ \A s \in Serials : status'[s] = "unknown"
        /\ \A g \in Handlers : pc'[g] = "idle"
    BY <1>8 DEF Crash
  <2>. QED
    BY <1>0, <2>1, QuietStep DEF LineageInv
<1>9. CASE UNCHANGED vars
  <2>1. root' = root /\ status' = status /\ pc' = pc /\ target' = target
    BY <1>9 DEF vars, authority, handlers
  <2>. QED
    BY <1>0, <2>1, QuietStep DEF LineageInv
<1>. QED
  BY <1>1, <1>2, <1>3, <1>4, <1>5, <1>6, <1>7, <1>8, <1>9 DEF Next

\* Concurrent rotations and revocations never leave two good certificates in one
\* lineage, whatever the number of handlers and wherever requests fail.
THEOREM OneGoodCertificate == Spec => []OneGoodPerLineage
<1>1. LineageInv => OneGoodPerLineage
  BY DEF LineageInv
<1>. QED
  BY <1>1, LineageInit, LineageStep, PTL DEF Spec

-----------------------------------------------------------------------------
(***************************************************************************)
(* What a step keeps.  Until the next restart a revoked certificate stays  *)
(* revoked and a certificate keeps its root, whichever handler steps.      *)
(***************************************************************************)

\* The steps of one handler.
HandlerStep(h) ==
    \/ \E s \in Serials :
          \/ IssueCertificate(h, s) \/ RotateIssue(h, s)
          \/ Lookup(h, s, "revoke") \/ Lookup(h, s, "rotate")
    \/ Revoke(h) \/ RotateMark(h) \/ RotateRefused(h) \/ RotateIssueFails(h)
    \/ MakeList(h) \/ WritePem(h) \/ WriteManifest(h) \/ PublishFails(h)
    \/ Audit(h) \/ AuditFails(h)

LEMMA StepCases ==
    [Next]_vars => \/ \E h \in Handlers : HandlerStep(h)
                   \/ AgentFetches \/ AgentSaves \/ Crash \/ UNCHANGED vars
BY DEF Next, HandlerStep

\* A handler leaves the agent, the number of restarts and the other handlers alone.
LEMMA HandlerFrame ==
    ASSUME TypeOK, NEW h \in Handlers, HandlerStep(h)
    PROVE  /\ UNCHANGED <<cache, fetched, lives>>
           /\ \A g \in Handlers \ {h} : /\ pc'[g] = pc[g] /\ target'[g] = target[g]
                                        /\ fresh'[g] = fresh[g] /\ list'[g] = list[g]
<1>. USE DEF authority, files, agent, counters
<1>1. UNCHANGED <<cache, fetched, lives>>
  BY DEF HandlerStep, IssueCertificate, RotateIssue, Lookup, Revoke, RotateMark, RotateRefused,
         RotateIssueFails, MakeList, WritePem, WriteManifest, PublishFails, Audit, AuditFails
<1>2. \E where \in PcValues : GoTo(h, where)
  BY DEF HandlerStep, IssueCertificate, RotateIssue, Lookup, Revoke, RotateMark, RotateRefused,
         RotateIssueFails, MakeList, WritePem, WriteManifest, PublishFails, Audit, AuditFails,
         Answer, PcValues
<1>3. \A g \in Handlers \ {h} : pc'[g] = pc[g]
  BY <1>2 DEF GoTo, TypeOK
<1>4. \A g \in Handlers \ {h} : target'[g] = target[g] /\ fresh'[g] = fresh[g] /\ list'[g] = list[g]
  BY DEF HandlerStep, IssueCertificate, Issue, RotateIssue, Lookup, Revoke, RotateMark,
         RotateRefused, RotateIssueFails, MakeList, WritePem, WriteManifest, PublishFails, Audit,
         AuditFails, Answer, TypeOK
<1>. QED
  BY <1>1, <1>3, <1>4

Kept ==
    \A s \in Serials :
        /\ status[s] = "revoked" => status'[s] = "revoked"
        /\ root[s] # None => root'[s] = root[s]

\* Issue takes a serial that no certificate has had: what is revoked is not touched.
LEMMA RevokedStays == LineageInv /\ [Next]_vars => Kept \/ Crash
<1>. SUFFICES ASSUME LineageInv, [Next]_vars, ~Crash PROVE Kept
  OBVIOUS
<1>. USE DEF authority, files, agent, counters
<1>t. /\ status \in [Serials -> {"unknown", "good", "revoked"}]
      /\ root \in [Serials -> Serials \cup {None}]
      /\ \A s \in Serials : status[s] # "unknown" => root[s] # None
      /\ \A h \in Handlers : pc[h] \in {"revoke", "rotate", "issue"} => target[h] \in Serials
  BY DEF LineageInv, TypeOK, RootsIssued
<1>1. ASSUME NEW h \in Handlers, NEW s \in Serials, NEW r, Issue(h, s, r)
      PROVE  Kept
  BY <1>1, <1>t DEF Issue, Kept
<1>2. ASSUME NEW h \in Handlers, Revoke(h) \/ RotateMark(h)
      PROVE  Kept
  BY <1>2, <1>t DEF Revoke, RotateMark, Kept
<1>3. ASSUME status' = status, root' = root
      PROVE  Kept
  BY <1>3 DEF Kept
<1>4. ASSUME NEW h \in Handlers, HandlerStep(h)
      PROVE  Kept
  BY <1>1, <1>2, <1>3, <1>4
     DEF HandlerStep, IssueCertificate, RotateIssue, Lookup, RotateRefused, RotateIssueFails,
         MakeList, WritePem, WriteManifest, PublishFails, Audit, AuditFails
<1>5. CASE AgentFetches \/ AgentSaves \/ UNCHANGED vars
  BY <1>3, <1>5 DEF AgentFetches, AgentSaves, vars
<1>. QED
  BY <1>4, <1>5, StepCases

-----------------------------------------------------------------------------
(***************************************************************************)
(* The agent's cache.  A list of the authority's present life shows no     *)
(* more than what is revoked now, so the next one fetched shows at least   *)
(* as much.                                                                *)
(***************************************************************************)

CacheInv ==
    /\ cache.life <= lives /\ fetched.life <= lives
    /\ cache.life = lives => cache.revoked \subseteq Revoked
    /\ fetched.life = lives => fetched.revoked \subseteq Revoked
    /\ fetched # NoList /\ cache.life = fetched.life => cache.revoked \subseteq fetched.revoked

LEMMA CacheInit == Init => CacheInv
BY DEF Init, CacheInv, NoList, Revoked

LEMMA CacheStep == LineageInv /\ CacheInv /\ [Next]_vars => CacheInv'
<1>. SUFFICES ASSUME LineageInv, CacheInv, [Next]_vars PROVE CacheInv'
  OBVIOUS
<1>. USE DEF authority, files, agent, counters
<1>t. /\ cache \in Lists /\ fetched \in Lists /\ lives \in Nat /\ made \in Nat
      /\ cache.life \in Nat /\ fetched.life \in Nat
  BY CertAssumption DEF LineageInv, TypeOK, Lists
<1>k. ~Crash => Revoked \subseteq Revoked'
  BY RevokedStays DEF Kept, Revoked
<1>1. ASSUME UNCHANGED <<cache, fetched, lives>>
      PROVE  CacheInv'
  BY <1>1, <1>k, <1>t DEF CacheInv, Crash
<1>2. CASE AgentFetches
  <2>1. /\ fetched' = [id |-> made + 1, revoked |-> Revoked, life |-> lives]
        /\ cache' = cache /\ lives' = lives /\ Revoked' = Revoked
    BY <1>2 DEF AgentFetches, RevocationListByTenant, Revoked
  <2>2. fetched'.life = lives /\ fetched'.revoked = Revoked
    BY <2>1
  <2>. QED
    BY <2>1, <2>2, <1>t DEF CacheInv
<1>3. CASE AgentSaves
  <2>1. cache' = fetched /\ fetched' = NoList /\ lives' = lives /\ Revoked' = Revoked
    BY <1>3 DEF AgentSaves, Revoked
  <2>2. NoList.life = 0 /\ NoList.revoked = {}
    BY DEF NoList
  <2>. QED
    BY <2>1, <2>2, <1>t DEF CacheInv
<1>4. CASE Crash
  <2>1. cache' = cache /\ fetched' = fetched /\ lives' = lives + 1
    BY <1>4 DEF Crash
  <2>. QED
    BY <2>1, <1>t DEF CacheInv
<1>5. CASE UNCHANGED vars
  BY <1>1, <1>5 DEF vars
<1>. QED
  BY <1>1, <1>2, <1>3, <1>4, <1>5, StepCases, HandlerFrame DEF LineageInv

\* However fetching and saving interleave with revocations and restarts, the agent's
\* cached list never forgets a revocation within one life of the authority.
THEOREM CacheKeepsRevocations == Spec => CacheNeverForgets
<1>1. LineageInv /\ CacheInv /\ [Next]_vars =>
          [cache'.life = cache.life => cache.revoked \subseteq cache'.revoked]_vars
  <2>1. LineageInv /\ [Next]_vars => cache' = cache \/ AgentSaves
    BY StepCases, HandlerFrame DEF LineageInv, AgentFetches, Crash, vars, agent
  <2>. QED
    BY <2>1 DEF CacheInv, AgentSaves
<1>2. Spec => [](LineageInv /\ CacheInv)
  BY LineageInit, LineageStep, CacheInit, CacheStep, PTL DEF Spec
<1>. QED
  BY <1>1, <1>2, PTL DEF Spec, CacheNeverForgets

-----------------------------------------------------------------------------
(***************************************************************************)
(* What a handler holds.  Between its steps the target of a request that   *)
(* has acted is revoked, and the certificate issued for a rotation shares  *)
(* the root of the one it replaces, whatever other handlers did meanwhile. *)
(***************************************************************************)

Publishing == {"list", "pem", "manifest", "audit"}

Locals(h) ==
    /\ pc[h] = "idle" => target[h] = None
    /\ pc[h] \in {"idle", "revoke", "rotate", "issue"} => fresh[h] = None
    /\ pc[h] \in {"list", "pem", "manifest"} => target[h] # None
    /\ pc[h] = "audit" /\ target[h] = None => fresh[h] # None
    /\ pc[h] \in Publishing \cup {"issue"} /\ target[h] # None => status[target[h]] = "revoked"
    /\ fresh[h] # None => root[fresh[h]] # None
    /\ fresh[h] # None /\ target[h] # None =>
          fresh[h] # target[h] /\ root[fresh[h]] = root[target[h]]

LocalsInv == LineageInv /\ \A h \in Handlers : Locals(h)

LEMMA LocalsInit == Init => LocalsInv
<1>. SUFFICES ASSUME Init PROVE \A h \in Handlers : Locals(h)
  BY LineageInit DEF LocalsInv
<1>. QED
  BY DEF Init, Locals, Publishing

\* A handler that does not step keeps what it holds.
LEMMA LocalsFrame ==
    ASSUME LocalsInv, Kept, NEW g \in Handlers,
           pc'[g] = pc[g], target'[g] = target[g], fresh'[g] = fresh[g]
    PROVE  Locals(g)'
<1>1. target[g] \in Serials \cup {None} /\ fresh[g] \in Serials \cup {None}
  BY DEF LocalsInv, LineageInv, TypeOK
<1>. QED
  BY <1>1 DEF LocalsInv, Locals, Kept

\* A handler that answers holds nothing.
LEMMA LocalsAnswer ==
    ASSUME TypeOK, NEW h \in Handlers, Answer(h)
    PROVE  Locals(h)'
<1>1. pc'[h] = "idle" /\ target'[h] = None /\ fresh'[h] = None
  BY DEF Answer, GoTo, TypeOK
<1>. QED
  BY <1>1 DEF Locals, Publishing

LEMMA LocalsStep == LocalsInv /\ [Next]_vars => LocalsInv'
<1>. SUFFICES ASSUME LocalsInv, [Next]_vars PROVE \A h \in Handlers : Locals(h)'
  BY LineageStep DEF LocalsInv
<1>. USE DEF authority, files, agent, counters
<1>t. /\ status \in [Serials -> {"unknown", "good", "revoked"}]
      /\ root \in [Serials -> Serials \cup {None}]
      /\ pc \in [Handlers -> PcValues]
      /\ target \in [Handlers -> Serials \cup {None}]
      /\ fresh \in [Handlers -> Serials \cup {None}]
      /\ \A h \in Handlers : pc[h] \in {"revoke", "rotate", "issue"} =>
            target[h] \in Serials /\ root[target[h]] # None
      /\ LineageInv /\ TypeOK
  BY DEF LocalsInv, LineageInv, TypeOK, RootsIssued
<1>k. Crash \/ Kept
  BY <1>t, RevokedStays
<1>1. ASSUME NEW h \in Handlers, HandlerStep(h)
      PROVE  \A g \in Handlers : Locals(g)'
  <2>k. Kept
    <3>1. ~Crash
      BY <1>1, <1>t, HandlerFrame, CertAssumption DEF Crash, TypeOK
    <3>. QED
      BY <1>k, <3>1
  <2>l. Locals(h)
    BY DEF LocalsInv
  <2>1. ASSUME NEW s \in Serials, IssueCertificate(h, s)
        PROVE  Locals(h)'
    <3>1. /\ pc'[h] = "audit" /\ target'[h] = None /\ fresh'[h] = s
          /\ root'[s] = s
      BY <2>1, <1>t, <2>l DEF IssueCertificate, Issue, GoTo, Locals
    <3>. QED
      BY <3>1, CertAssumption DEF Locals, Publishing
  <2>2. ASSUME NEW s \in Serials, Lookup(h, s, "revoke") \/ Lookup(h, s, "rotate")
        PROVE  Locals(h)'
    <3>1. pc'[h] \in {"revoke", "rotate"} /\ target'[h] = s /\ fresh'[h] = None
      BY <2>2, <1>t, <2>l DEF Lookup, GoTo, Locals
    <3>. QED
      BY <3>1, CertAssumption DEF Locals, Publishing
  <2>3. ASSUME Revoke(h) \/ RotateMark(h)
        PROVE  Locals(h)'
    <3>1. /\ pc'[h] \in {"list", "issue"} /\ target'[h] = target[h] /\ target[h] \in Serials
          /\ fresh'[h] = None /\ status'[target[h]] = "revoked"
      BY <2>3, <1>t, <2>l DEF Revoke, RotateMark, GoTo, Locals
    <3>. QED
      BY <3>1, CertAssumption DEF Locals, Publishing
  <2>4. ASSUME NEW s \in Serials, RotateIssue(h, s)
        PROVE  Locals(h)'
    <3>1. /\ pc[h] = "issue" /\ root[s] = None /\ pc'[h] = "list" /\ target'[h] = target[h]
          /\ fresh'[h] = s /\ target[h] \in Serials /\ root[target[h]] # None
          /\ status[target[h]] = "revoked"
      BY <2>4, <1>t, <2>l, CertAssumption DEF RotateIssue, Issue, GoTo, Locals
    <3>2. s # target[h] /\ root'[s] = root[target[h]]
      BY <2>4, <1>t, <3>1 DEF RotateIssue, Issue
    <3>3. root'[target[h]] = root[target[h]] /\ status'[target[h]] = "revoked"
      BY <3>1, <2>k DEF Kept
    <3>. QED
      BY <3>1, <3>2, <3>3, CertAssumption DEF Locals, Publishing
  <2>5. ASSUME MakeList(h) \/ WritePem(h) \/ WriteManifest(h)
        PROVE  Locals(h)'
    <3>1. /\ pc[h] \in {"list", "pem", "manifest"} /\ pc'[h] \in {"pem", "manifest", "audit"}
          /\ target'[h] = target[h] /\ fresh'[h] = fresh[h] /\ status' = status /\ root' = root
      BY <2>5, <1>t DEF MakeList, WritePem, WriteManifest, GoTo
    <3>. QED
      BY <3>1, <2>l DEF Locals, Publishing
  <2>6. ASSUME Answer(h)
        PROVE  Locals(h)'
    BY <2>6, <1>t, LocalsAnswer
  <2>7. Locals(h)'
    BY <1>1, <2>1, <2>2, <2>3, <2>4, <2>5, <2>6
       DEF HandlerStep, RotateRefused, RotateIssueFails, PublishFails, Audit, AuditFails
  <2>. QED
    BY <1>1, <1>t, <2>k, <2>7, HandlerFrame, LocalsFrame
<1>2. CASE AgentFetches \/ AgentSaves \/ UNCHANGED vars
  <2>1. UNCHANGED <<pc, target, fresh, status, root>>
    BY <1>2 DEF AgentFetches, AgentSaves, vars, handlers
  <2>2. Kept
    BY <2>1 DEF Kept
  <2>. QED
    BY <2>1, <2>2, LocalsFrame
<1>3. CASE Crash
  <2>1. \A g \in Handlers : pc'[g] = "idle" /\ target'[g] = None /\ fresh'[g] = None
    BY <1>3 DEF Crash
  <2>. QED
    BY <2>1 DEF Locals, Publishing
<1>. QED
  BY <1>1, <1>2, <1>3, StepCases

-----------------------------------------------------------------------------
(***************************************************************************)
(* The audit trail.  A change that no event shows yet is held by a handler *)
(* on its way to recordAuditEvent.                                         *)
(***************************************************************************)

IssueTraced(s) ==
    \/ <<"issued", s>> \in audit
    \/ \E h \in Handlers : pc[h] \in Publishing /\ fresh[h] = s

RevocationTraced(s) ==
    \/ <<"revoked", s>> \in audit
    \/ \E t \in Serials \ {s} : root[t] = root[s] /\ <<"issued", t>> \in audit
    \/ \E h \in Handlers : pc[h] \in Publishing \cup {"issue"} /\ target[h] = s

AuditInv ==
    faults = 0 /\ lives = 0 => \A s \in Serials :
        /\ status[s] = "good" => IssueTraced(s)
        /\ status[s] = "revoked" => RevocationTraced(s)

LEMMA AuditInit == Init => AuditInv
BY DEF Init, AuditInv

\* A step that changes no certificate and answers no request loses no trace.
LEMMA AuditFrame ==
    ASSUME AuditInv, UNCHANGED <<status, root, audit, fresh, target, faults, lives>>,
           \A h \in Handlers : pc[h] \in Publishing \cup {"issue"} => pc'[h] = pc[h]
    PROVE  AuditInv'
<1>. SUFFICES ASSUME NEW s \in Serials, faults = 0, lives = 0
              PROVE  /\ status[s] = "good" => IssueTraced(s)'
                     /\ status[s] = "revoked" => RevocationTraced(s)'
  BY DEF AuditInv
<1>1. IssueTraced(s) => IssueTraced(s)'
  BY DEF IssueTraced, Publishing
<1>2. RevocationTraced(s) => RevocationTraced(s)'
  BY DEF RevocationTraced
<1>. QED
  BY <1>1, <1>2 DEF AuditInv

LEMMA AuditStep == LocalsInv /\ AuditInv /\ [Next]_vars => AuditInv'
<1>. SUFFICES ASSUME LocalsInv, AuditInv, [Next]_vars PROVE AuditInv'
  OBVIOUS
<1>. USE DEF authority, files, agent, counters
<1>t. /\ status \in [Serials -> {"unknown", "good", "revoked"}]
      /\ root \in [Serials -> Serials \cup {None}]
      /\ pc \in [Handlers -> PcValues]
      /\ target \in [Handlers -> Serials \cup {None}]
      /\ fresh \in [Handlers -> Serials \cup {None}]
      /\ \A h \in Handlers : pc[h] \in {"revoke", "rotate", "issue"} => target[h] \in Serials
      /\ \A s \in Serials : status[s] # "unknown" => root[s] # None
      /\ faults \in Nat /\ lives \in Nat
      /\ LineageInv /\ TypeOK
  BY CertAssumption DEF LocalsInv, LineageInv, TypeOK, RootsIssued
<1>1. ASSUME NEW h \in Handlers, HandlerStep(h)
      PROVE  AuditInv'
  <2>. SUFFICES ASSUME faults' = 0, lives' = 0, NEW s \in Serials
                PROVE  /\ status'[s] = "good" => IssueTraced(s)'
                       /\ status'[s] = "revoked" => RevocationTraced(s)'
    BY DEF AuditInv
  <2>f. ASSUME NEW kind, Fault(kind) PROVE FALSE
    BY <2>f, <1>t DEF Fault
  <2>0. faults = 0 /\ lives = 0
    BY <1>1, <1>t, <2>f, HandlerFrame
       DEF HandlerStep, IssueCertificate, RotateIssue, Lookup, Revoke, RotateMark, RotateRefused,
           RotateIssueFails, MakeList, WritePem, WriteManifest, PublishFails, Audit, AuditFails
  <2>g. \A g \in Handlers \ {h} : pc'[g] = pc[g] /\ target'[g] = target[g] /\ fresh'[g] = fresh[g]
    BY <1>1, <1>t, HandlerFrame
  <2>k. Kept
    <3>1. ~Crash
      BY <1>1, <1>t, HandlerFrame DEF Crash
    <3>. QED
      BY <1>t, <3>1, RevokedStays
  <2>i. /\ status[s] = "good" => IssueTraced(s)
        /\ status[s] = "revoked" => RevocationTraced(s)
    BY <2>0 DEF AuditInv
  <2>l. Locals(h)
    BY DEF LocalsInv
  <2>u. audit \subseteq audit'
    BY <1>1 DEF HandlerStep, IssueCertificate, RotateIssue, Lookup, Revoke, RotateMark, RotateRefused,
           RotateIssueFails, MakeList, WritePem, WriteManifest, PublishFails, Audit, AuditFails
  \* Traces that do not depend on h are kept by every step.
  <2>a. ASSUME IssueTraced(s),
               pc[h] \in Publishing /\ fresh[h] = s =>
                   \/ <<"issued", s>> \in audit'
                   \/ pc'[h] \in Publishing /\ fresh'[h] = s
        PROVE  IssueTraced(s)'
    BY <2>a, <2>g, <2>u DEF IssueTraced
  <2>b. ASSUME RevocationTraced(s), status[s] = "revoked",
               pc[h] \in Publishing \cup {"issue"} /\ target[h] = s =>
                   \/ <<"revoked", s>> \in audit'
                   \/ \E t \in Serials \ {s} : root'[t] = root'[s] /\ <<"issued", t>> \in audit'
                   \/ pc'[h] \in Publishing \cup {"issue"} /\ target'[h] = s
        PROVE  RevocationTraced(s)'
    <3>1. ASSUME NEW t \in Serials \ {s}, root[t] = root[s], <<"issued", t>> \in audit
          PROVE  root'[t] = root'[s] /\ <<"issued", t>> \in audit'
      BY <3>1, <2>b, <2>k, <2>u, <1>t DEF Kept
    <3>. QED
      BY <2>b, <2>g, <2>u, <3>1 DEF RevocationTraced
  <2>1. ASSUME NEW r \in Serials, IssueCertificate(h, r) \/ RotateIssue(h, r)
        PROVE  /\ status'[s] = "good" => IssueTraced(s)'
               /\ status'[s] = "revoked" => RevocationTraced(s)'
    <3>1. /\ pc[h] \in {"idle", "issue"} /\ pc'[h] \in Publishing /\ fresh'[h] = r
          /\ status' = [status EXCEPT ![r] = "good"] /\ target' = target
      BY <2>1, <1>t DEF IssueCertificate, RotateIssue, Issue, GoTo, Publishing
    <3>2. CASE s = r
      BY <3>1, <3>2, <1>t DEF IssueTraced
    <3>3. CASE s # r
      BY <3>1, <3>3, <2>a, <2>b, <2>i, <1>t DEF Publishing
    <3>. QED
      BY <3>2, <3>3
  <2>2. ASSUME Revoke(h) \/ RotateMark(h)
        PROVE  /\ status'[s] = "good" => IssueTraced(s)'
               /\ status'[s] = "revoked" => RevocationTraced(s)'
    <3>1. /\ pc[h] \in {"revoke", "rotate"} /\ pc'[h] \in Publishing \cup {"issue"}
          /\ status' = [status EXCEPT ![target[h]] = "revoked"] /\ target' = target
          /\ target[h] \in Serials
      BY <2>2, <1>t DEF Revoke, RotateMark, GoTo, Publishing
    <3>2. CASE s = target[h]
      BY <3>1, <3>2, <1>t DEF RevocationTraced
    <3>3. CASE s # target[h]
      BY <3>1, <3>3, <2>a, <2>b, <2>i, <1>t DEF Publishing
    <3>. QED
      BY <3>2, <3>3
  <2>3. ASSUME NEW r \in Serials,
               Lookup(h, r, "revoke") \/ Lookup(h, r, "rotate") \/ RotateRefused(h)
        PROVE  /\ status'[s] = "good" => IssueTraced(s)'
               /\ status'[s] = "revoked" => RevocationTraced(s)'
    <3>1. pc[h] \in {"idle", "rotate"} /\ status' = status
      BY <2>3 DEF Lookup, RotateRefused
    <3>. QED
      BY <3>1, <2>a, <2>b, <2>i DEF Publishing
  <2>4. ASSUME MakeList(h) \/ WritePem(h) \/ WriteManifest(h)
        PROVE  /\ status'[s] = "good" => IssueTraced(s)'
               /\ status'[s] = "revoked" => RevocationTraced(s)'
    <3>1. pc'[h] \in Publishing /\ status' = status /\ target' = target /\ fresh' = fresh
      BY <2>4, <1>t DEF MakeList, WritePem, WriteManifest, GoTo, Publishing
    <3>. QED
      BY <3>1, <2>a, <2>b, <2>i
  <2>5. ASSUME Audit(h)
        PROVE  /\ status'[s] = "good" => IssueTraced(s)'
               /\ status'[s] = "revoked" => RevocationTraced(s)'
    <3>1. pc[h] = "audit" /\ Operation(h) \in audit' /\ status' = status /\ root' = root
      BY <2>5 DEF Audit
    <3>2. fresh[h] = s => <<"issued", s>> \in audit'
      BY <3>1, CertAssumption DEF Operation
    <3>3. target[h] = s =>
              \/ <<"revoked", s>> \in audit'
              \/ \E t \in Serials \ {s} : root'[t] = root'[s] /\ <<"issued", t>> \in audit'
      <4>1. CASE fresh[h] = None
        BY <3>1, <4>1 DEF Operation
      <4>2. CASE fresh[h] # None
        BY <3>1, <4>2, <2>l, <1>t, CertAssumption DEF Operation, Locals
      <4>. QED
        BY <4>1, <4>2
    <3>. QED
      BY <3>1, <3>2, <3>3, <2>a, <2>b, <2>i
  <2>. QED
    BY <1>1, <2>1, <2>2, <2>3, <2>4, <2>5, <2>f
       DEF HandlerStep, RotateIssueFails, PublishFails, AuditFails
<1>2. CASE AgentFetches \/ AgentSaves \/ UNCHANGED vars
  BY <1>2, AuditFrame DEF AgentFetches, AgentSaves, vars, handlers
<1>3. CASE Crash
  BY <1>3, <1>t DEF Crash, AuditInv
<1>. QED
  BY <1>1, <1>2, <1>3, StepCases

\* However requests interleave, as long as nothing failed, at rest every certificate
\* issued and every certificate revoked is accounted for in the audit trail.
THEOREM ChangesAudited == Spec => []EveryChangeAudited
<1>1. AuditInv => EveryChangeAudited
  BY DEF AuditInv, EveryChangeAudited, AtRest, IssueTraced, RevocationTraced, Publishing
<1>. QED
  BY <1>1, LocalsInit, LocalsStep, AuditInit, AuditStep, PTL DEF Spec

-----------------------------------------------------------------------------
(***************************************************************************)
(* The published list.  A handler that nobody overlaps makes its list from *)
(* the authority's present state, writes both files from it and answers    *)
(* before anything else is revoked: afterwards the list shows all that is  *)
(* revoked, whatever order earlier handlers left the files in.             *)
(***************************************************************************)

\* The list on its way from a handler that nobody overlaps shows all that is revoked.
PublishesAll(h) ==
    /\ pc[h] \in {"pem", "manifest"} => Revoked \subseteq list[h].revoked
    /\ pc[h] = "manifest" => pem = list[h]
    /\ pc[h] = "audit" /\ target[h] # None => Revoked \subseteq pem.revoked

Alone ==
    \A g, h \in Handlers : pc[g] # "idle" /\ pc[h] # "idle" => g = h

PublishedInv ==
    /\ LocalsInv
    /\ crowded => overlap
    /\ ~crowded => Alone /\ \A h \in Handlers : PublishesAll(h)
    /\ answered \subseteq Revoked
    /\ ~overlap /\ pem.id # 0 => answered \subseteq pem.revoked

LEMMA PublishedInit == Init => PublishedInv
<1>. SUFFICES ASSUME Init PROVE PublishedInv
  OBVIOUS
<1>1. ~crowded /\ ~overlap /\ answered = {} /\ \A h \in Handlers : pc[h] = "idle"
  BY DEF Init
<1>. QED
  BY <1>1, LocalsInit DEF PublishedInv, Alone, PublishesAll

\* A step of h after which no other request has overlapped h's: every other is idle, and
\* h began when every other was.
LEMMA AloneStep ==
    ASSUME TypeOK, NEW h \in Handlers, HandlerStep(h)
    PROVE  /\ ~crowded' => /\ pc[h] = "idle" \/ ~crowded
                           /\ \A g \in Handlers \ {h} : pc[g] = "idle" /\ pc'[g] = "idle"
           /\ crowded' => overlap'
           /\ ~overlap' => ~overlap \/ (pc[h] = "manifest" /\ pc'[h] = "audit")
<1>1. PICK where : GoTo(h, where)
  BY DEF HandlerStep, IssueCertificate, RotateIssue, Lookup, Revoke, RotateMark, RotateRefused,
         RotateIssueFails, MakeList, WritePem, WriteManifest, PublishFails, Audit, AuditFails, Answer
<1>2. /\ ~crowded' => /\ pc[h] = "idle" \/ ~crowded
                      /\ \A g \in Handlers \ {h} : pc[g] = "idle"
      /\ crowded' => overlap'
      /\ ~overlap' => ~overlap \/ <<pc[h], where>> = <<"manifest", "audit">>
  BY <1>1, Zenon DEF GoTo
<1>3. pc'[h] = where
  BY <1>1 DEF GoTo, TypeOK
<1>. QED
  BY <1>2, <1>3, HandlerFrame

\* A step of a handler that nobody overlaps.
LEMMA LoneStep ==
    ASSUME PublishedInv, NEW h \in Handlers, HandlerStep(h), ~crowded', [Next]_vars
    PROVE  PublishesAll(h)'
<1>. USE DEF authority, files, agent, counters
<1>t. /\ status \in [Serials -> {"unknown", "good", "revoked"}]
      /\ pc \in [Handlers -> PcValues]
      /\ target \in [Handlers -> Serials \cup {None}]
      /\ list \in [Handlers -> Lists] /\ pem \in Lists /\ TypeOK
  BY DEF PublishedInv, LocalsInv, LineageInv, TypeOK
<1>l. Locals(h)
  BY DEF PublishedInv, LocalsInv
<1>i. pc[h] # "idle" => PublishesAll(h)
  BY <1>t, AloneStep DEF PublishedInv
<1>1. CASE pc'[h] \notin {"pem", "manifest"} /\ (pc'[h] = "audit" => target'[h] = None)
  BY <1>1 DEF PublishesAll
<1>2. CASE MakeList(h)
  <2>1. /\ pc'[h] = "pem" /\ Revoked' = Revoked
        /\ list'[h] = [id |-> made + 1, revoked |-> Revoked, life |-> lives]
    BY <1>2, <1>t DEF MakeList, GoTo, RevocationListByTenant, Revoked
  <2>2. list'[h].revoked = Revoked
    BY <2>1
  <2>. QED
    BY <2>1, <2>2 DEF PublishesAll
<1>3. CASE WritePem(h)
  <2>1. /\ pc[h] = "pem" /\ pc'[h] = "manifest" /\ pem' = list[h] /\ list' = list
        /\ Revoked' = Revoked
    BY <1>3, <1>t DEF WritePem, GoTo, Revoked
  <2>. QED
    BY <2>1, <1>i DEF PublishesAll
<1>4. CASE WriteManifest(h)
  <2>1. /\ pc[h] = "manifest" /\ pc'[h] = "audit" /\ pem' = pem /\ Revoked' = Revoked
    BY <1>4, <1>t DEF WriteManifest, GoTo, Revoked
  <2>. QED
    BY <2>1, <1>i DEF PublishesAll
<1>5. ASSUME NEW s \in Serials, \/ IssueCertificate(h, s) \/ RotateIssue(h, s)
                                \/ Lookup(h, s, "revoke") \/ Lookup(h, s, "rotate")
      PROVE  pc'[h] \notin {"pem", "manifest"} /\ (pc'[h] = "audit" => target'[h] = None)
  BY <1>5, <1>l, <1>t DEF IssueCertificate, RotateIssue, Lookup, GoTo, Locals
<1>6. ASSUME Revoke(h) \/ RotateMark(h)
      PROVE  pc'[h] \notin {"pem", "manifest", "audit"}
  BY <1>6, <1>t DEF Revoke, RotateMark, GoTo
<1>7. ASSUME Answer(h) PROVE pc'[h] = "idle"
  BY <1>7, <1>t DEF Answer, GoTo
<1>. QED
  BY <1>1, <1>2, <1>3, <1>4, <1>5, <1>6, <1>7
     DEF HandlerStep, RotateRefused, RotateIssueFails, PublishFails, Audit, AuditFails

LEMMA PublishedStep == PublishedInv /\ [Next]_vars => PublishedInv'
<1>. SUFFICES ASSUME PublishedInv, [Next]_vars PROVE PublishedInv'
  OBVIOUS
<1>. USE DEF authority, files, agent, counters
<1>t. /\ pc \in [Handlers -> PcValues]
      /\ target \in [Handlers -> Serials \cup {None}]
      /\ LineageInv /\ TypeOK
  BY DEF PublishedInv, LocalsInv, LineageInv, TypeOK
<1>0. LocalsInv'
  BY LocalsStep DEF PublishedInv
<1>1. ASSUME NEW h \in Handlers, HandlerStep(h)
      PROVE  PublishedInv'
  <2>a. /\ ~crowded' => /\ pc[h] = "idle" \/ ~crowded
                        /\ \A g \in Handlers \ {h} : pc[g] = "idle" /\ pc'[g] = "idle"
        /\ crowded' => overlap'
        /\ ~overlap' => ~overlap \/ (pc[h] = "manifest" /\ pc'[h] = "audit")
    BY <1>1, <1>t, AloneStep
  <2>k. Revoked \subseteq Revoked'
    <3>1. ~Crash
      BY <1>1, <1>t, HandlerFrame, CertAssumption DEF Crash, TypeOK
    <3>. QED
      BY <1>t, <3>1, RevokedStays DEF Kept, Revoked
  <2>p. ~crowded' => PublishesAll(h)'
    BY <1>1, LoneStep
  <2>1. ~crowded' => Alone' /\ \A g \in Handlers : PublishesAll(g)'
    BY <2>a, <2>p DEF Alone, PublishesAll
  <2>2. answered' \subseteq answered \cup ({target[h]} \ {None})
        /\ (answered' # answered => Audit(h))
    BY <1>1 DEF HandlerStep, IssueCertificate, RotateIssue, Lookup, Revoke, RotateMark,
            RotateRefused, RotateIssueFails, MakeList, WritePem, WriteManifest, PublishFails,
            Audit, AuditFails
  <2>3. answered' \subseteq Revoked'
    <3>1. CASE answered' = answered
      BY <3>1, <2>k DEF PublishedInv
    <3>2. CASE Audit(h)
      <4>1. target[h] # None => target[h] \in Revoked
        BY <3>2, <1>t DEF Audit, PublishedInv, LocalsInv, Locals, Publishing, Revoked
      <4>. QED
        BY <4>1, <2>2, <2>k DEF PublishedInv
    <3>. QED
      BY <2>2, <3>1, <3>2
  <2>4. ASSUME ~overlap', pem'.id # 0
        PROVE  answered' \subseteq pem'.revoked
    <3>1. ~crowded' /\ (pc[h] = "idle" \/ ~crowded)
      BY <2>4, <2>a
    <3>2. CASE WritePem(h) \/ WriteManifest(h)
      <4>1. /\ pc[h] \in {"pem", "manifest"} /\ ~crowded /\ answered' = answered
            /\ pem' = list[h]
        BY <3>1, <3>2 DEF WritePem, WriteManifest, PublishedInv, PublishesAll
      <4>. QED
        BY <4>1 DEF PublishedInv, PublishesAll
    <3>3. CASE Audit(h)
      <4>1. /\ pc[h] = "audit" /\ ~crowded /\ pem' = pem /\ ~overlap
        BY <3>1, <3>3, <2>4, <2>a DEF Audit
      <4>2. target[h] # None => target[h] \in pem.revoked
        <5>1. target[h] # None => target[h] \in Revoked
          BY <4>1, <1>t DEF PublishedInv, LocalsInv, Locals, Publishing, Revoked
        <5>. QED
          BY <4>1, <5>1 DEF PublishedInv, PublishesAll
      <4>. QED
        BY <4>1, <4>2, <2>2, <2>4 DEF PublishedInv
    <3>4. CASE ~WritePem(h) /\ ~WriteManifest(h) /\ ~Audit(h)
      <4>1. pc'[h] # "audit" \/ pc[h] # "manifest"
        BY <1>1, <3>4, <1>t DEF HandlerStep, IssueCertificate, RotateIssue, Lookup, Revoke, RotateMark,
            RotateRefused, RotateIssueFails, MakeList, PublishFails, AuditFails, Answer, GoTo
      <4>2. pem' \in {pem, NoList}
        BY <1>1, <3>4 DEF HandlerStep, IssueCertificate, RotateIssue, Lookup, Revoke, RotateMark,
            RotateRefused, RotateIssueFails, MakeList, PublishFails, AuditFails, HalfWritten
      <4>3. ~overlap /\ answered' = answered /\ pem' = pem
        BY <2>2, <2>4, <2>a, <3>4, <4>1, <4>2 DEF NoList
      <4>. QED
        BY <2>4, <4>3 DEF PublishedInv
    <3>. QED
      BY <3>2, <3>3, <3>4
  <2>. QED
    BY <1>0, <2>a, <2>1, <2>3, <2>4 DEF PublishedInv
<1>2. CASE AgentFetches \/ AgentSaves \/ UNCHANGED vars
  <2>1. UNCHANGED <<pc, target, list, crowded, overlap, status, pem, answered>>
    BY <1>2 DEF AgentFetches, AgentSaves, vars, handlers
  <2>. QED
    BY <1>0, <2>1 DEF PublishedInv, Alone, PublishesAll, Revoked
<1>3. CASE Crash
  <2>1. /\ answered' = {} /\ crowded' = crowded /\ overlap' = overlap
        /\ \A h \in Handlers : pc'[h] = "idle"
    BY <1>3 DEF Crash
  <2>. QED
    BY <1>0, <2>1 DEF PublishedInv, Alone, PublishesAll
<1>. QED
  BY <1>1, <1>2, <1>3, StepCases

\* For any number of handlers, any failed writes and restarts: once a request that none
\* overlapped has published, the published list, unless cut off, shows every answered
\* revocation, until requests overlap again.
THEOREM ListIsBroughtUp == Spec => []ListCatchesUp
<1>1. PublishedInv => ListCatchesUp
  BY DEF PublishedInv, ListCatchesUp
<1>. QED
  BY <1>1, PublishedInit, PublishedStep, PTL DEF Spec

=============================================================================
