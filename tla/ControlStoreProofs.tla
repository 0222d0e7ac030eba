------------------------- MODULE ControlStoreProofs -------------------------
(***************************************************************************)
(* Theorems about ControlStore, for every set of tenants, objects and      *)
(* handlers and every bound.                                               *)
(***************************************************************************)
EXTENDS ControlStore, TLAPS

-----------------------------------------------------------------------------
(***************************************************************************)
(* What the Memory operations do to a store.                               *)
(***************************************************************************)

LEMMA NewMemoryType ==
    /\ NewMemory \in Stores
    /\ NewMemory.audit = [t \in Tenants |-> <<>>]
BY DEF NewMemory, Stores, Health

\* Appending an event to one trail keeps the type of the store and touches
\* nothing else.
LEMMA AppendEvent ==
    ASSUME NEW s \in Stores, NEW t \in Tenants, NEW e \in Events,
           NEW r, r = [s EXCEPT !.audit[t] = Append(@, e)]
    PROVE  /\ r \in Stores
           /\ r.audit = [s.audit EXCEPT ![t] = Append(@, e)]
           /\ r.tenants = s.tenants
           /\ r.devices = s.devices
           /\ r.nodes = s.nodes
           /\ r.policies = s.policies
           /\ r.configs = s.configs
           /\ r.telemetry = s.telemetry
<1>. DEFINE a == [s.audit EXCEPT ![t] = Append(@, e)]
<1>1. a \in [Tenants -> Seq(Events)]
  <2>1. s.audit \in [Tenants -> Seq(Events)]
    BY DEF Stores
  <2>. QED
    BY <2>1
<1>2. r = [s EXCEPT !.audit = a]
  BY DEF Stores
<1>. HIDE DEF a
<1>3. [s EXCEPT !.audit = a] \in Stores
  BY <1>1 DEF Stores
<1>4. /\ r.audit = a
      /\ r.tenants = s.tenants
      /\ r.devices = s.devices
      /\ r.nodes = s.nodes
      /\ r.policies = s.policies
      /\ r.configs = s.configs
      /\ r.telemetry = s.telemetry
  BY <1>2 DEF Stores
<1>. QED
  BY <1>2, <1>3, <1>4 DEF a

\* The changes of the operations, one field at a time.
LEMMA ChangeField ==
    ASSUME NEW s \in Stores, NEW t \in Tenants, NEW o \in Objects,
           NEW k \in {"absent", "healthy", "unhealthy"}
    PROVE  /\ [s EXCEPT !.tenants = @ \cup {t}] \in Stores
           /\ [s EXCEPT !.devices[t] = @ \cup {o}] \in Stores
           /\ [s EXCEPT !.policies[t] = @ \cup {o}] \in Stores
           /\ [s EXCEPT !.configs[t] = @ \cup {o}] \in Stores
           /\ [s EXCEPT !.telemetry[t] = Append(@, o)] \in Stores
           /\ [s EXCEPT !.nodes[t][o] = k] \in Stores
<1>1. [s EXCEPT !.tenants = @ \cup {t}] \in Stores
  BY DEF Stores
<1>2. [s EXCEPT !.devices[t] = @ \cup {o}] \in Stores
  BY DEF Stores
<1>3. [s EXCEPT !.policies[t] = @ \cup {o}] \in Stores
  BY DEF Stores
<1>4. [s EXCEPT !.configs[t] = @ \cup {o}] \in Stores
  BY DEF Stores
<1>5. [s EXCEPT !.telemetry[t] = Append(@, o)] \in Stores
  <2>. DEFINE f == [s.telemetry EXCEPT ![t] = Append(@, o)]
  <2>1. f \in [Tenants -> Seq(Objects)]
    <3>1. s.telemetry \in [Tenants -> Seq(Objects)]
      BY DEF Stores
    <3>. QED
      BY <3>1
  <2>2. [s EXCEPT !.telemetry[t] = Append(@, o)] = [s EXCEPT !.telemetry = f]
    BY DEF Stores
  <2>. HIDE DEF f
  <2>. QED
    BY <2>1, <2>2 DEF Stores
<1>6. [s EXCEPT !.nodes[t][o] = k] \in Stores
  <2>. DEFINE f == [s.nodes EXCEPT ![t][o] = k]
  <2>1. f \in [Tenants -> [Objects -> Health]]
    BY DEF Stores, Health
  <2>2. [s EXCEPT !.nodes[t][o] = k] = [s EXCEPT !.nodes = f]
    BY DEF Stores
  <2>. HIDE DEF f
  <2>. QED
    BY <2>1, <2>2 DEF Stores
<1>. QED
  BY <1>1, <1>2, <1>3, <1>4, <1>5, <1>6

-----------------------------------------------------------------------------
(***************************************************************************)
(* The ten actions that change memory have one shape: the store becomes    *)
(* some s whose trails are those of memory, and one event is appended.     *)
(***************************************************************************)

MemoryStep(h) ==
    \/ CreateTenant(h)
    \/ RegisterDevice(h)
    \/ RegisterNode(h)
    \/ RecordNodeHeartbeat(h)
    \/ RetireNode(h)
    \/ RecordTelemetry(h)
    \/ UpsertPolicyRule(h)
    \/ UpsertConfig(h)
    \/ RecordAuditEvent(h)

LEMMA MemoryStepShape ==
    ASSUME TypeOK, NEW h \in Handlers, MemoryStep(h)
    PROVE  /\ up
           /\ pc[h] = "call"
           /\ req[h] \in Requests
           /\ \E s \in Stores, e \in Events :
                 s.audit = mem.audit /\ auditLocked(h, s, req[h].tenant, e)
<1>. DEFINE t == req[h].tenant
            o == req[h].object
<1>1. up /\ pc[h] = "call"
  BY DEF MemoryStep, CreateTenant, RegisterDevice, RegisterNode, RecordNodeHeartbeat,
         RetireNode, RecordTelemetry, UpsertPolicyRule, UpsertConfig,
         RecordAuditEvent, Calls
<1>2. req[h] \in Requests
  BY <1>1 DEF TypeOK
<1>3. t \in Tenants /\ o \in Objects /\ req[h].action \in Actions
  BY <1>2 DEF Requests
<1>4. mem \in Stores
  BY DEF TypeOK
<1>5. /\ \A a \in Actions : StoreEvent(a, o) \in Events
      /\ SubjectEvent(req[h]) \in Events
      /\ StoreEvent("tenant.create", t) \in Events
      /\ Mutations \subseteq Actions
  BY <1>3 DEF Events, StoreEvent, SubjectEvent, Actions, Mutations
<1>. HIDE DEF t, o
<1>6. CASE CreateTenant(h)
  <2>. DEFINE s == [mem EXCEPT !.tenants = @ \cup {t}]
  <2>1. s \in Stores /\ s.audit = mem.audit
    BY <1>3, <1>4 DEF Stores
  <2>2. auditLocked(h, s, t, StoreEvent("tenant.create", t))
    BY <1>6 DEF CreateTenant, t
  <2>. QED
    BY <1>1, <1>2, <1>5, <2>1, <2>2 DEF t
<1>7. CASE RegisterDevice(h)
  <2>. DEFINE s == [mem EXCEPT !.devices[t] = @ \cup {o}]
  <2>1. s \in Stores /\ s.audit = mem.audit
    BY <1>3, <1>4, ChangeField DEF Stores
  <2>2. auditLocked(h, s, t, StoreEvent("device.register", o))
    BY <1>7 DEF RegisterDevice, t, o
  <2>. QED
    BY <1>1, <1>2, <1>5, <2>1, <2>2 DEF t, Mutations
<1>8. CASE RegisterNode(h) \/ RecordNodeHeartbeat(h)
  <2>1. PICK k \in {"healthy", "unhealthy"}, a \in {"node.register", "node.heartbeat"} :
           auditLocked(h, [mem EXCEPT !.nodes[t][o] = k], t, StoreEvent(a, o))
    BY <1>8 DEF RegisterNode, RecordNodeHeartbeat, t, o
  <2>2. [mem EXCEPT !.nodes[t][o] = k] \in Stores
    BY <1>3, <1>4, ChangeField
  <2>3. [mem EXCEPT !.nodes[t][o] = k].audit = mem.audit
    BY <1>4 DEF Stores
  <2>. QED
    BY <1>1, <1>2, <1>5, <2>1, <2>2, <2>3 DEF t, Mutations
<1>9. CASE RetireNode(h)
  <2>. DEFINE s == [mem EXCEPT !.nodes[t][o] = "absent"]
  <2>1. s \in Stores
    BY <1>3, <1>4, ChangeField
  <2>2. s.audit = mem.audit
    BY <1>4 DEF Stores
  <2>3. auditLocked(h, s, t, StoreEvent("node.retire", o))
    BY <1>9 DEF RetireNode, t, o
  <2>. QED
    BY <1>1, <1>2, <1>5, <2>1, <2>2, <2>3 DEF t, Mutations
<1>10. CASE RecordTelemetry(h)
  <2>. DEFINE s == [mem EXCEPT !.telemetry[t] = Append(@, o)]
  <2>1. s \in Stores
    BY <1>3, <1>4, ChangeField
  <2>2. s.audit = mem.audit
    BY <1>4 DEF Stores
  <2>3. auditLocked(h, s, t, StoreEvent("telemetry.record", o))
    BY <1>10 DEF RecordTelemetry, t, o
  <2>. QED
    BY <1>1, <1>2, <1>5, <2>1, <2>2, <2>3 DEF t, Mutations
<1>11. CASE UpsertPolicyRule(h)
  <2>. DEFINE s == [mem EXCEPT !.policies[t] = @ \cup {o}]
  <2>1. s \in Stores /\ s.audit = mem.audit
    BY <1>3, <1>4, ChangeField DEF Stores
  <2>2. auditLocked(h, s, t, StoreEvent("policy.upsert", o))
    BY <1>11 DEF UpsertPolicyRule, t, o
  <2>. QED
    BY <1>1, <1>2, <1>5, <2>1, <2>2 DEF t, Mutations
<1>12. CASE UpsertConfig(h)
  <2>. DEFINE s == [mem EXCEPT !.configs[t] = @ \cup {o}]
  <2>1. s \in Stores /\ s.audit = mem.audit
    BY <1>3, <1>4, ChangeField DEF Stores
  <2>2. auditLocked(h, s, t, StoreEvent("config.upsert", o))
    BY <1>12 DEF UpsertConfig, t, o
  <2>. QED
    BY <1>1, <1>2, <1>5, <2>1, <2>2 DEF t, Mutations
<1>13. CASE RecordAuditEvent(h)
  <2>1. auditLocked(h, mem, t, SubjectEvent(req[h]))
    BY <1>13 DEF RecordAuditEvent, t, o
  <2>. QED
    BY <1>1, <1>2, <1>3, <1>4, <1>5, <2>1 DEF t
<1>. QED
  BY <1>6, <1>7, <1>8, <1>9, <1>10, <1>11, <1>12, <1>13 DEF MemoryStep

-----------------------------------------------------------------------------
(***************************************************************************)
(* Type correctness.                                                       *)
(***************************************************************************)

LEMMA TypeInit == Init => TypeOK
<1>. SUFFICES ASSUME Init PROVE TypeOK
  OBVIOUS
<1>1. up \in BOOLEAN /\ overlap \in BOOLEAN
  BY Zenon DEF Init
<1>. QED
  BY <1>1, NewMemoryType, BoundsAssumption DEF Init, TypeOK

LEMMA TypeStep == TypeOK /\ [Next]_vars => TypeOK'
<1>. SUFFICES ASSUME TypeOK, [Next]_vars
              PROVE  TypeOK'
  OBVIOUS
<1>. USE BoundsAssumption
<1>1. ASSUME NEW h \in Handlers, MemoryStep(h)
      PROVE  TypeOK'
  <2>1. req[h] \in Requests
    BY <1>1, MemoryStepShape
  <2>2. PICK s \in Stores, e \in Events : auditLocked(h, s, req[h].tenant, e)
    BY <1>1, MemoryStepShape
  <2>3. req[h].tenant \in Tenants
    BY <2>1 DEF Requests
  <2>4. mem' \in Stores
    BY <2>2, <2>3, AppendEvent DEF auditLocked
  <2>5. Len(s.audit[req[h].tenant]) + 1 \in Nat \ {0}
    <3>1. s.audit \in [Tenants -> Seq(Events)]
      BY DEF Stores
    <3>. QED
      BY <2>3, <3>1
  <2>. QED
    BY <2>1, <2>2, <2>4, <2>5 DEF auditLocked, TypeOK
<1>2. ASSUME NEW h \in Handlers, Begin(h)
      PROVE  TypeOK'
  BY <1>2 DEF Begin, TypeOK
<1>3. ASSUME NEW h \in Handlers, Refuse(h) \/ Abandon(h) \/ SaveFails(h)
      PROVE  TypeOK'
  BY <1>3, NewMemoryType DEF Refuse, Abandon, SaveFails, Done, TypeOK
<1>4. ASSUME NEW h \in Handlers, Snapshot(h)
      PROVE  TypeOK'
  BY <1>4 DEF Snapshot, TypeOK
<1>5. ASSUME NEW h \in Handlers, Rename(h)
      PROVE  TypeOK'
  <2>1. req[h] \in Requests /\ req[h].tenant \in Tenants
    BY <1>5 DEF Rename, TypeOK, Requests
  <2>2. {<<req[h].tenant, i>> : i \in written[h]} \subseteq Tenants \X (Nat \ {0})
    BY <2>1 DEF TypeOK
  <2>. QED
    BY <1>5, <2>1, <2>2, NewMemoryType DEF Rename, Done, TypeOK
<1>6. CASE Crash
  <2>1. /\ pc' \in [Handlers -> {"idle", "call", "snapshot", "rename"}]
        /\ \A h \in Handlers : pc'[h] = "idle"
    BY <1>6 DEF Crash
  <2>2. /\ phase' \in [Handlers -> {"operation", "audit"}]
        /\ req' \in [Handlers -> Requests \cup {NoRequest}]
        /\ snap' \in [Handlers -> Stores]
        /\ written' \in [Handlers -> SUBSET (Nat \ {0})]
    BY <1>6, NewMemoryType DEF Crash
  <2>3. crashes' \in 0 .. MaxCrashes
    BY <1>6 DEF Crash, TypeOK
  <2>4. up' \in BOOLEAN /\ UNCHANGED <<mem, disk, backup, acked, begun, backups, overlap>>
    BY <1>6 DEF Crash
  <2>. QED
    BY <2>1, <2>2, <2>3, <2>4 DEF TypeOK
<1>7. CASE Restart
  BY <1>7 DEF Restart, TypeOK
<1>8. CASE Backup
  BY <1>8 DEF Backup, TypeOK
<1>9. CASE RestoreBackup
  BY <1>9 DEF RestoreBackup, TypeOK
<1>10. CASE UNCHANGED vars
  BY <1>10 DEF vars, TypeOK
<1>. QED
  BY <1>1, <1>2, <1>3, <1>4, <1>5, <1>6, <1>7, <1>8, <1>9, <1>10
     DEF Next, Handle, MemoryStep

\* Every variable of the repository and of its handlers keeps its type.
THEOREM TypeCorrect == Spec => []TypeOK
<1>1. Init => TypeOK
  BY TypeInit
<1>2. TypeOK /\ [Next]_vars => TypeOK'
  BY TypeStep
<1>. QED
  BY <1>1, <1>2, PTL DEF Spec

-----------------------------------------------------------------------------
(***************************************************************************)
(* Initial parts of sequences.                                             *)
(***************************************************************************)

LEMMA PrefixByElement ==
    ASSUME NEW S, NEW p \in Seq(S), NEW q \in Seq(S)
    PROVE  IsPrefix(p, q) <=> Len(p) <= Len(q) /\ \A i \in 1 .. Len(p) : p[i] = q[i]
<1>1. SubSeq(p, 1, Len(p)) = p
  OBVIOUS
<1>2. ASSUME Len(p) <= Len(q)
      PROVE  SubSeq(q, 1, Len(p)) = p <=> \A i \in 1 .. Len(p) : p[i] = q[i]
  <2>1. /\ SubSeq(q, 1, Len(p)) \in Seq(S)
        /\ Len(SubSeq(q, 1, Len(p))) = Len(p)
        /\ \A i \in 1 .. Len(p) : SubSeq(q, 1, Len(p))[i] = q[i]
    BY <1>2
  <2>. QED
    BY <2>1
<1>. QED
  BY <1>1, <1>2 DEF IsPrefix

LEMMA EmptyPrefix ==
    ASSUME NEW S, NEW p \in Seq(S)
    PROVE  IsPrefix(<<>>, p)
<1>. DEFINE z == <<>>
<1>1. z \in Seq(S) /\ Len(z) = 0 /\ Len(p) \in Nat
  OBVIOUS
<1>. HIDE DEF z
<1>2. Len(z) <= Len(p) /\ \A i \in 1 .. Len(z) : z[i] = p[i]
  BY <1>1
<1>3. IsPrefix(z, p)
  BY <1>1, <1>2, PrefixByElement
<1>. QED
  BY <1>3 DEF z

LEMMA PrefixFacts ==
    ASSUME NEW S, NEW p \in Seq(S), NEW q \in Seq(S), NEW x \in S
    PROVE  /\ IsPrefix(p, p)
           /\ IsPrefix(p, q) => IsPrefix(p, Append(q, x))
<1>1. IsPrefix(p, p)
  BY PrefixByElement
<1>2. ASSUME IsPrefix(p, q)
      PROVE  IsPrefix(p, Append(q, x))
  <2>1. /\ Append(q, x) \in Seq(S)
        /\ Len(Append(q, x)) = Len(q) + 1
        /\ \A i \in 1 .. Len(q) : Append(q, x)[i] = q[i]
    OBVIOUS
  <2>2. Len(p) <= Len(q) /\ \A i \in 1 .. Len(p) : p[i] = q[i]
    BY <1>2, PrefixByElement
  <2>3. Len(p) \in Nat /\ Len(q) \in Nat
    OBVIOUS
  <2>4. Len(p) <= Len(Append(q, x)) /\ \A i \in 1 .. Len(p) : p[i] = Append(q, x)[i]
    BY <2>1, <2>2, <2>3
  <2>. QED
    BY <2>1, <2>4, PrefixByElement
<1>. QED
  BY <1>1, <1>2

-----------------------------------------------------------------------------
(***************************************************************************)
(* The store file never runs ahead of memory.  DiskIsPast is not inductive *)
(* by itself: a restart replaces memory by the (possibly older) file, and  *)
(* only because no handler of the dead process is left is no snapshot      *)
(* ahead of the new memory.                                                *)
(***************************************************************************)

PastInv ==
    /\ DiskIsPast
    /\ ~up => \A h \in Handlers : snap[h] = NewMemory

LEMMA TrailType ==
    ASSUME NEW s \in Stores, NEW t \in Tenants
    PROVE  s.audit[t] \in Seq(Events)
BY DEF Stores

LEMMA EmptyTrailIsPast ==
    ASSUME NEW s \in Stores, NEW t \in Tenants
    PROVE  IsPrefix(NewMemory.audit[t], s.audit[t])
<1>1. NewMemory.audit[t] = <<>>
  BY NewMemoryType
<1>2. s.audit[t] \in Seq(Events)
  BY TrailType
<1>. QED
  BY <1>1, <1>2, EmptyPrefix

LEMMA TrailIsItsPast ==
    ASSUME NEW s \in Stores, NEW t \in Tenants
    PROVE  IsPrefix(s.audit[t], s.audit[t])
BY TrailType, PrefixByElement

LEMMA PastInit == Init => PastInv
<1>. SUFFICES ASSUME Init PROVE PastInv
  OBVIOUS
<1>1. \A t \in Tenants : IsPrefix(NewMemory.audit[t], NewMemory.audit[t])
  BY NewMemoryType, TrailIsItsPast
<1>. QED
  BY <1>1 DEF Init, PastInv, DiskIsPast

LEMMA PastStep == TypeOK /\ PastInv /\ [Next]_vars => PastInv'
<1>. SUFFICES ASSUME TypeOK, PastInv, [Next]_vars
              PROVE  PastInv'
  OBVIOUS
<1>1. ASSUME NEW h \in Handlers, MemoryStep(h)
      PROVE  PastInv'
  <2>1. up /\ req[h] \in Requests
    BY <1>1, MemoryStepShape
  <2>2. PICK s \in Stores, e \in Events :
           s.audit = mem.audit /\ auditLocked(h, s, req[h].tenant, e)
    BY <1>1, MemoryStepShape
  <2>. DEFINE u == req[h].tenant
  <2>3. u \in Tenants
    BY <2>1 DEF Requests
  <2>4. mem'.audit = [mem.audit EXCEPT ![u] = Append(@, e)]
    BY <2>2, <2>3, AppendEvent DEF auditLocked
  <2>5. disk' = disk /\ snap' = snap /\ up' = up
    BY <2>2 DEF auditLocked
  <2>6. ASSUME NEW r \in Stores, NEW t \in Tenants, IsPrefix(r.audit[t], mem.audit[t])
        PROVE  IsPrefix(r.audit[t], mem'.audit[t])
    <3>1. /\ r.audit[t] \in Seq(Events)
          /\ mem.audit[t] \in Seq(Events)
          /\ mem.audit \in [Tenants -> Seq(Events)]
      BY <2>6 DEF Stores, TypeOK
    <3>2. CASE t = u
      <4>1. mem'.audit[t] = Append(mem.audit[t], e)
        BY <2>3, <2>4, <3>1, <3>2
      <4>. QED
        BY <2>6, <3>1, <4>1, PrefixFacts
    <3>3. CASE t # u
      BY <2>4, <2>6, <3>1, <3>3
    <3>. QED
      BY <3>2, <3>3
  <2>7. disk \in Stores /\ \A g \in Handlers : snap[g] \in Stores
    BY DEF TypeOK
  <2>. QED
    BY <2>1, <2>5, <2>6, <2>7 DEF PastInv, DiskIsPast
<1>2. ASSUME NEW h \in Handlers, Begin(h)
      PROVE  PastInv'
  BY <1>2 DEF Begin, PastInv, DiskIsPast
<1>3. ASSUME NEW h \in Handlers, Refuse(h) \/ Abandon(h) \/ SaveFails(h)
      PROVE  PastInv'
  <2>1. /\ up' = up /\ up /\ mem' = mem /\ disk' = disk
        /\ snap' = [snap EXCEPT ![h] = NewMemory]
    BY <1>3 DEF Refuse, Abandon, SaveFails, Done
  <2>2. \A t \in Tenants : IsPrefix(NewMemory.audit[t], mem.audit[t])
    BY EmptyTrailIsPast DEF TypeOK
  <2>. QED
    BY <2>1, <2>2 DEF PastInv, DiskIsPast, TypeOK
<1>4. ASSUME NEW h \in Handlers, Snapshot(h)
      PROVE  PastInv'
  <2>1. \A t \in Tenants : IsPrefix(mem.audit[t], mem.audit[t])
    BY TrailIsItsPast DEF TypeOK
  <2>. QED
    BY <1>4, <2>1 DEF Snapshot, PastInv, DiskIsPast, TypeOK
<1>5. ASSUME NEW h \in Handlers, Rename(h)
      PROVE  PastInv'
  <2>1. /\ up' = up /\ up /\ mem' = mem /\ disk' = snap[h]
        /\ snap' = [snap EXCEPT ![h] = NewMemory]
    BY <1>5 DEF Rename, Done
  <2>2. \A t \in Tenants : IsPrefix(NewMemory.audit[t], mem.audit[t])
    BY EmptyTrailIsPast DEF TypeOK
  <2>. QED
    BY <2>1, <2>2 DEF PastInv, DiskIsPast, TypeOK
<1>6. CASE Crash
  BY <1>6 DEF Crash, PastInv, DiskIsPast
<1>7. CASE Restart
  <2>1. /\ mem' = disk /\ disk' = disk /\ snap' = snap
        /\ \A h \in Handlers : snap[h] = NewMemory
    BY <1>7 DEF Restart, PastInv
  <2>2. \A t \in Tenants : /\ IsPrefix(disk.audit[t], disk.audit[t])
                            /\ IsPrefix(NewMemory.audit[t], disk.audit[t])
    BY EmptyTrailIsPast, TrailIsItsPast DEF TypeOK
  <2>. QED
    BY <1>7, <2>1, <2>2 DEF Restart, PastInv, DiskIsPast
<1>8. CASE Backup
  BY <1>8 DEF Backup, PastInv, DiskIsPast
<1>9. CASE RestoreBackup
  BY <1>9 DEF RestoreBackup, PastInv, DiskIsPast
<1>10. CASE UNCHANGED vars
  BY <1>10 DEF vars, PastInv, DiskIsPast
<1>. QED
  BY <1>1, <1>2, <1>3, <1>4, <1>5, <1>6, <1>7, <1>8, <1>9, <1>10
     DEF Next, Handle, MemoryStep

\* However handlers interleave and wherever the server crashes, what is on disk
\* is an earlier value of memory: FileRepository can lose a tail of the trails
\* and nothing else.
THEOREM DiskNeverAhead == Spec => []DiskIsPast
<1>1. Init => PastInv
  BY PastInit
<1>2. TypeOK /\ PastInv /\ [Next]_vars => PastInv'
  BY PastStep
<1>3. PastInv => DiskIsPast
  BY DEF PastInv
<1>. QED
  BY <1>1, <1>2, <1>3, TypeCorrect, PTL DEF Spec

-----------------------------------------------------------------------------
(***************************************************************************)
(* The repository implements AuditLog.                                     *)
(***************************************************************************)

LEMMA PromiseStep == TypeOK /\ PastInv /\ [Next]_vars => [Promise!Next]_(Promise!vars)
<1>. SUFFICES ASSUME TypeOK, PastInv, [Next]_vars
              PROVE  [Promise!Next]_(Promise!vars)
  OBVIOUS
<1>1. ASSUME NEW h \in Handlers, MemoryStep(h)
      PROVE  Promise!Add
  <2>1. up /\ req[h] \in Requests
    BY <1>1, MemoryStepShape
  <2>2. PICK s \in Stores, e \in Events :
           s.audit = mem.audit /\ auditLocked(h, s, req[h].tenant, e)
    BY <1>1, MemoryStepShape
  <2>3. req[h].tenant \in Tenants
    BY <2>1 DEF Requests
  <2>4. mem'.audit = [mem.audit EXCEPT ![req[h].tenant] = Append(@, e)]
    BY <2>2, <2>3, AppendEvent DEF auditLocked
  <2>. QED
    BY <2>1, <2>2, <2>3, <2>4 DEF auditLocked, Promise!Add
<1>2. ASSUME NEW h \in Handlers, Begin(h) \/ Refuse(h) \/ Abandon(h) \/ SaveFails(h) \/ Snapshot(h)
      PROVE  UNCHANGED Promise!vars
  BY <1>2 DEF Begin, Refuse, Abandon, SaveFails, Snapshot, Promise!vars
<1>3. ASSUME NEW h \in Handlers, Rename(h)
      PROVE  Promise!Persist
  <2>1. snap[h].audit \in [Tenants -> Seq(Events)]
    BY DEF TypeOK, Stores
  <2>2. /\ up /\ up' = up /\ mem' = mem /\ backup' = backup
        /\ disk' = snap[h]
    BY <1>3 DEF Rename
  <2>3. \A t \in Tenants : IsPrefix(snap[h].audit[t], mem.audit[t])
    BY <2>2 DEF PastInv, DiskIsPast
  <2>. QED
    BY <2>1, <2>2, <2>3
       DEF Promise!Persist, Promise!Trails, Promise!Behind, Promise!IsPrefix, IsPrefix
<1>4. CASE Crash
  BY <1>4 DEF Crash, Promise!Next, Promise!Stop
<1>5. CASE Restart
  BY <1>5 DEF Restart, Promise!Next, Promise!Recover
<1>6. CASE Backup
  BY <1>6 DEF Backup, Promise!Next, Promise!Copy
<1>7. CASE RestoreBackup
  BY <1>7 DEF RestoreBackup, Promise!Next, Promise!PutBack
<1>8. CASE UNCHANGED vars
  BY <1>8 DEF vars, Promise!vars
<1>. QED
  BY <1>1, <1>2, <1>3, <1>4, <1>5, <1>6, <1>7, <1>8
     DEF Next, Handle, MemoryStep, Promise!Next

\* The file-backed repository, with its handlers, failed writes, crashes and
\* restores, implements the append-only log of AuditLog.
THEOREM ImplementsPromise == Spec => ImplementsAuditLog
<1>1. Init => Promise!Init
  BY NewMemoryType DEF Init, Promise!Init, Promise!EmptyTrails
<1>2. TypeOK /\ PastInv /\ [Next]_vars => [Promise!Next]_(Promise!vars)
  BY PromiseStep
<1>3. Init => PastInv
  BY PastInit
<1>4. TypeOK /\ PastInv /\ [Next]_vars => PastInv'
  BY PastStep
<1>. QED
  BY <1>1, <1>2, <1>3, <1>4, TypeCorrect, PTL DEF Spec, ImplementsAuditLog, Promise!Spec

-----------------------------------------------------------------------------
(***************************************************************************)
(* Where a handler's own events are.  They are in memory as soon as its    *)
(* call has returned, and in its snapshot once it has taken one.           *)
(***************************************************************************)

Positions(s, t) == 1 .. Len(s.audit[t])

OwnInv ==
    \A h \in Handlers :
        /\ pc[h] = "idle" => written[h] = {}
        /\ pc[h] # "idle" => up /\ written[h] \subseteq Positions(mem, req[h].tenant)
        /\ pc[h] = "rename" => written[h] \subseteq Positions(snap[h], req[h].tenant)

LEMMA OwnInit == Init => OwnInv
BY DEF Init, OwnInv

\* Trails only grow while the server runs, so positions stay filled.
LEMMA PositionsGrow ==
    ASSUME TypeOK, NEW h \in Handlers, MemoryStep(h), NEW t \in Tenants
    PROVE  /\ Positions(mem, t) \subseteq Positions(mem, t)'
           /\ t = req[h].tenant => Len(mem.audit[t]) + 1 \in Positions(mem, t)'
<1>1. req[h] \in Requests
  BY MemoryStepShape
<1>2. PICK s \in Stores, e \in Events :
         s.audit = mem.audit /\ auditLocked(h, s, req[h].tenant, e)
  BY MemoryStepShape
<1>3. req[h].tenant \in Tenants
  BY <1>1 DEF Requests
<1>4. mem'.audit = [mem.audit EXCEPT ![req[h].tenant] = Append(@, e)]
  BY <1>2, <1>3, AppendEvent DEF auditLocked
<1>5. mem.audit \in [Tenants -> Seq(Events)]
  BY DEF TypeOK, Stores
<1>6. CASE t = req[h].tenant
  <2>1. mem'.audit[t] = Append(mem.audit[t], e)
    BY <1>3, <1>4, <1>5, <1>6
  <2>2. Len(mem'.audit[t]) = Len(mem.audit[t]) + 1 /\ Len(mem.audit[t]) \in Nat
    BY <1>5, <2>1
  <2>. QED
    BY <2>2 DEF Positions
<1>7. CASE t # req[h].tenant
  BY <1>4, <1>5, <1>7 DEF Positions
<1>. QED
  BY <1>6, <1>7

LEMMA OwnStep == TypeOK /\ OwnInv /\ [Next]_vars => OwnInv'
<1>. SUFFICES ASSUME TypeOK, OwnInv, [Next]_vars
              PROVE  OwnInv'
  OBVIOUS
<1>1. ASSUME NEW h \in Handlers, MemoryStep(h)
      PROVE  OwnInv'
  <2>1. up /\ pc[h] = "call" /\ req[h] \in Requests
    BY <1>1, MemoryStepShape
  <2>2. PICK s \in Stores, e \in Events :
           s.audit = mem.audit /\ auditLocked(h, s, req[h].tenant, e)
    BY <1>1, MemoryStepShape
  <2>3. /\ pc' = [pc EXCEPT ![h] = "snapshot"]
        /\ written' = [written EXCEPT ![h] = @ \cup {Len(mem.audit[req[h].tenant]) + 1}]
        /\ req' = req /\ snap' = snap /\ up' = up
    BY <2>2 DEF auditLocked
  <2>4. \A g \in Handlers : pc[g] # "idle" => req[g].tenant \in Tenants
    BY DEF TypeOK, Requests
  <2>5. ASSUME NEW g \in Handlers
        PROVE  /\ pc'[g] = "idle" => written'[g] = {}
               /\ pc'[g] # "idle" => up' /\ written'[g] \subseteq Positions(mem, req[g].tenant)'
               /\ pc'[g] = "rename" => written'[g] \subseteq Positions(snap[g], req[g].tenant)'
    <3>1. CASE g = h
      <4>1. /\ Positions(mem, req[h].tenant) \subseteq Positions(mem, req[h].tenant)'
            /\ Len(mem.audit[req[h].tenant]) + 1 \in Positions(mem, req[h].tenant)'
        BY <1>1, <2>1, <2>3, <2>4, PositionsGrow DEF Positions
      <4>. QED
        BY <2>1, <2>3, <3>1, <4>1 DEF OwnInv, TypeOK
    <3>2. CASE g # h
      <4>1. pc'[g] = pc[g] /\ written'[g] = written[g] /\ req'[g] = req[g] /\ snap'[g] = snap[g]
        BY <2>3, <3>2 DEF TypeOK
      <4>2. pc[g] # "idle" => Positions(mem, req[g].tenant) \subseteq Positions(mem, req[g].tenant)'
        BY <1>1, <2>3, <2>4, PositionsGrow DEF Positions
      <4>. QED
        BY <2>1, <2>3, <4>1, <4>2 DEF OwnInv, Positions
    <3>. QED
      BY <3>1, <3>2
  <2>. QED
    BY <2>5 DEF OwnInv, Positions
<1>2. ASSUME NEW h \in Handlers, Begin(h)
      PROVE  OwnInv'
  BY <1>2 DEF Begin, OwnInv, Positions, TypeOK
<1>3. ASSUME NEW h \in Handlers, Refuse(h) \/ Abandon(h) \/ SaveFails(h)
      PROVE  OwnInv'
  BY <1>3 DEF Refuse, Abandon, SaveFails, Done, OwnInv, Positions, TypeOK
<1>4. ASSUME NEW h \in Handlers, Snapshot(h)
      PROVE  OwnInv'
  BY <1>4 DEF Snapshot, OwnInv, Positions, TypeOK
<1>5. ASSUME NEW h \in Handlers, Rename(h)
      PROVE  OwnInv'
  BY <1>5 DEF Rename, Done, OwnInv, Positions, TypeOK
<1>6. CASE Crash
  BY <1>6 DEF Crash, OwnInv, Positions
<1>7. CASE Restart
  BY <1>7 DEF Restart, OwnInv, Positions
<1>8. CASE Backup
  BY <1>8 DEF Backup, OwnInv, Positions
<1>9. CASE RestoreBackup
  BY <1>9 DEF RestoreBackup, OwnInv, Positions
<1>10. CASE UNCHANGED vars
  BY <1>10 DEF vars, OwnInv, Positions
<1>. QED
  BY <1>1, <1>2, <1>3, <1>4, <1>5, <1>6, <1>7, <1>8, <1>9, <1>10
     DEF Next, Handle, MemoryStep

\* A store call that returns without an error has put the caller's own events in
\* the store file, whatever the other handlers did in between.
THEOREM OwnEventsSaved == Spec => RenameSavesOwn
<1>1. TypeOK /\ OwnInv /\ [Next]_vars =>
         [\A h \in Handlers : Rename(h) =>
             \A i \in written[h] : i \in 1 .. Len(disk'.audit[req[h].tenant])]_vars
  BY DEF OwnInv, Rename, Positions
<1>2. Init => OwnInv
  BY OwnInit
<1>3. TypeOK /\ OwnInv /\ [Next]_vars => OwnInv'
  BY OwnStep
<1>. QED
  BY <1>1, <1>2, <1>3, TypeCorrect, PTL DEF Spec, RenameSavesOwn

-----------------------------------------------------------------------------
(***************************************************************************)
(* Durability, as long as requests came one after another.  The condition  *)
(* is needed: of two requests under way the older snapshot may be renamed  *)
(* over the newer one, which the run control_store_lost_write shows.       *)
(***************************************************************************)

\* At most one handler is busy, and its snapshot is what memory holds.
FreshInv ==
    ~overlap => /\ \A g, h \in Handlers : pc[g] # "idle" /\ pc[h] # "idle" => g = h
                /\ \A h \in Handlers : pc[h] = "rename" => snap[h] = mem

LEMMA OverlapStays ==
    ASSUME TypeOK, [Next]_vars, overlap
    PROVE  overlap'
<1>1. ASSUME NEW h \in Handlers, MemoryStep(h)
      PROVE  overlap'
  <2>1. PICK s \in Stores, e \in Events : auditLocked(h, s, req[h].tenant, e)
    BY <1>1, MemoryStepShape
  <2>. QED
    BY <2>1 DEF auditLocked
<1>2. ASSUME NEW h \in Handlers, Begin(h) \/ Refuse(h) \/ Abandon(h) \/ SaveFails(h)
      PROVE  overlap'
  BY <1>2 DEF Begin, Refuse, Abandon, SaveFails
<1>3. ASSUME NEW h \in Handlers, Snapshot(h) \/ Rename(h)
      PROVE  overlap'
  BY <1>3 DEF Snapshot, Rename
<1>4. CASE Crash \/ Restart \/ Backup \/ RestoreBackup \/ UNCHANGED vars
  BY <1>4 DEF Crash, Restart, Backup, RestoreBackup, vars
<1>. QED
  BY <1>1, <1>2, <1>3, <1>4 DEF Next, Handle, MemoryStep

LEMMA FreshStep ==
    ASSUME TypeOK, OwnInv, FreshInv, [Next]_vars
    PROVE  FreshInv'
<1>. SUFFICES ASSUME ~overlap' PROVE FreshInv'
  BY DEF FreshInv
<1>1. ASSUME NEW h \in Handlers, MemoryStep(h)
      PROVE  FreshInv'
  <2>1. PICK s \in Stores, e \in Events : auditLocked(h, s, req[h].tenant, e)
    BY <1>1, MemoryStepShape
  <2>2. pc' = [pc EXCEPT ![h] = "snapshot"] /\ pc[h] = "call" /\ snap' = snap /\ ~overlap
    BY <1>1, <2>1, MemoryStepShape DEF auditLocked
  <2>. QED
    BY <2>2 DEF FreshInv, TypeOK
<1>2. ASSUME NEW h \in Handlers, Begin(h)
      PROVE  FreshInv'
  BY <1>2 DEF Begin, FreshInv, TypeOK
<1>3. ASSUME NEW h \in Handlers, Refuse(h) \/ Abandon(h) \/ SaveFails(h) \/ Rename(h)
      PROVE  FreshInv'
  <2>1. /\ pc[h] # "idle" /\ mem' = mem /\ ~overlap
        /\ \E k \in {"idle", "call"} : pc' = [pc EXCEPT ![h] = k]
        /\ snap' = [snap EXCEPT ![h] = NewMemory]
    BY <1>3 DEF Refuse, Abandon, SaveFails, Rename, Done
  <2>. QED
    BY <2>1 DEF FreshInv, TypeOK
<1>4. ASSUME NEW h \in Handlers, Snapshot(h)
      PROVE  FreshInv'
  BY <1>4 DEF Snapshot, FreshInv, TypeOK
<1>5. CASE Crash
  BY <1>5 DEF Crash, FreshInv
<1>6. CASE Backup \/ RestoreBackup \/ UNCHANGED vars
  BY <1>6 DEF Backup, RestoreBackup, vars, FreshInv
<1>7. CASE Restart
  BY <1>7 DEF Restart, FreshInv, OwnInv
<1>. QED
  BY <1>1, <1>2, <1>3, <1>4, <1>5, <1>6, <1>7 DEF Next, Handle, MemoryStep

LEMMA DurableStep ==
    ASSUME TypeOK, PastInv, OwnInv, FreshInv, Durable, [Next]_vars
    PROVE  Durable'
<1>. SUFFICES ASSUME ~overlap' PROVE AnsweredOnDisk'
  BY DEF Durable
<1>0. ~overlap /\ AnsweredOnDisk
  BY OverlapStays DEF Durable
<1>1. ASSUME NEW h \in Handlers, Rename(h)
      PROVE  AnsweredOnDisk'
  <2>. DEFINE u == req[h].tenant
  <2>1. up /\ disk' = mem /\ u \in Tenants
    BY <1>0, <1>1 DEF Rename, FreshInv, TypeOK, Requests
  <2>2. \A t \in Tenants : /\ Len(disk.audit[t]) \in Nat
                            /\ Len(mem.audit[t]) \in Nat
                            /\ Len(disk.audit[t]) <= Len(mem.audit[t])
    <3>1. \A t \in Tenants : disk.audit[t] \in Seq(Events) /\ mem.audit[t] \in Seq(Events)
      BY TrailType DEF TypeOK
    <3>. QED
      BY <2>1, <3>1 DEF PastInv, DiskIsPast, IsPrefix
  <2>3. \A a \in acked : a[1] \in Tenants /\ a[2] \in Nat
    BY DEF TypeOK
  <2>4. \A a \in acked : a[2] <= Len(mem.audit[a[1]])
    BY <1>0, <2>2, <2>3 DEF AnsweredOnDisk
  <2>5. \A i \in written[h] : i <= Len(mem.audit[u])
    BY <1>1, <2>1, <2>2 DEF Rename, OwnInv, Positions
  <2>6. \A a \in {<<u, i>> : i \in written[h]} : a[2] <= Len(mem.audit[a[1]])
    BY <2>5
  <2>7. acked' = acked \/ acked' = acked \cup {<<u, i>> : i \in written[h]}
    BY <1>1 DEF Rename
  <2>. QED
    BY <2>1, <2>4, <2>6, <2>7 DEF AnsweredOnDisk
<1>2. CASE RestoreBackup
  BY <1>2 DEF RestoreBackup, AnsweredOnDisk
<1>3. ASSUME NEW h \in Handlers, MemoryStep(h)
      PROVE  AnsweredOnDisk'
  <2>1. PICK s \in Stores, e \in Events : auditLocked(h, s, req[h].tenant, e)
    BY <1>3, MemoryStepShape
  <2>. QED
    BY <1>0, <2>1 DEF auditLocked, AnsweredOnDisk
<1>4. ASSUME NEW h \in Handlers,
             Begin(h) \/ Refuse(h) \/ Abandon(h) \/ SaveFails(h) \/ Snapshot(h)
      PROVE  AnsweredOnDisk'
  BY <1>0, <1>4 DEF Begin, Refuse, Abandon, SaveFails, Snapshot, AnsweredOnDisk
<1>5. CASE Crash \/ Restart \/ Backup \/ UNCHANGED vars
  BY <1>0, <1>5 DEF Crash, Restart, Backup, vars, AnsweredOnDisk
<1>. QED
  BY <1>1, <1>2, <1>3, <1>4, <1>5 DEF Next, Handle, MemoryStep

\* As long as requests came one after another, whatever was answered without an
\* error is on disk from then on: failed writes and crashes lose nothing of it.
THEOREM SequentialDurability == Spec => []Durable
<1>. DEFINE I == PastInv /\ OwnInv /\ FreshInv /\ Durable
<1>1. Init => I
  BY PastInit, OwnInit DEF Init, FreshInv, Durable, AnsweredOnDisk
<1>2. TypeOK /\ I /\ [Next]_vars => I'
  BY PastStep, OwnStep, FreshStep, DurableStep
<1>. QED
  BY <1>1, <1>2, TypeCorrect, PTL DEF Spec

-----------------------------------------------------------------------------
(***************************************************************************)
(* The trails explain the store.  Every operation appends one event under  *)
(* the lock that covers its change, so each store that ever exists, in     *)
(* memory or in a file, is explained by its own trails.                    *)
(***************************************************************************)

\* What Append does to the set of elements.
LEMMA AppendRange ==
    ASSUME NEW S, NEW q \in Seq(S), NEW x \in S
    PROVE  Range(Append(q, x)) = Range(q) \cup {x}
<1>1. /\ Append(q, x) \in Seq(S) /\ Len(q) \in Nat /\ Len(Append(q, x)) = Len(q) + 1
      /\ \A i \in 1 .. Len(q) : Append(q, x)[i] = q[i]
      /\ Append(q, x)[Len(q) + 1] = x
      /\ DOMAIN q = 1 .. Len(q) /\ DOMAIN Append(q, x) = 1 .. Len(q) + 1
  OBVIOUS
<1>2. 1 .. Len(q) + 1 = (1 .. Len(q)) \cup {Len(q) + 1}
  BY <1>1
<1>. QED
  BY <1>1, <1>2 DEF Range

\* Events of the store differ when their actions or objects do, and from every
\* event of a subject.
LEMMA EventsDiffer ==
    /\ \A a, b, o, p : StoreEvent(a, o) = StoreEvent(b, p) <=> a = b /\ o = p
    /\ \A a, o, r : SubjectEvent(r) # StoreEvent(a, o)
<1>1. ASSUME NEW a, NEW b, NEW o, NEW p, StoreEvent(a, o) = StoreEvent(b, p)
      PROVE  a = b /\ o = p
  <2>1. StoreEvent(a, o).action = a /\ StoreEvent(a, o).object = o
    BY DEF StoreEvent
  <2>2. StoreEvent(b, p).action = b /\ StoreEvent(b, p).object = p
    BY DEF StoreEvent
  <2>. QED
    BY <1>1, <2>1, <2>2
<1>2. ASSUME NEW a, NEW o, NEW r
      PROVE  SubjectEvent(r) # StoreEvent(a, o)
  <2>1. SubjectEvent(r).by = "subject" /\ StoreEvent(a, o).by = "store"
    BY DEF SubjectEvent, StoreEvent
  <2>. QED
    BY <2>1
<1>. QED
  BY <1>1, <1>2

\* Replaying one more event: the last registration of n is the new event, or an
\* earlier one that the new event does not undo.
LEMMA RegisteredLastGrows ==
    ASSUME NEW s \in Stores, NEW r \in Stores, NEW t \in Tenants, NEW e \in Events,
           r.audit[t] = Append(s.audit[t], e), NEW n \in Objects
    PROVE  RegisteredLast(r, t, n) <=>
               \/ e = StoreEvent("node.register", n)
               \/ RegisteredLast(s, t, n) /\ e # StoreEvent("node.retire", n)
<1>. DEFINE q == s.audit[t]
            reg == StoreEvent("node.register", n)
            ret == StoreEvent("node.retire", n)
<1>1. q \in Seq(Events)
  BY TrailType
<1>2. /\ Len(q) \in Nat /\ Len(r.audit[t]) = Len(q) + 1
      /\ \A i \in 1 .. Len(q) : r.audit[t][i] = q[i]
      /\ r.audit[t][Len(q) + 1] = e
  BY <1>1
<1>3. RegisteredLast(s, t, n) <=>
          \E i \in 1 .. Len(q) : q[i] = reg /\ \A j \in (i + 1) .. Len(q) : q[j] # ret
  BY DEF RegisteredLast
<1>4. RegisteredLast(r, t, n) <=>
          \E i \in 1 .. Len(q) + 1 :
              r.audit[t][i] = reg /\ \A j \in (i + 1) .. Len(q) + 1 : r.audit[t][j] # ret
  BY <1>2 DEF RegisteredLast
<1>. HIDE DEF q, reg, ret
<1>5. ASSUME e = reg
      PROVE  RegisteredLast(r, t, n)
  <2>1. Len(q) + 1 \in 1 .. Len(q) + 1 /\ (Len(q) + 1 + 1) .. Len(q) + 1 = {}
    BY <1>2
  <2>. QED
    BY <1>2, <1>4, <1>5, <2>1
<1>6. ASSUME RegisteredLast(s, t, n), e # ret
      PROVE  RegisteredLast(r, t, n)
  <2>1. PICK i \in 1 .. Len(q) : q[i] = reg /\ \A j \in (i + 1) .. Len(q) : q[j] # ret
    BY <1>3, <1>6
  <2>2. i \in 1 .. Len(q) + 1 /\ r.audit[t][i] = reg
    BY <1>2, <2>1
  <2>3. ASSUME NEW j \in (i + 1) .. Len(q) + 1
        PROVE  r.audit[t][j] # ret
    <3>1. CASE j = Len(q) + 1
      BY <1>2, <1>6, <3>1
    <3>2. CASE j # Len(q) + 1
      BY <1>2, <2>1, <3>2
    <3>. QED
      BY <3>1, <3>2
  <2>. QED
    BY <1>4, <2>2, <2>3
<1>7. ASSUME RegisteredLast(r, t, n), e # reg
      PROVE  RegisteredLast(s, t, n) /\ e # ret
  <2>1. PICK i \in 1 .. Len(q) + 1 :
           r.audit[t][i] = reg /\ \A j \in (i + 1) .. Len(q) + 1 : r.audit[t][j] # ret
    BY <1>4, <1>7
  <2>2. i \in 1 .. Len(q) /\ q[i] = reg
    BY <1>2, <1>7, <2>1
  <2>3. e # ret
    BY <1>2, <2>1, <2>2
  <2>4. \A j \in (i + 1) .. Len(q) : q[j] # ret
    BY <1>2, <2>1, <2>2
  <2>. QED
    BY <1>3, <2>2, <2>3, <2>4
<1>. QED
  BY <1>5, <1>6, <1>7 DEF reg, ret

Good(s) == Explained(s) /\ TenantsExist(s)

\* What r holds more or less than s, with e as the only new event, in the trail of t.
Effect(s, r, t, e) ==
    /\ r.audit = [s.audit EXCEPT ![t] = Append(@, e)]
    /\ \A u \in Tenants \ {t} :
          /\ u \in r.tenants <=> u \in s.tenants
          /\ r.devices[u] = s.devices[u] /\ r.nodes[u] = s.nodes[u]
          /\ r.policies[u] = s.policies[u] /\ r.configs[u] = s.configs[u]
          /\ r.telemetry[u] = s.telemetry[u]
    /\ t \in r.tenants <=> t \in s.tenants \/ e = StoreEvent("tenant.create", t)
    /\ \A o \in Objects :
          /\ o \in r.devices[t] <=> o \in s.devices[t] \/ e = StoreEvent("device.register", o)
          /\ o \in r.policies[t] <=> o \in s.policies[t] \/ e = StoreEvent("policy.upsert", o)
          /\ o \in r.configs[t] <=> o \in s.configs[t] \/ e = StoreEvent("config.upsert", o)
          /\ o \in Range(r.telemetry[t]) <=>
                o \in Range(s.telemetry[t]) \/ e = StoreEvent("telemetry.record", o)
          /\ r.nodes[t][o] # "absent" <=>
                \/ e = StoreEvent("node.register", o)
                \/ s.nodes[t][o] # "absent" /\ e # StoreEvent("node.retire", o)
    /\ \/ t \in r.tenants
       \/ /\ r.devices[t] = s.devices[t] /\ r.nodes[t] = s.nodes[t]
          /\ r.policies[t] = s.policies[t] /\ r.configs[t] = s.configs[t]
          /\ r.telemetry[t] = s.telemetry[t]

LEMMA EffectKeepsGood ==
    ASSUME NEW s \in Stores, NEW r \in Stores, NEW t \in Tenants, NEW e \in Events,
           Good(s), Effect(s, r, t, e)
    PROVE  Good(r)
<1>a. /\ r.audit[t] = Append(s.audit[t], e)
      /\ \A u \in Tenants \ {t} : r.audit[u] = s.audit[u]
  <2>1. s.audit \in [Tenants -> Seq(Events)]
    BY DEF Stores
  <2>. QED
    BY <2>1 DEF Effect
<1>b. Range(r.audit[t]) = Range(s.audit[t]) \cup {e}
  BY <1>a, TrailType, AppendRange
<1>c. \A o \in Objects :
          RegisteredLast(r, t, o) <=>
              \/ e = StoreEvent("node.register", o)
              \/ RegisteredLast(s, t, o) /\ e # StoreEvent("node.retire", o)
  BY <1>a, RegisteredLastGrows
<1>d. \A u \in Tenants \ {t}, o \in Objects : RegisteredLast(r, u, o) <=> RegisteredLast(s, u, o)
  BY <1>a DEF RegisteredLast
<1>1. Explained(r)
  <2>. SUFFICES ASSUME NEW u \in Tenants
                PROVE  /\ u \in r.tenants <=> StoreEvent("tenant.create", u) \in Range(r.audit[u])
                       /\ \A o \in Objects :
                            /\ o \in r.devices[u] <=> StoreEvent("device.register", o) \in Range(r.audit[u])
                            /\ o \in r.policies[u] <=> StoreEvent("policy.upsert", o) \in Range(r.audit[u])
                            /\ o \in r.configs[u] <=> StoreEvent("config.upsert", o) \in Range(r.audit[u])
                            /\ o \in Range(r.telemetry[u]) <=>
                                  StoreEvent("telemetry.record", o) \in Range(r.audit[u])
                            /\ r.nodes[u][o] # "absent" <=> RegisteredLast(r, u, o)
    BY DEF Explained
  <2>1. /\ u \in s.tenants <=> StoreEvent("tenant.create", u) \in Range(s.audit[u])
        /\ \A o \in Objects :
             /\ o \in s.devices[u] <=> StoreEvent("device.register", o) \in Range(s.audit[u])
             /\ o \in s.policies[u] <=> StoreEvent("policy.upsert", o) \in Range(s.audit[u])
             /\ o \in s.configs[u] <=> StoreEvent("config.upsert", o) \in Range(s.audit[u])
             /\ o \in Range(s.telemetry[u]) <=>
                   StoreEvent("telemetry.record", o) \in Range(s.audit[u])
             /\ s.nodes[u][o] # "absent" <=> RegisteredLast(s, u, o)
    BY DEF Good, Explained
  <2>2. CASE u = t
    BY <2>1, <2>2, <1>b, <1>c DEF Effect
  <2>3. CASE u # t
    BY <2>1, <2>3, <1>a, <1>d DEF Effect
  <2>. QED
    BY <2>2, <2>3
<1>2. TenantsExist(r)
  <2>. SUFFICES ASSUME NEW u \in Tenants \ r.tenants
                PROVE  /\ r.devices[u] = {} /\ r.policies[u] = {} /\ r.configs[u] = {}
                       /\ r.telemetry[u] = <<>>
                       /\ \A n \in Objects : r.nodes[u][n] = "absent"
    BY DEF TenantsExist
  <2>1. u \notin s.tenants
    BY DEF Effect
  <2>2. /\ r.devices[u] = s.devices[u] /\ r.nodes[u] = s.nodes[u]
        /\ r.policies[u] = s.policies[u] /\ r.configs[u] = s.configs[u]
        /\ r.telemetry[u] = s.telemetry[u]
    BY DEF Effect
  <2>. QED
    BY <2>1, <2>2 DEF Good, TenantsExist
<1>. QED
  BY <1>1, <1>2 DEF Good

\* The event of each operation is the effect it has on the store.
LEMMA MemoryStepEffect ==
    ASSUME TypeOK, NEW h \in Handlers, MemoryStep(h)
    PROVE  /\ req[h].tenant \in Tenants
           /\ \E e \in Events : Effect(mem, mem', req[h].tenant, e)
<1>. DEFINE t == req[h].tenant
            o == req[h].object
<1>1. req[h] \in Requests
  BY MemoryStepShape
<1>3. t \in Tenants /\ o \in Objects /\ req[h].action \in Actions
  BY <1>1 DEF Requests
<1>4. mem \in Stores
  BY DEF TypeOK
<1>m. /\ mem.devices \in [Tenants -> SUBSET Objects] /\ mem.policies \in [Tenants -> SUBSET Objects]
      /\ mem.configs \in [Tenants -> SUBSET Objects]
      /\ mem.nodes \in [Tenants -> [Objects -> Health]]
      /\ mem.telemetry \in [Tenants -> Seq(Objects)]
  BY <1>4 DEF Stores
<1>5. /\ \A a \in Actions : StoreEvent(a, o) \in Events
      /\ SubjectEvent(req[h]) \in Events
      /\ StoreEvent("tenant.create", t) \in Events
      /\ {"node.register", "node.heartbeat", "node.retire", "device.register", "policy.upsert",
          "config.upsert", "telemetry.record"} \subseteq Actions
  BY <1>3 DEF Events, StoreEvent, SubjectEvent, Actions, Mutations
<1>. HIDE DEF t, o
<1>6. CASE CreateTenant(h)
  <2>. DEFINE s == [mem EXCEPT !.tenants = @ \cup {t}]
              e == StoreEvent("tenant.create", t)
  <2>1. /\ s \in Stores /\ s.audit = mem.audit /\ s.tenants = mem.tenants \cup {t}
        /\ s.devices = mem.devices /\ s.nodes = mem.nodes /\ s.policies = mem.policies
        /\ s.configs = mem.configs /\ s.telemetry = mem.telemetry
    BY <1>3, <1>4 DEF Stores
  <2>2. mem' = [s EXCEPT !.audit[t] = Append(@, e)] /\ e \in Events
    BY <1>5, <1>6 DEF CreateTenant, auditLocked, t
  <2>. HIDE DEF s
  <2>3. /\ mem'.audit = [mem.audit EXCEPT ![t] = Append(@, e)]
        /\ mem'.tenants = mem.tenants \cup {t}
        /\ mem'.devices = mem.devices /\ mem'.nodes = mem.nodes /\ mem'.policies = mem.policies
        /\ mem'.configs = mem.configs /\ mem'.telemetry = mem.telemetry
    BY <1>3, <2>1, <2>2, AppendEvent
  <2>4. Effect(mem, mem', t, e)
    BY <2>3, EventsDiffer DEF Effect
  <2>. QED
    BY <1>3, <2>2, <2>4 DEF t
<1>7. CASE RegisterDevice(h)
  <2>. DEFINE s == [mem EXCEPT !.devices[t] = @ \cup {o}]
              e == StoreEvent("device.register", o)
  <2>0. s \in Stores
    BY <1>3, <1>4, ChangeField
  <2>1. /\ s.audit = mem.audit /\ s.tenants = mem.tenants
        /\ s.devices = [mem.devices EXCEPT ![t] = @ \cup {o}]
        /\ s.nodes = mem.nodes /\ s.policies = mem.policies
        /\ s.configs = mem.configs /\ s.telemetry = mem.telemetry
    BY <1>3, <1>4 DEF Stores
  <2>2. mem' = [s EXCEPT !.audit[t] = Append(@, e)] /\ e \in Events /\ t \in mem.tenants
    BY <1>5, <1>7 DEF RegisterDevice, auditLocked, t, o
  <2>. HIDE DEF s
  <2>3. /\ mem'.audit = [mem.audit EXCEPT ![t] = Append(@, e)] /\ mem'.tenants = mem.tenants
        /\ mem'.devices = [mem.devices EXCEPT ![t] = @ \cup {o}]
        /\ mem'.nodes = mem.nodes /\ mem'.policies = mem.policies
        /\ mem'.configs = mem.configs /\ mem'.telemetry = mem.telemetry
    BY <1>3, <2>0, <2>1, <2>2, AppendEvent
  <2>4. Effect(mem, mem', t, e)
    BY <1>3, <1>m, <2>2, <2>3, EventsDiffer DEF Effect
  <2>. QED
    BY <1>3, <2>2, <2>4 DEF t
<1>8. CASE UpsertPolicyRule(h)
  <2>. DEFINE s == [mem EXCEPT !.policies[t] = @ \cup {o}]
              e == StoreEvent("policy.upsert", o)
  <2>0. s \in Stores
    BY <1>3, <1>4, ChangeField
  <2>1. /\ s.audit = mem.audit /\ s.tenants = mem.tenants
        /\ s.policies = [mem.policies EXCEPT ![t] = @ \cup {o}]
        /\ s.nodes = mem.nodes /\ s.devices = mem.devices
        /\ s.configs = mem.configs /\ s.telemetry = mem.telemetry
    BY <1>3, <1>4 DEF Stores
  <2>2. mem' = [s EXCEPT !.audit[t] = Append(@, e)] /\ e \in Events /\ t \in mem.tenants
    BY <1>5, <1>8 DEF UpsertPolicyRule, auditLocked, t, o
  <2>. HIDE DEF s
  <2>3. /\ mem'.audit = [mem.audit EXCEPT ![t] = Append(@, e)] /\ mem'.tenants = mem.tenants
        /\ mem'.policies = [mem.policies EXCEPT ![t] = @ \cup {o}]
        /\ mem'.nodes = mem.nodes /\ mem'.devices = mem.devices
        /\ mem'.configs = mem.configs /\ mem'.telemetry = mem.telemetry
    BY <1>3, <2>0, <2>1, <2>2, AppendEvent
  <2>4. Effect(mem, mem', t, e)
    BY <1>3, <1>m, <2>2, <2>3, EventsDiffer DEF Effect
  <2>. QED
    BY <1>3, <2>2, <2>4 DEF t
<1>9. CASE UpsertConfig(h)
  <2>. DEFINE s == [mem EXCEPT !.configs[t] = @ \cup {o}]
              e == StoreEvent("config.upsert", o)
  <2>0. s \in Stores
    BY <1>3, <1>4, ChangeField
  <2>1. /\ s.audit = mem.audit /\ s.tenants = mem.tenants
        /\ s.configs = [mem.configs EXCEPT ![t] = @ \cup {o}]
        /\ s.nodes = mem.nodes /\ s.devices = mem.devices
        /\ s.policies = mem.policies /\ s.telemetry = mem.telemetry
    BY <1>3, <1>4 DEF Stores
  <2>2. mem' = [s EXCEPT !.audit[t] = Append(@, e)] /\ e \in Events /\ t \in mem.tenants
    BY <1>5, <1>9 DEF UpsertConfig, auditLocked, t, o
  <2>. HIDE DEF s
  <2>3. /\ mem'.audit = [mem.audit EXCEPT ![t] = Append(@, e)] /\ mem'.tenants = mem.tenants
        /\ mem'.configs = [mem.configs EXCEPT ![t] = @ \cup {o}]
        /\ mem'.nodes = mem.nodes /\ mem'.devices = mem.devices
        /\ mem'.policies = mem.policies /\ mem'.telemetry = mem.telemetry
    BY <1>3, <2>0, <2>1, <2>2, AppendEvent
  <2>4. Effect(mem, mem', t, e)
    BY <1>3, <1>m, <2>2, <2>3, EventsDiffer DEF Effect
  <2>. QED
    BY <1>3, <2>2, <2>4 DEF t
<1>10. CASE RecordTelemetry(h)
  <2>. DEFINE s == [mem EXCEPT !.telemetry[t] = Append(@, o)]
              e == StoreEvent("telemetry.record", o)
  <2>0. s \in Stores
    BY <1>3, <1>4, ChangeField
  <2>1. /\ s.audit = mem.audit /\ s.tenants = mem.tenants
        /\ s.telemetry = [mem.telemetry EXCEPT ![t] = Append(@, o)]
        /\ s.nodes = mem.nodes /\ s.devices = mem.devices
        /\ s.policies = mem.policies /\ s.configs = mem.configs
    BY <1>3, <1>4 DEF Stores
  <2>2. mem' = [s EXCEPT !.audit[t] = Append(@, e)] /\ e \in Events /\ t \in mem.tenants
    BY <1>5, <1>10 DEF RecordTelemetry, auditLocked, t, o
  <2>. HIDE DEF s
  <2>3. /\ mem'.audit = [mem.audit EXCEPT ![t] = Append(@, e)] /\ mem'.tenants = mem.tenants
        /\ mem'.telemetry = [mem.telemetry EXCEPT ![t] = Append(@, o)]
        /\ mem'.nodes = mem.nodes /\ mem'.devices = mem.devices
        /\ mem'.policies = mem.policies /\ mem'.configs = mem.configs
    BY <1>3, <2>0, <2>1, <2>2, AppendEvent
  <2>4. /\ mem'.telemetry[t] = Append(mem.telemetry[t], o)
        /\ \A u \in Tenants \ {t} : mem'.telemetry[u] = mem.telemetry[u]
    BY <1>3, <1>m, <2>3
  <2>5. Range(mem'.telemetry[t]) = Range(mem.telemetry[t]) \cup {o}
    BY <1>3, <1>m, <2>4, AppendRange
  <2>6. Effect(mem, mem', t, e)
    BY <1>3, <2>2, <2>3, <2>4, <2>5, EventsDiffer DEF Effect
  <2>. QED
    BY <1>3, <2>2, <2>6 DEF t
<1>11. ASSUME NEW k \in {"absent", "healthy", "unhealthy"}, NEW e \in Events, t \in mem.tenants,
              auditLocked(h, [mem EXCEPT !.nodes[t][o] = k], t, e),
              \/ e = StoreEvent("node.register", o) /\ k # "absent"
              \/ e = StoreEvent("node.heartbeat", o) /\ k # "absent" /\ mem.nodes[t][o] # "absent"
              \/ e = StoreEvent("node.retire", o) /\ k = "absent"
       PROVE  Effect(mem, mem', t, e)
  <2>. DEFINE s == [mem EXCEPT !.nodes[t][o] = k]
  <2>0. s \in Stores
    BY <1>3, <1>4, ChangeField
  <2>1. /\ s.audit = mem.audit /\ s.tenants = mem.tenants
        /\ s.nodes = [mem.nodes EXCEPT ![t][o] = k]
        /\ s.telemetry = mem.telemetry /\ s.devices = mem.devices
        /\ s.policies = mem.policies /\ s.configs = mem.configs
    BY <1>3, <1>4 DEF Stores
  <2>2. mem' = [s EXCEPT !.audit[t] = Append(@, e)]
    BY <1>11 DEF auditLocked
  <2>. HIDE DEF s
  <2>3. /\ mem'.audit = [mem.audit EXCEPT ![t] = Append(@, e)] /\ mem'.tenants = mem.tenants
        /\ mem'.nodes = [mem.nodes EXCEPT ![t][o] = k]
        /\ mem'.telemetry = mem.telemetry /\ mem'.devices = mem.devices
        /\ mem'.policies = mem.policies /\ mem'.configs = mem.configs
    BY <1>3, <1>11, <2>0, <2>1, <2>2, AppendEvent
  <2>4. /\ mem'.nodes[t][o] = k
        /\ \A p \in Objects \ {o} : mem'.nodes[t][p] = mem.nodes[t][p]
        /\ \A u \in Tenants \ {t} : mem'.nodes[u] = mem.nodes[u]
    BY <1>3, <1>m, <2>3
  <2>. QED
    BY <1>3, <1>11, <2>3, <2>4, EventsDiffer DEF Effect
<1>12. CASE RegisterNode(h) \/ RecordNodeHeartbeat(h)
  <2>1. PICK k \in {"healthy", "unhealthy"}, a \in {"node.register", "node.heartbeat"} :
           /\ auditLocked(h, [mem EXCEPT !.nodes[t][o] = k], t, StoreEvent(a, o))
           /\ t \in mem.tenants
           /\ a = "node.heartbeat" => mem.nodes[t][o] # "absent"
    BY <1>12 DEF RegisterNode, RecordNodeHeartbeat, t, o
  <2>2. Effect(mem, mem', t, StoreEvent(a, o)) /\ StoreEvent(a, o) \in Events
    BY <1>5, <1>11, <2>1
  <2>. QED
    BY <1>3, <2>2 DEF t
<1>13. CASE RetireNode(h)
  <2>1. /\ auditLocked(h, [mem EXCEPT !.nodes[t][o] = "absent"], t, StoreEvent("node.retire", o))
        /\ t \in mem.tenants
    BY <1>13 DEF RetireNode, t, o
  <2>2. Effect(mem, mem', t, StoreEvent("node.retire", o)) /\ StoreEvent("node.retire", o) \in Events
    BY <1>5, <1>11, <2>1
  <2>. QED
    BY <1>3, <2>2 DEF t
<1>14. CASE RecordAuditEvent(h)
  <2>. DEFINE e == SubjectEvent(req[h])
  <2>1. mem' = [mem EXCEPT !.audit[t] = Append(@, e)] /\ e \in Events
    BY <1>5, <1>14 DEF RecordAuditEvent, auditLocked, t
  <2>2. /\ mem'.audit = [mem.audit EXCEPT ![t] = Append(@, e)] /\ mem'.tenants = mem.tenants
        /\ mem'.nodes = mem.nodes /\ mem'.telemetry = mem.telemetry /\ mem'.devices = mem.devices
        /\ mem'.policies = mem.policies /\ mem'.configs = mem.configs
    BY <1>3, <1>4, <2>1, AppendEvent
  <2>3. Effect(mem, mem', t, e)
    BY <2>2, EventsDiffer DEF Effect
  <2>. QED
    BY <1>3, <2>1, <2>3 DEF t
<1>. QED
  BY <1>6, <1>7, <1>8, <1>9, <1>10, <1>12, <1>13, <1>14 DEF MemoryStep

GoodInv ==
    /\ Good(mem) /\ Good(disk) /\ Good(backup)
    /\ \A h \in Handlers : Good(snap[h])

LEMMA NewMemoryGood == Good(NewMemory)
<1>1. /\ NewMemory.tenants = {} /\ NewMemory.audit = [t \in Tenants |-> <<>>]
      /\ NewMemory.devices = [t \in Tenants |-> {}]
      /\ NewMemory.nodes = [t \in Tenants |-> [n \in Objects |-> "absent"]]
      /\ NewMemory.policies = [t \in Tenants |-> {}]
      /\ NewMemory.configs = [t \in Tenants |-> {}]
      /\ NewMemory.telemetry = [t \in Tenants |-> <<>>]
  BY DEF NewMemory
<1>2. Range(<<>>) = {}
  BY DEF Range
<1>3. \A t \in Tenants, n \in Objects : ~RegisteredLast(NewMemory, t, n)
  BY <1>1 DEF RegisteredLast
<1>4. Explained(NewMemory)
  BY <1>1, <1>2, <1>3 DEF Explained
<1>5. TenantsExist(NewMemory)
  BY <1>1 DEF TenantsExist
<1>. QED
  BY <1>4, <1>5 DEF Good

LEMMA GoodStep == TypeOK /\ GoodInv /\ [Next]_vars => GoodInv'
<1>. SUFFICES ASSUME TypeOK, GoodInv, [Next]_vars PROVE GoodInv'
  OBVIOUS
<1>1. ASSUME NEW h \in Handlers, MemoryStep(h)
      PROVE  GoodInv'
  <2>1. PICK s \in Stores, e \in Events : auditLocked(h, s, req[h].tenant, e)
    BY <1>1, MemoryStepShape
  <2>2. UNCHANGED <<disk, backup, snap>>
    BY <2>1 DEF auditLocked
  <2>3. mem \in Stores /\ mem' \in Stores
    BY TypeStep DEF TypeOK
  <2>4. Good(mem')
    BY <1>1, <2>3, MemoryStepEffect, EffectKeepsGood DEF GoodInv
  <2>. QED
    BY <2>2, <2>4 DEF GoodInv
<1>2. ASSUME NEW h \in Handlers, Begin(h)
      PROVE  GoodInv'
  BY <1>2 DEF Begin, GoodInv
<1>3. ASSUME NEW h \in Handlers, Refuse(h) \/ Abandon(h) \/ SaveFails(h) \/ Rename(h)
      PROVE  GoodInv'
  <2>1. /\ snap' = [snap EXCEPT ![h] = NewMemory] /\ UNCHANGED <<mem, backup>>
        /\ disk' \in {disk, snap[h]}
    BY <1>3 DEF Refuse, Abandon, SaveFails, Rename, Done
  <2>. QED
    BY <2>1, NewMemoryGood DEF GoodInv, TypeOK
<1>4. ASSUME NEW h \in Handlers, Snapshot(h)
      PROVE  GoodInv'
  BY <1>4 DEF Snapshot, GoodInv, TypeOK
<1>5. CASE Crash
  BY <1>5, NewMemoryGood DEF Crash, GoodInv
<1>6. CASE Restart \/ Backup \/ RestoreBackup \/ UNCHANGED vars
  BY <1>6 DEF Restart, Backup, RestoreBackup, vars, GoodInv
<1>. QED
  BY <1>1, <1>2, <1>3, <1>4, <1>5, <1>6 DEF Next, Handle, MemoryStep

\* In memory, in the store file, in a backup and in every snapshot, the audit trails
\* replay to exactly what is there: no interleaving of handlers, failed write, crash or
\* restore separates a change from the event auditLocked wrote for it.
THEOREM TrailsExplain == Spec => []TrailExplainsStore
<1>1. Init => GoodInv
  BY NewMemoryGood DEF Init, GoodInv
<1>2. TypeOK /\ GoodInv /\ [Next]_vars => GoodInv'
  BY GoodStep
<1>3. GoodInv => TrailExplainsStore
  BY DEF GoodInv, Good, TrailExplainsStore
<1>. QED
  BY <1>1, <1>2, <1>3, TypeCorrect, PTL DEF Spec

=============================================================================
