---------------------------- MODULE ControlStore ----------------------------
(***************************************************************************)
(* The control plane's repository (internal/store) under concurrent HTTP   *)
(* handlers (internal/control).                                            *)
(*                                                                         *)
(* store.Memory keeps tenants, devices, nodes, policies, configurations,   *)
(* telemetry and audit events behind one mutex.  store.FileRepository adds *)
(* durability: after the locked Memory operation has returned it takes a   *)
(* snapshot under the read lock and renames a temporary file over the      *)
(* store file.  The three steps (operation, snapshot, rename) share no     *)
(* lock, so other handlers run between any two of them.                    *)
(*                                                                         *)
(* A mutating handler makes two such calls one after the other: the        *)
(* operation and then RecordAuditEvent, with the acting subject.  Either   *)
(* can fail: the request's context may be done, or the file write may      *)
(* fail.  The server may crash at any point and starts again from the file *)
(* on disk.                                                                *)
(***************************************************************************)
EXTENDS Naturals, Sequences, SequencesExt, FiniteSets

CONSTANTS Tenants,      \* tenant identifiers
          Objects,      \* identifiers of devices, nodes, rules, bundles and subjects
          Handlers,     \* HTTP handler goroutines
          MaxRequests,  \* bound: requests that are begun
          MaxCrashes,   \* bound: crashes of the server
          MaxBackups    \* bound: backups that are written

ASSUME BoundsAssumption ==
    MaxRequests \in Nat /\ MaxCrashes \in Nat /\ MaxBackups \in Nat

VARIABLES mem,       \* store.Memory of the running server
          disk,      \* the store file (a missing file reads as the empty store)
          backup,    \* the backup file, if one was written (the empty store before)
          up,        \* the server process is running
          pc,        \* pc[h]: the step handler h is about to take
          phase,     \* phase[h]: which of its two store calls h is in
          req,       \* req[h]: the request h is serving
          snap,      \* snap[h]: the snapshot h is writing to its temporary file
          written,   \* written[h]: trail positions of the events h has appended
          acked,     \* history: trail positions of requests answered without an error
          begun,     \* number of requests begun (bounded by MaxRequests)
          crashes,   \* number of crashes (bounded by MaxCrashes)
          backups,   \* number of backups written (bounded by MaxBackups)
          overlap    \* history: two requests have been under way at the same time

vars == <<mem, disk, backup, up, pc, phase, req, snap, written, acked, begun, crashes, backups,
          overlap>>

-----------------------------------------------------------------------------
(***************************************************************************)
(* Data.  An audit event keeps who wrote it: the store itself, inside the  *)
(* locked operation (auditLocked), or a handler, for the acting subject.   *)
(***************************************************************************)

Mutations == {"tenant.create", "device.register", "node.register", "node.heartbeat",
              "node.retire", "telemetry.record", "policy.upsert", "config.upsert"}

Actions == Mutations \cup {"auth.denied"}

Events == [by : {"store", "subject"}, action : Actions, object : Objects \cup Tenants]

\* nodes[t][n]: a registered node is healthy or not; "absent" is no map entry.
Health == {"absent", "healthy", "unhealthy"}

Stores ==
    [tenants   : SUBSET Tenants,
     devices   : [Tenants -> SUBSET Objects],
     nodes     : [Tenants -> [Objects -> Health]],
     policies  : [Tenants -> SUBSET Objects],
     configs   : [Tenants -> SUBSET Objects],
     telemetry : [Tenants -> Seq(Objects)],
     audit     : [Tenants -> Seq(Events)]]

NewMemory ==
    [tenants   |-> {},
     devices   |-> [t \in Tenants |-> {}],
     nodes     |-> [t \in Tenants |-> [n \in Objects |-> "absent"]],
     policies  |-> [t \in Tenants |-> {}],
     configs   |-> [t \in Tenants |-> {}],
     telemetry |-> [t \in Tenants |-> <<>>],
     audit     |-> [t \in Tenants |-> <<>>]]

Requests == [action : Actions, tenant : Tenants, object : Objects]

NoRequest == [action |-> "none"]

StoreEvent(a, o) == [by |-> "store", action |-> a, object |-> o]

SubjectEvent(r) ==
    [by |-> "subject", action |-> r.action,
     object |-> IF r.action = "tenant.create" THEN r.tenant ELSE r.object]

-----------------------------------------------------------------------------
(***************************************************************************)
(* Handlers.                                                               *)
(***************************************************************************)

Init ==
    /\ mem = NewMemory
    /\ disk = NewMemory
    /\ backup = NewMemory
    /\ up = TRUE
    /\ pc = [h \in Handlers |-> "idle"]
    /\ phase = [h \in Handlers |-> "operation"]
    /\ req = [h \in Handlers |-> NoRequest]
    /\ snap = [h \in Handlers |-> NewMemory]
    /\ written = [h \in Handlers |-> {}]
    /\ acked = {}
    /\ begun = 0
    /\ crashes = 0
    /\ backups = 0
    /\ overlap = FALSE

\* The answer is written and the goroutine ends, whatever the answer is.
Done(h) ==
    /\ pc' = [pc EXCEPT ![h] = "idle"]
    /\ phase' = [phase EXCEPT ![h] = "operation"]
    /\ req' = [req EXCEPT ![h] = NoRequest]
    /\ snap' = [snap EXCEPT ![h] = NewMemory]
    /\ written' = [written EXCEPT ![h] = {}]

\* Routing, decoding and authorization have succeeded, and the store operation
\* is next; or authorization failed, and the denial is to be recorded.  A
\* request that is malformed or carries no subject changes nothing.
Begin(h) ==
    /\ up
    /\ pc[h] = "idle"
    /\ begun < MaxRequests
    /\ begun' = begun + 1
    /\ \E r \in Requests :
          /\ req' = [req EXCEPT ![h] = r]
          /\ phase' = [phase EXCEPT ![h] = IF r.action = "auth.denied"
                                           THEN "audit" ELSE "operation"]
    /\ pc' = [pc EXCEPT ![h] = "call"]
    /\ overlap' = (overlap \/ \E g \in Handlers : pc[g] # "idle")
    /\ UNCHANGED <<mem, disk, backup, up, snap, written, acked, crashes, backups>>

\* Handler h is at the store operation of a request for action a.
Calls(h, a) ==
    /\ up
    /\ pc[h] = "call"
    /\ phase[h] = "operation"
    /\ req[h].action = a

\* A Memory operation: the store becomes s, and an audit event is appended to
\* the trail of tenant t under the same lock (auditLocked).
auditLocked(h, s, t, e) ==
    /\ mem' = [s EXCEPT !.audit[t] = Append(@, e)]
    /\ written' = [written EXCEPT ![h] = @ \cup {Len(s.audit[t]) + 1}]
    /\ pc' = [pc EXCEPT ![h] = "snapshot"]
    /\ UNCHANGED <<disk, backup, up, phase, req, snap, acked, begun, crashes, backups, overlap>>

CreateTenant(h) ==
    LET t == req[h].tenant IN
    /\ Calls(h, "tenant.create")
    /\ t \notin mem.tenants
    /\ auditLocked(h, [mem EXCEPT !.tenants = @ \cup {t}], t,
                   StoreEvent("tenant.create", t))

RegisterDevice(h) ==
    LET t == req[h].tenant
        d == req[h].object IN
    /\ Calls(h, "device.register")
    /\ t \in mem.tenants
    /\ auditLocked(h, [mem EXCEPT !.devices[t] = @ \cup {d}], t,
                   StoreEvent("device.register", d))

\* Registration is an upsert: a node that is already there is overwritten.
RegisterNode(h) ==
    LET t == req[h].tenant
        n == req[h].object IN
    /\ Calls(h, "node.register")
    /\ t \in mem.tenants
    /\ \E healthy \in {"healthy", "unhealthy"} :
          auditLocked(h, [mem EXCEPT !.nodes[t][n] = healthy], t,
                      StoreEvent("node.register", n))

RecordNodeHeartbeat(h) ==
    LET t == req[h].tenant
        n == req[h].object IN
    /\ Calls(h, "node.heartbeat")
    /\ t \in mem.tenants
    /\ mem.nodes[t][n] # "absent"
    /\ \E healthy \in {"healthy", "unhealthy"} :
          auditLocked(h, [mem EXCEPT !.nodes[t][n] = healthy], t,
                      StoreEvent("node.heartbeat", n))

\* Mutant of RetireNode: the node is deleted without an audit event.
RetireNodeSilently(h) ==
    LET t == req[h].tenant
        n == req[h].object IN
    /\ Calls(h, "node.retire")
    /\ t \in mem.tenants
    /\ mem.nodes[t][n] # "absent"
    /\ mem' = [mem EXCEPT !.nodes[t][n] = "absent"]
    /\ pc' = [pc EXCEPT ![h] = "snapshot"]
    /\ UNCHANGED <<disk, backup, up, phase, req, snap, written, acked, begun, crashes, backups, overlap>>

RetireNode(h) ==
    LET t == req[h].tenant
        n == req[h].object IN
    /\ Calls(h, "node.retire")
    /\ t \in mem.tenants
    /\ mem.nodes[t][n] # "absent"
    /\ auditLocked(h, [mem EXCEPT !.nodes[t][n] = "absent"], t,
                   StoreEvent("node.retire", n))

RecordTelemetry(h) ==
    LET t == req[h].tenant
        o == req[h].object IN
    /\ Calls(h, "telemetry.record")
    /\ t \in mem.tenants
    /\ auditLocked(h, [mem EXCEPT !.telemetry[t] = Append(@, o)], t,
                   StoreEvent("telemetry.record", o))

UpsertPolicyRule(h) ==
    LET t == req[h].tenant
        o == req[h].object IN
    /\ Calls(h, "policy.upsert")
    /\ t \in mem.tenants
    /\ auditLocked(h, [mem EXCEPT !.policies[t] = @ \cup {o}], t,
                   StoreEvent("policy.upsert", o))

UpsertConfig(h) ==
    LET t == req[h].tenant
        o == req[h].object IN
    /\ Calls(h, "config.upsert")
    /\ t \in mem.tenants
    /\ auditLocked(h, [mem EXCEPT !.configs[t] = @ \cup {o}], t,
                   StoreEvent("config.upsert", o))

\* Mutant of RecordAuditEvent: the event takes the place of the latest one.
RecordAuditEventInPlace(h) ==
    LET t == req[h].tenant
        n == Len(mem.audit[t])
        e == SubjectEvent(req[h]) IN
    /\ up
    /\ pc[h] = "call"
    /\ phase[h] = "audit"
    /\ n > 0
    /\ mem' = [mem EXCEPT !.audit[t][n] = e]
    /\ pc' = [pc EXCEPT ![h] = "snapshot"]
    /\ UNCHANGED <<disk, backup, up, phase, req, snap, written, acked, begun, crashes, backups, overlap>>

\* The second store call of a handler, or the only one of a denied request.
\* It does not ask whether the tenant exists.
RecordAuditEvent(h) ==
    /\ up
    /\ pc[h] = "call"
    /\ phase[h] = "audit"
    /\ auditLocked(h, mem, req[h].tenant, SubjectEvent(req[h]))

\* The operation is refused because of what the store holds: 400, no change.
Refused(r) ==
    CASE r.action = "tenant.create" -> r.tenant \in mem.tenants
      [] r.action \in {"node.heartbeat", "node.retire"} ->
            r.tenant \notin mem.tenants \/ mem.nodes[r.tenant][r.object] = "absent"
      [] OTHER -> r.tenant \notin mem.tenants

Refuse(h) ==
    /\ up
    /\ pc[h] = "call"
    /\ phase[h] = "operation"
    /\ Refused(req[h])
    /\ Done(h)
    /\ UNCHANGED <<mem, disk, backup, up, acked, begun, crashes, backups, overlap>>

\* The request's context is done when a store call starts: an error before any
\* change.  In the second call the operation has taken effect already.
Abandon(h) ==
    /\ up
    /\ pc[h] = "call"
    /\ Done(h)
    /\ UNCHANGED <<mem, disk, backup, up, acked, begun, crashes, backups, overlap>>

\* save(), first half: Memory.Snapshot under the read lock.
Snapshot(h) ==
    /\ up
    /\ pc[h] = "snapshot"
    /\ snap' = [snap EXCEPT ![h] = mem]
    /\ pc' = [pc EXCEPT ![h] = "rename"]
    /\ UNCHANGED <<mem, disk, backup, up, phase, req, written, acked, begun, crashes, backups, overlap>>

\* save(), second half: the temporary file is renamed over the store file.  After
\* the operation's save the handler goes on to record the subject's event, unless
\* it is the telemetry handler, which has no second call.
Rename(h) ==
    /\ up
    /\ pc[h] = "rename"
    /\ disk' = snap[h]
    /\ IF phase[h] = "operation" /\ req[h].action # "telemetry.record"
       THEN /\ phase' = [phase EXCEPT ![h] = "audit"]
            /\ pc' = [pc EXCEPT ![h] = "call"]
            /\ snap' = [snap EXCEPT ![h] = NewMemory]
            /\ UNCHANGED <<req, written, acked>>
       ELSE /\ acked' = acked \cup {<<req[h].tenant, i>> : i \in written[h]}
            /\ Done(h)
    /\ UNCHANGED <<mem, backup, up, begun, crashes, backups, overlap>>

\* Mutant of SaveFails: the write error is dropped and the answer is a success.
SaveFailsSilently(h) ==
    /\ up
    /\ pc[h] = "rename"
    /\ acked' = acked \cup {<<req[h].tenant, i>> : i \in written[h]}
    /\ Done(h)
    /\ UNCHANGED <<mem, disk, backup, up, begun, crashes, backups, overlap>>

\* The temporary file cannot be created, written or renamed: the store file is
\* as it was, the client gets an error, and memory keeps the change.
SaveFails(h) ==
    /\ up
    /\ pc[h] = "rename"
    /\ Done(h)
    /\ UNCHANGED <<mem, disk, backup, up, acked, begun, crashes, backups, overlap>>

-----------------------------------------------------------------------------
(***************************************************************************)
(* The process and the maintenance commands of anix-control.               *)
(***************************************************************************)

Crash ==
    /\ up
    /\ crashes < MaxCrashes
    /\ crashes' = crashes + 1
    /\ up' = FALSE
    /\ pc' = [h \in Handlers |-> "idle"]
    /\ phase' = [h \in Handlers |-> "operation"]
    /\ req' = [h \in Handlers |-> NoRequest]
    /\ snap' = [h \in Handlers |-> NewMemory]
    /\ written' = [h \in Handlers |-> {}]
    /\ UNCHANGED <<mem, disk, backup, acked, begun, backups, overlap>>

\* Mutant of Restart: a load error is taken for a missing file.
RestartEmpty ==
    /\ ~up
    /\ up' = TRUE
    /\ mem' = NewMemory
    /\ UNCHANGED <<disk, backup, pc, phase, req, snap, written, acked, begun, crashes, backups, overlap>>

\* NewFileRepository: the memory of the new process is what the file holds.
Restart ==
    /\ ~up
    /\ up' = TRUE
    /\ mem' = disk
    /\ UNCHANGED <<disk, backup, pc, phase, req, snap, written, acked, begun, crashes, backups, overlap>>

\* --store-backup-file: another process loads the store file and writes a copy.  The
\* bounds leave out a backup that no crash can follow (it is never restored) and
\* one of what the last backup, or the empty store before it, holds already.
Backup ==
    /\ backups < MaxBackups
    /\ crashes < MaxCrashes
    /\ disk # backup
    /\ backups' = backups + 1
    /\ backup' = disk
    /\ UNCHANGED <<mem, disk, up, pc, phase, req, snap, written, acked, begun, crashes, overlap>>

\* --store-restore-file, with the server down.  The operator gives up what was
\* acknowledged after the backup.
RestoreBackup ==
    /\ ~up
    /\ backups > 0
    /\ disk' = backup
    /\ acked' = {}
    /\ UNCHANGED <<mem, backup, up, pc, phase, req, snap, written, begun, crashes, backups, overlap>>

Handle(h) ==
    \/ Begin(h)
    \/ CreateTenant(h)
    \/ RegisterDevice(h)
    \/ RegisterNode(h)
    \/ RecordNodeHeartbeat(h)
    \/ RetireNode(h)
    \/ RecordTelemetry(h)
    \/ UpsertPolicyRule(h)
    \/ UpsertConfig(h)
    \/ RecordAuditEvent(h)
    \/ Refuse(h)
    \/ Abandon(h)
    \/ Snapshot(h)
    \/ Rename(h)
    \/ SaveFails(h)

Next ==
    \/ \E h \in Handlers : Handle(h)
    \/ Crash
    \/ Restart
    \/ Backup
    \/ RestoreBackup

Spec == Init /\ [][Next]_vars

-----------------------------------------------------------------------------
(***************************************************************************)
(* Properties.                                                             *)
(***************************************************************************)

\* Every variable has its type.
TypeOK ==
    /\ mem \in Stores
    /\ disk \in Stores
    /\ backup \in Stores
    /\ up \in BOOLEAN
    /\ pc \in [Handlers -> {"idle", "call", "snapshot", "rename"}]
    /\ phase \in [Handlers -> {"operation", "audit"}]
    /\ req \in [Handlers -> Requests \cup {NoRequest}]
    /\ \A h \in Handlers : pc[h] # "idle" => req[h] \in Requests
    /\ snap \in [Handlers -> Stores]
    /\ written \in [Handlers -> SUBSET (Nat \ {0})]
    /\ acked \subseteq Tenants \X (Nat \ {0})
    /\ begun \in 0 .. MaxRequests
    /\ crashes \in 0 .. MaxCrashes
    /\ backups \in 0 .. MaxBackups
    /\ overlap \in BOOLEAN

\* The last of the register and retire events of node n is a registration.
RegisteredLast(s, t, n) ==
    \E i \in 1 .. Len(s.audit[t]) :
        /\ s.audit[t][i] = StoreEvent("node.register", n)
        /\ \A j \in (i + 1) .. Len(s.audit[t]) : s.audit[t][j] # StoreEvent("node.retire", n)

\* The trails of s account for everything s holds, and for nothing more.
Explained(s) ==
    \A t \in Tenants :
        LET recorded == Range(s.audit[t]) IN
        /\ t \in s.tenants <=> StoreEvent("tenant.create", t) \in recorded
        /\ \A o \in Objects :
            /\ o \in s.devices[t] <=> StoreEvent("device.register", o) \in recorded
            /\ o \in s.policies[t] <=> StoreEvent("policy.upsert", o) \in recorded
            /\ o \in s.configs[t] <=> StoreEvent("config.upsert", o) \in recorded
            /\ o \in Range(s.telemetry[t]) <=> StoreEvent("telemetry.record", o) \in recorded
            /\ s.nodes[t][o] # "absent" <=> RegisteredLast(s, t, o)

\* Nothing is kept for a tenant that does not exist.
TenantsExist(s) ==
    \A t \in Tenants \ s.tenants :
        /\ s.devices[t] = {} /\ s.policies[t] = {} /\ s.configs[t] = {}
        /\ s.telemetry[t] = <<>>
        /\ \A n \in Objects : s.nodes[t][n] = "absent"

\* In memory, on disk, in a backup and in every snapshot on its way to disk, the
\* events the store wrote under its lock (auditLocked) replay to exactly the
\* devices, nodes, rules, bundles and reports that are there, and every object
\* belongs to a tenant that exists: no interleaving of handlers, failed write,
\* crash or restore separates a change from its audit record.
TrailExplainsStore ==
    \A s \in {mem, disk, backup} \cup {snap[h] : h \in Handlers} :
        Explained(s) /\ TenantsExist(s)

\* While the server runs, the store file and every snapshot on its way to disk
\* are an earlier value of memory: each trail is an initial part of the one in
\* memory, so a crash can only drop the latest events and never splices two
\* histories (saveSnapshot replaces the whole file by one rename).
DiskIsPast ==
    up => \A t \in Tenants :
             /\ IsPrefix(disk.audit[t], mem.audit[t])
             /\ \A h \in Handlers : IsPrefix(snap[h].audit[t], mem.audit[t])

\* A FileRepository call that returns without an error has put the caller's own
\* events on disk: the snapshot is taken after the change, not before it.
RenameSavesOwn ==
    [][\A h \in Handlers : Rename(h) =>
          \A i \in written[h] : i \in 1 .. Len(disk'.audit[req[h].tenant])]_vars

\* Everything that was answered without an error is on disk.
AnsweredOnDisk == \A a \in acked : a[2] <= Len(disk.audit[a[1]])

\* As long as requests came one after another, a request that was answered without
\* an error stays on disk, through failed writes, crashes and restarts (save).
Durable == ~overlap => AnsweredOnDisk

\* What was answered without an error survives a crash of the idle server, whether
\* requests overlapped or not.
DurableAtRest == (\A h \in Handlers : pc[h] = "idle") => AnsweredOnDisk

\* The repository implements the promise in AuditLog.
Promise == INSTANCE AuditLog WITH log <- mem.audit, stable <- disk.audit,
                                  archive <- backup.audit, up <- up

\* Seen through its audit trails, the repository is an append-only log whose
\* stable part is always an initial part of it, crashes and restores included.
ImplementsAuditLog == Promise!Spec

=============================================================================
