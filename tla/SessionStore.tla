---------------------------- MODULE SessionStore ----------------------------
(***************************************************************************)
(* Bearer sessions of the control plane: password and OIDC logins, session *)
(* renewal and logout (server.go), the session map with its file           *)
(* (FileSessionStore) and the authorization of tenant requests.            *)
(*                                                                         *)
(* A handler changes the map under its lock and saves after it has let go  *)
(* of it: the snapshot and the rename of the file are steps of their own,  *)
(* so saves of two handlers overlap.  An audit event goes the same way     *)
(* through the repository (FileRepository) and its file: into memory, then *)
(* a snapshot, then a rename.  Every save may fail, and the process may    *)
(* crash between any two steps.                                            *)
(***************************************************************************)
EXTENDS Integers

CONSTANTS Subjects,       \* records [id, tenant, roles]
          PasswordUsers,  \* PasswordAuthenticator.users: the subjects with a password
          IDTokens,       \* OIDC tokens: [signed, forUs, subject, exp, nbf]
          Certificates,   \* peer certificates: [subject, notBefore, notAfter]
          HeaderSubjects, \* subjects that X-Actor-ID, X-Tenant-ID and X-Roles name
          Handlers,       \* requests in progress at a time
          Tenants, Actions,
          RequestedTTL,   \* ttl_hours values a client may send
          DefaultTTL, MaxTTL,
          MaxSessions,    \* bound: sessions issued
          MaxFaults,      \* bound: failed writes and crashes
          MaxClock,       \* bound: ticks of the clock
          MaxEvents       \* bound: the three together

Tokens == 1..MaxSessions    \* numbered as they are issued: rand.Read never repeats
Roles == {"admin", "operator", "viewer", "agent"}
None == 0                   \* no token

\* Issue refuses a subject without id, tenant or roles.
ASSUME SessionAssumption ==
    /\ \A s \in Subjects : s.roles # {} /\ s.roles \subseteq Roles /\ s.tenant \in Tenants
    /\ PasswordUsers \subseteq Subjects
    /\ \A i \in IDTokens \union Certificates : i.subject \in Subjects
    /\ HeaderSubjects \subseteq Subjects
    /\ DefaultTTL \in Nat \ {0} /\ MaxTTL \in Nat \ {0}
    /\ RequestedTTL \subseteq Int
    /\ MaxSessions \in Nat /\ MaxFaults \in Nat /\ MaxClock \in Nat /\ MaxEvents \in Nat

VARIABLES clock,
          up,          \* the process runs
          sessions,    \* SessionStore.sessions: token -> "absent", "live" or "revoked"
          file,        \* the session file: likewise
          session,     \* token -> [subject, expires], which nothing changes later
          audit,       \* the events about sessions in the repository: [event, token]
          trail,       \* those in the file of the repository
          handler,     \* handler -> [pc, op, token, snap, events]
          issued,      \* tokens issued so far
          faults,
          answered,    \* history: tokens a client was given
          loggedOut,   \* history: tokens whose logout was answered
          revokedNow,  \* history: those revoked since the process started
          doubtful,    \* history: tokens whose own save failed, or that changed
                       \* while another save was between snapshot and rename
          unsure       \* history: events likewise

repository == <<audit, trail, unsure>>
history == <<answered, loggedOut, revokedNow, doubtful>>
vars == <<clock, up, sessions, file, session, handler, issued, faults, repository, history>>

\* The bound on the events together.
Within == issued + faults + clock < MaxEvents

SessionMaps == [Tokens -> {"absent", "live", "revoked"}]
NoSession == [subject |-> None, expires |-> 0]
Empty == [t \in Tokens |-> "absent"]
Idle == [pc |-> "idle", op |-> "none", token |-> None, snap |-> Empty,
         events |-> {}]

Init ==
    /\ clock = 0 /\ up = TRUE
    /\ sessions = Empty /\ file = Empty /\ session = [t \in Tokens |-> NoSession]
    /\ handler = [h \in Handlers |-> Idle]
    /\ issued = 0 /\ faults = 0
    /\ audit = {} /\ trail = {} /\ unsure = {}
    /\ answered = {} /\ loggedOut = {} /\ revokedNow = {} /\ doubtful = {}

-----------------------------------------------------------------------------
(* Authentication and authorization.                                       *)

\* SessionStore.Authenticate.
Authenticates(token) ==
    /\ sessions[token] = "live"
    /\ clock < session[token].expires

\* NewAuthorizer.
Grants ==
    [admin    |-> {"read", "manage", "audit.read", "cert.manage", "policy.edit",
                   "config.read", "telemetry.write"},
     operator |-> {"read", "manage", "cert.manage", "policy.edit", "config.read",
                   "telemetry.write"},
     viewer   |-> {"read", "audit.read"},
     agent    |-> {"config.read", "telemetry.write"}]

\* Authorizer.Allowed.
Allowed(subject, tenant, action) ==
    /\ subject.tenant = tenant
    /\ \E role \in subject.roles : action \in Grants[role]

\* OIDCAuthenticator.AuthenticateIDToken: signed with the shared secret, issuer and
\* audience ours, not expired and not too early.
AuthenticateIDToken(i) ==
    /\ i.signed /\ i.forUs
    /\ clock < i.exp
    /\ i.nbf > 0 => clock >= i.nbf

SessionTTL(requested) ==
    IF requested <= 0 THEN DefaultTTL
    ELSE IF requested > MaxTTL THEN MaxTTL ELSE requested

-----------------------------------------------------------------------------
(* The store and its file.                                                 *)

Saving(h) == handler[h].pc = "rename"

\* What a change of a token under the lock means for the history: another save that
\* has its snapshot already will not hold it.
NoteOverlap(h, token) ==
    doubtful' = IF \E g \in Handlers \ {h} : Saving(g)
                THEN doubtful \union {token} ELSE doubtful

\* SessionStore.Issue for a subject that has authenticated.
Issue(h, op, subject, ttl) ==
    LET token == issued + 1
    IN  /\ token \in Tokens /\ Within
        /\ issued' = token
        /\ sessions' = [sessions EXCEPT ![token] = "live"]
        /\ session' = [session EXCEPT ![token] = [subject |-> subject, expires |-> clock + ttl]]
        /\ handler' = [handler EXCEPT ![h] =
               [pc |-> "snapshot", op |-> op, token |-> token, snap |-> Empty, events |-> {}]]
        /\ NoteOverlap(h, token)
        /\ UNCHANGED <<clock, up, file, faults, repository, answered, loggedOut, revokedNow>>

Ready(h) == up /\ handler[h].pc = "idle"

\* handlePasswordLogin
PasswordLogin(h, subject, requested) ==
    /\ Ready(h) /\ subject \in PasswordUsers
    /\ Issue(h, "login", subject, SessionTTL(requested))

\* handleOIDCLogin
OIDCLogin(h, i, requested) ==
    /\ Ready(h) /\ AuthenticateIDToken(i)
    /\ Issue(h, "login", i.subject, SessionTTL(requested))

\* subjectFromRequest: of a bearer session; or, when no token is sent, of the peer
\* certificate; or, when there is none either, of the headers, taken at their word.
SubjectFromRequest(subject) ==
    \/ \E t \in Tokens : Authenticates(t) /\ subject = session[t].subject
    \/ \E c \in Certificates :
           c.notBefore <= clock /\ clock < c.notAfter /\ subject = c.subject
    \/ subject \in HeaderSubjects

\* handleSessions, POST: a session for the subject of the request.
IssueSession(h, subject, requested) ==
    /\ Ready(h) /\ SubjectFromRequest(subject)
    /\ Allowed(subject, subject.tenant, "read")
    /\ Issue(h, "issue", subject, SessionTTL(requested))

-----------------------------------------------------------------------------
(* The audit log.                                                          *)

Event(op, token) ==
    [event |-> CASE op = "login"  -> "auth.login"
                 [] op = "issue"  -> "auth.session.issue"
                 [] op = "logout" -> "auth.session.revoke",
     token |-> token]

Filing(h) == handler[h].pc = "filing"

\* Memory.RecordAuditEvent: the event is in memory; another save of the repository that has
\* its snapshot already will not hold it.
RecordEvent(h, event) ==
    /\ audit' = audit \union {event}
    /\ unsure' = IF \E g \in Handlers \ {h} : Filing(g)
                 THEN unsure \union {event} ELSE unsure
    /\ UNCHANGED trail

\* Mutant: the event is left in memory.
LogoutUnfiled(h, token) ==
    /\ Ready(h) /\ Authenticates(token)
    /\ RecordEvent(h, Event("logout", token))
    /\ handler' = [handler EXCEPT ![h] = [Idle EXCEPT !.pc = "revoke", !.op = "logout", !.token = token]]
    /\ UNCHANGED <<clock, up, sessions, file, session, issued, faults, history>>

\* handleSessions, DELETE: the session is checked and the event recorded first.
Logout(h, token) ==
    /\ Ready(h) /\ Authenticates(token)
    /\ RecordEvent(h, Event("logout", token))
    /\ handler' = [handler EXCEPT ![h] = [Idle EXCEPT !.pc = "file", !.op = "logout", !.token = token]]
    /\ UNCHANGED <<clock, up, sessions, file, session, issued, faults, history>>

\* A tenant request that authorize refuses records an event and saves the repository, as
\* other requests do.  Such events are not told apart here: what matters to the events
\* of sessions is the save, which may overlap theirs.
Deny(h, subject, tenant, action) ==
    /\ Ready(h) /\ SubjectFromRequest(subject)
    /\ ~Allowed(subject, tenant, action)
    /\ handler' = [handler EXCEPT ![h] = [Idle EXCEPT !.pc = "file", !.op = "denied"]]
    /\ UNCHANGED <<clock, up, sessions, file, session, issued, faults, repository, history>>

\* A new session, once saved, is recorded under the name of what gave it.
RecordSession(h) ==
    /\ handler[h].pc = "record"
    /\ RecordEvent(h, Event(handler[h].op, handler[h].token))
    /\ handler' = [handler EXCEPT ![h].pc = "file"]
    /\ UNCHANGED <<clock, up, sessions, file, session, issued, faults, history>>

\* FileRepository.save: the whole repository is read under its lock ...
SnapshotAudit(h) ==
    /\ handler[h].pc = "file"
    /\ handler' = [handler EXCEPT ![h].pc = "filing", ![h].events = audit]
    /\ UNCHANGED <<clock, up, sessions, file, session, issued, faults, repository, history>>

\* ... and its file replaced.  Then the session is revoked, given, or the request refused.
RenameAudit(h) ==
    /\ Filing(h)
    /\ trail' = handler[h].events
    /\ handler' = [handler EXCEPT ![h] =
           CASE @.op = "denied" -> Idle
             [] @.op = "logout" -> [@ EXCEPT !.pc = "revoke", !.events = {}]
             [] OTHER           -> [@ EXCEPT !.pc = "answer", !.events = {}]]
    /\ UNCHANGED <<clock, up, sessions, file, session, issued, faults, audit, unsure, history>>

-----------------------------------------------------------------------------
(* Saving the sessions.                                                    *)

\* Mutant: the map is changed and the file is not.
RevokeInMemory(h) ==
    LET token == handler[h].token
    IN  /\ handler[h].pc = "revoke"
        /\ sessions' = [sessions EXCEPT ![token] = "revoked"]
        /\ handler' = [handler EXCEPT ![h].pc = "answer"]
        /\ NoteOverlap(h, token)
        /\ UNCHANGED <<clock, up, file, session, issued, faults, repository, answered, loggedOut,
                       revokedNow>>

\* handleSessions, DELETE, once the event is filed: SessionStore.Revoke.
Revoke(h) ==
    LET token == handler[h].token
    IN  /\ handler[h].pc = "revoke"
        /\ sessions' = [sessions EXCEPT ![token] = "revoked"]
        /\ handler' = [handler EXCEPT ![h].pc = "snapshot"]
        /\ NoteOverlap(h, token)
        /\ UNCHANGED <<clock, up, file, session, issued, faults, repository, answered, loggedOut, revokedNow>>

\* FileSessionStore.save: all sessions are read under the lock and encoded ...
Snapshot(h) ==
    /\ handler[h].pc = "snapshot"
    /\ handler' = [handler EXCEPT ![h].pc = "rename", ![h].snap = sessions]
    /\ UNCHANGED <<clock, up, sessions, file, session, issued, faults, repository, history>>

\* A session that is saved is answered, a new one recorded before.
Saved(state) ==
    [state EXCEPT !.pc = IF state.op = "logout" THEN "answer" ELSE "record", !.snap = Empty]

\* ... and the file is replaced.
Rename(h) ==
    /\ Saving(h)
    /\ file' = handler[h].snap
    /\ handler' = [handler EXCEPT ![h] = Saved(@)]
    /\ UNCHANGED <<clock, up, sessions, session, issued, faults, repository, history>>

Fault == faults < MaxFaults /\ Within /\ faults' = faults + 1

\* Mutant: a failed save of an issued session is dropped as Revoke drops it.
SaveFailsQuietly(h) ==
    /\ Fault /\ handler[h].pc \in {"snapshot", "rename"}
    /\ handler' = [handler EXCEPT ![h] = Saved(@)]
    /\ UNCHANGED <<clock, up, sessions, file, session, issued, repository, history>>

\* save fails before or at its rename.  Issue hands the error on, and the request is
\* answered with it; Revoke drops it.
SaveFails(h) ==
    /\ Fault /\ handler[h].pc \in {"snapshot", "rename"}
    /\ handler' = [handler EXCEPT ![h] =
           IF @.op = "logout" THEN Saved(@) ELSE Idle]
    /\ doubtful' = doubtful \union {handler[h].token}
    /\ UNCHANGED <<clock, up, sessions, file, session, issued, repository, answered, loggedOut, revokedNow>>

-----------------------------------------------------------------------------
(* Answers.                                                                *)

\* The client is given the session.
AnswerSession(h) ==
    /\ handler[h].pc = "answer" /\ handler[h].op \in {"login", "issue"}
    /\ answered' = answered \union {handler[h].token}
    /\ handler' = [handler EXCEPT ![h] = Idle]
    /\ UNCHANGED <<clock, up, sessions, file, session, issued, faults, repository, loggedOut,
                   revokedNow, doubtful>>

\* The event cannot be recorded, or is not filed: the request is answered with the error.
\* A new session exists, and nobody is told its token; an old one is not revoked.
AuditFails(h) ==
    /\ Fault
    /\ handler[h].pc \in {"record", "file", "filing"}
    /\ handler' = [handler EXCEPT ![h] = Idle]
    /\ unsure' = IF handler[h].op = "denied" THEN unsure
                 ELSE unsure \union {Event(handler[h].op, handler[h].token)}
    /\ UNCHANGED <<clock, up, sessions, file, session, issued, audit, trail, history>>

AnswerLogout(h) ==
    /\ handler[h].pc = "answer" /\ handler[h].op = "logout"
    /\ loggedOut' = loggedOut \union {handler[h].token}
    /\ revokedNow' = revokedNow \union {handler[h].token}
    /\ handler' = [handler EXCEPT ![h] = Idle]
    /\ UNCHANGED <<clock, up, sessions, file, session, issued, faults, repository, answered, doubtful>>

-----------------------------------------------------------------------------

Tick ==
    /\ clock < MaxClock /\ Within /\ clock' = clock + 1
    /\ UNCHANGED <<up, sessions, file, session, handler, issued, faults, repository, history>>

Crash ==
    /\ Fault /\ up /\ up' = FALSE
    /\ sessions' = Empty /\ audit' = {}
    /\ handler' = [h \in Handlers |-> Idle]
    /\ revokedNow' = {}
    /\ UNCHANGED <<clock, file, session, issued, trail, unsure, answered, loggedOut, doubtful>>

\* NewFileSessionStore, and the repository likewise.
Restart ==
    /\ ~up /\ up' = TRUE
    /\ sessions' = file /\ audit' = trail
    /\ UNCHANGED <<clock, file, session, handler, issued, faults, trail, unsure, history>>

Request(h) ==
    \/ \E s \in Subjects, r \in RequestedTTL : PasswordLogin(h, s, r)
    \/ \E i \in IDTokens, r \in RequestedTTL : OIDCLogin(h, i, r)
    \/ \E s \in Subjects, r \in RequestedTTL : IssueSession(h, s, r)
    \/ \E t \in Tokens : Logout(h, t)
    \/ \E s \in Subjects, tenant \in Tenants, a \in Actions : Deny(h, s, tenant, a)

Next ==
    \/ Tick \/ Crash \/ Restart
    \/ \E h \in Handlers :
           \/ Request(h) \/ Revoke(h)
           \/ Snapshot(h) \/ Rename(h) \/ SaveFails(h)
           \/ RecordSession(h) \/ SnapshotAudit(h) \/ RenameAudit(h) \/ AuditFails(h)
           \/ AnswerSession(h) \/ AnswerLogout(h)

Spec == Init /\ [][Next]_vars

-----------------------------------------------------------------------------
(* Properties.                                                             *)

AuditEvents ==
    [event : {"auth.login", "auth.session.issue", "auth.session.revoke"}, token : Tokens]

TypeOK ==
    /\ clock \in 0..MaxClock /\ up \in BOOLEAN
    /\ sessions \in SessionMaps /\ file \in SessionMaps
    /\ \A t \in 1..issued : session[t].subject \in Subjects /\ session[t].expires \in Nat
    /\ handler \in [Handlers -> [pc : {"idle", "revoke", "snapshot", "rename", "record",
                                      "file", "filing", "answer"},
                                op : {"none", "login", "issue", "logout", "denied"},
                                token : Tokens \union {None}, snap : SessionMaps,
                                events : SUBSET AuditEvents]]
    /\ audit \subseteq AuditEvents /\ trail \subseteq AuditEvents /\ unsure \subseteq AuditEvents
    /\ answered \subseteq Tokens /\ loggedOut \subseteq Tokens
    /\ revokedNow \subseteq Tokens /\ doubtful \subseteq Tokens
    /\ issued \in 0..MaxSessions /\ faults \in 0..MaxFaults

\* A session whose logout was answered opens no request any more: not in the life of
\* the process that revoked it, and not after a crash either unless the save of the
\* revocation failed or another save was under way (Revoke drops the error of save,
\* and saves run outside the lock).
LoggedOutStaysOut ==
    \A t \in revokedNow \union (loggedOut \ doubtful) : ~Authenticates(t)

\* A session a client was given is on file when it is given, and stays there, so that
\* it outlives a crash; unless another save was under way when it was issued.
GivenSessionSurvives ==
    \A t \in answered \ doubtful : file[t] # "absent"

\* Every session a client holds, and every session that is revoked in memory or in its
\* file, has its event in the file of the repository, so that a crash never leaves a
\* session, or the end of one, that no event accounts for; unless another save of the
\* repository was under way when the event was recorded, or a save of it failed
\* (recordAuditEvent returns after its save, and handleSessions revokes after it).
SessionsAreAudited ==
    /\ \A t \in answered :
           \E op \in {"login", "issue"} : Event(op, t) \in trail \union unsure
    /\ \A t \in Tokens :
           "revoked" \in {sessions[t], file[t]} => Event("logout", t) \in trail \union unsure

=============================================================================
