-------------------------- MODULE SessionStoreProofs --------------------------
(***************************************************************************)
(* Proofs about SessionStore, for any subjects, handlers, session life     *)
(* times and faults.  The promises about sessions rest on one inductive    *)
(* invariant: a session that is not in doubt is in every snapshot on its   *)
(* way to the file just as it is in memory.  Those about their events rest *)
(* on a second: an event that is not unsure is in every snapshot of the    *)
(* audit log that is still to replace the file (TrailAgrees), and a        *)
(* session that is answered or revoked has such an event (TrailCovers).    *)
(***************************************************************************)
EXTENDS SessionStore, TLAPS

HandlerStates ==
    [pc : {"idle", "revoke", "snapshot", "rename", "record", "file", "filing", "answer"},
     op : {"none", "login", "issue", "logout", "denied"},
     token : Tokens \union {None}, snap : SessionMaps, events : SUBSET AuditEvents]

\* What a handler that is not idle works on.
HandlerOK(h) ==
    /\ handler[h].pc # "idle" => up
    /\ handler[h].pc = "revoke" => handler[h].op = "logout"
    /\ handler[h].pc = "record" => handler[h].op \in {"login", "issue"}
    /\ handler[h].pc \in {"file", "filing"} => handler[h].op # "none"
    /\ handler[h].pc \in {"snapshot", "rename", "answer"} =>
           handler[h].op \in {"login", "issue", "logout"}
    /\ handler[h].pc # "idle" /\ handler[h].op # "denied" => handler[h].token \in Tokens

StoreOK ==
    /\ issued \in Nat
    /\ sessions \in SessionMaps /\ file \in SessionMaps
    /\ handler \in [Handlers -> HandlerStates]
    /\ \A h \in Handlers : HandlerOK(h)

\* No map holds a session that has not been issued yet, and nobody works on one.
NoneAhead ==
    \A t \in Tokens : t > issued =>
        /\ sessions[t] = "absent" /\ file[t] = "absent"
        /\ \A h \in Handlers : handler[h].snap[t] = "absent" /\ handler[h].token # t
        /\ t \notin answered \union loggedOut

\* What memory holds of a session, a snapshot on its way to the file holds as well.
SnapshotsAgree ==
    \A t \in Tokens \ doubtful, g \in Handlers :
        Saving(g) =>
            /\ sessions[t] # "absent" => handler[g].snap[t] # "absent"
            /\ sessions[t] = "revoked" => handler[g].snap[t] = "revoked"

\* The session of a handler that saves, or has saved, is in memory; when it has saved,
\* the session is on file.
WorkDone(h) ==
    LET s == handler[h]
    IN  /\ s.op \in {"login", "issue"} /\ s.pc # "idle" => sessions[s.token] # "absent"
        /\ s.op = "logout" /\ s.pc \in {"snapshot", "rename", "answer"} =>
               sessions[s.token] = "revoked"
        /\ s.op \in {"login", "issue"} /\ s.pc \in {"record", "file", "filing", "answer"}
               /\ s.token \notin doubtful => file[s.token] # "absent"
        /\ s.op = "logout" /\ s.pc = "answer" /\ s.token \notin doubtful =>
               file[s.token] = "revoked"

WorkIsDone == \A h \in Handlers : WorkDone(h)

\* Answers stay true.
AnswersHold ==
    /\ answered \subseteq Tokens /\ loggedOut \subseteq Tokens /\ revokedNow \subseteq Tokens
    /\ \A t \in answered \ doubtful : file[t] # "absent" /\ (up => sessions[t] # "absent")
    /\ \A t \in loggedOut \ doubtful : file[t] = "revoked" /\ (up => sessions[t] = "revoked")
    /\ \A t \in revokedNow : sessions[t] = "revoked" /\ t \in loggedOut
    /\ ~up => revokedNow = {} /\ sessions = Empty

IInv == StoreOK /\ NoneAhead /\ SnapshotsAgree /\ WorkIsDone /\ AnswersHold

-----------------------------------------------------------------------------

LEMMA EmptyIsMap == Empty \in SessionMaps
  BY DEF Empty, SessionMaps

\* An idle handler holds nothing.
LEMMA IdleFacts ==
  /\ Idle \in HandlerStates
  /\ Idle.pc = "idle" /\ Idle.op = "none" /\ Idle.token = 0 /\ Idle.snap = Empty
  /\ Idle.events = {}
  BY EmptyIsMap DEF Idle, HandlerStates, None

LEMMA InitIInv == Init => IInv
<1>. SUFFICES ASSUME Init PROVE IInv
  OBVIOUS
<1>1. \A h \in Handlers : handler[h] = Idle
  BY DEF Init
<1>2. StoreOK
  BY <1>1, IdleFacts, EmptyIsMap DEF Init, StoreOK, HandlerOK
<1>3. NoneAhead /\ SnapshotsAgree /\ WorkIsDone /\ AnswersHold
  <2>1. NoneAhead
    BY <1>1, IdleFacts, SessionAssumption DEF Init, NoneAhead, Empty, Tokens
  <2>2. SnapshotsAgree /\ WorkIsDone
    BY <1>1, IdleFacts DEF SnapshotsAgree, WorkIsDone, WorkDone, Saving
  <2>. QED
    BY <2>1, <2>2 DEF Init, AnswersHold
<1>. QED
  BY <1>2, <1>3 DEF IInv

(***************************************************************************)
(* One lemma per action.  Moved says that one handler has moved on: what   *)
(* it becomes, and that the others stay.                                   *)
(***************************************************************************)

Moved(h, state) ==
    /\ state \in HandlerStates
    /\ handler' = [handler EXCEPT ![h] = state]

LEMMA MovedFacts ==
  ASSUME StoreOK, NEW h \in Handlers, NEW state, Moved(h, state)
  PROVE  /\ handler' \in [Handlers -> HandlerStates]
         /\ handler'[h] = state
         /\ \A g \in Handlers \ {h} : handler'[g] = handler[g]
  BY DEF StoreOK, Moved

LEMMA IssueStep ==
  ASSUME IInv, NEW h \in Handlers, NEW op \in {"login", "issue"}, NEW s, NEW ttl,
         Ready(h), Issue(h, op, s, ttl)
  PROVE  IInv'
<1>. DEFINE token == issued + 1
<1>. DEFINE state == [pc |-> "snapshot", op |-> op, token |-> token, snap |-> Empty, events |-> {}]
<1>1. /\ token \in Tokens /\ issued' = token /\ token > issued /\ issued \in Nat
      /\ sessions' = [sessions EXCEPT ![token] = "live"]
      /\ up /\ UNCHANGED <<up, file, answered, loggedOut, revokedNow>>
  BY DEF Issue, Ready, IInv, StoreOK
<1>2. state \in HandlerStates
  BY <1>1, EmptyIsMap DEF HandlerStates
<1>3. /\ handler' \in [Handlers -> HandlerStates]
      /\ handler'[h] = state
      /\ \A g \in Handlers \ {h} : handler'[g] = handler[g]
  BY <1>2, MovedFacts DEF Issue, Moved, IInv
<1>4. /\ handler'[h].pc = "snapshot" /\ handler'[h].op = op /\ handler'[h].token = token
      /\ handler'[h].snap = Empty
  BY <1>3
<1>5. /\ doubtful \subseteq doubtful' /\ doubtful' \subseteq doubtful \union {token}
      /\ (\E g \in Handlers \ {h} : Saving(g)) => token \in doubtful'
  BY DEF Issue, NoteOverlap
<1>. HIDE DEF state, token
<1>6. sessions' \in SessionMaps /\ sessions'[token] = "live"
      /\ \A t \in Tokens \ {token} : sessions'[t] = sessions[t]
  BY <1>1 DEF IInv, StoreOK, SessionMaps
<1>7. StoreOK'
  <2>1. ASSUME NEW g \in Handlers PROVE HandlerOK(g)'
    <3>1. HandlerOK(g)
      BY DEF IInv, StoreOK
    <3>. QED
      BY <1>1, <1>3, <1>4, <3>1 DEF HandlerOK
  <2>2. issued' \in Nat /\ file' \in SessionMaps
    BY <1>1 DEF IInv, StoreOK, token
  <2>. QED
    BY <1>3, <1>6, <2>1, <2>2 DEF StoreOK
<1>8. \A t \in Tokens : t > issued' => t > issued /\ t # token
  BY <1>1 DEF Tokens
<1>9. NoneAhead'
  BY <1>1, <1>3, <1>4, <1>6, <1>8 DEF IInv, NoneAhead, Empty
<1>10. SnapshotsAgree'
  BY <1>1, <1>3, <1>4, <1>5, <1>6 DEF IInv, SnapshotsAgree, Saving
<1>11. \A g \in Handlers : handler[g].token # token
  BY <1>1 DEF IInv, NoneAhead
<1>12. ASSUME NEW g \in Handlers PROVE WorkDone(g)'
  <2>1. CASE g = h
    BY <1>3, <1>4, <1>6, <2>1 DEF WorkDone
  <2>2. CASE g # h
    <3>1. WorkDone(g) /\ HandlerOK(g) /\ handler'[g] = handler[g] /\ handler[g].token # token
      BY <1>3, <1>11, <2>2 DEF IInv, WorkIsDone, StoreOK
    <3>. QED
      BY <1>1, <1>5, <1>6, <3>1 DEF WorkDone, HandlerOK
  <2>. QED
    BY <2>1, <2>2
<1>13. token \notin answered \union loggedOut
  BY <1>1 DEF IInv, NoneAhead
<1>14. AnswersHold'
  BY <1>1, <1>5, <1>6, <1>13 DEF IInv, AnswersHold
<1>. QED
  BY <1>7, <1>9, <1>10, <1>12, <1>14 DEF IInv, WorkIsDone

\* A step in which one handler moves on and no session changes: what is left to show is
\* about that handler and the answers.
LEMMA HandlerStep ==
  ASSUME IInv, NEW h \in Handlers, NEW state, Moved(h, state),
         UNCHANGED <<up, sessions, file, issued>>, doubtful \subseteq doubtful',
         HandlerOK(h)', WorkDone(h)', AnswersHold',
         state.snap \in {Empty, handler[h].snap}, state.pc # "rename",
         state.token = handler[h].token \/ state.token = 0 \/ sessions[state.token] # "absent",
         answered' \union loggedOut' \subseteq answered \union loggedOut \union {handler[h].token}
  PROVE  IInv'
<1>1. /\ handler' \in [Handlers -> HandlerStates]
      /\ handler'[h] = state
      /\ \A g \in Handlers \ {h} : handler'[g] = handler[g]
  BY MovedFacts DEF IInv
<1>2. StoreOK'
  BY <1>1 DEF IInv, StoreOK, HandlerOK
<1>3. NoneAhead'
  <2>. SUFFICES ASSUME NEW t \in Tokens, t > issued
                PROVE  /\ sessions[t] = "absent" /\ file[t] = "absent"
                       /\ \A g \in Handlers : handler'[g].snap[t] = "absent" /\ handler'[g].token # t
                       /\ t \notin answered' \union loggedOut'
    BY DEF NoneAhead
  <2>1. /\ sessions[t] = "absent" /\ file[t] = "absent" /\ t # 0
        /\ \A g \in Handlers : handler[g].snap[t] = "absent" /\ handler[g].token # t
        /\ t \notin answered \union loggedOut
    BY SessionAssumption DEF IInv, NoneAhead, Tokens
  <2>2. state.snap[t] = "absent" /\ state.token # t
    BY <2>1 DEF Empty
  <2>. QED
    BY <1>1, <2>1, <2>2
<1>4. SnapshotsAgree'
  BY <1>1 DEF IInv, SnapshotsAgree, Saving
<1>5. ASSUME NEW g \in Handlers PROVE WorkDone(g)'
  <2>1. CASE g = h
    BY <2>1
  <2>2. CASE g # h
    <3>1. WorkDone(g) /\ handler'[g] = handler[g]
      BY <1>1, <2>2 DEF IInv, WorkIsDone
    <3>. QED
      BY <3>1 DEF WorkDone
  <2>. QED
    BY <2>1, <2>2
<1>. QED
  BY <1>2, <1>3, <1>4, <1>5 DEF IInv, WorkIsDone

\* The answers stay true as long as nothing changes but what is in doubt.
LEMMA SameAnswers ==
  ASSUME IInv, UNCHANGED <<up, sessions, file, answered, loggedOut, revokedNow>>,
         doubtful \subseteq doubtful'
  PROVE  AnswersHold'
  BY DEF IInv, AnswersHold

LEMMA ToIdle ==
  ASSUME IInv, NEW h \in Handlers, handler' = [handler EXCEPT ![h] = Idle],
         UNCHANGED <<up, sessions, file, issued>>, doubtful \subseteq doubtful', AnswersHold',
         answered' \union loggedOut' \subseteq answered \union loggedOut \union {handler[h].token}
  PROVE  IInv'
<1>1. Moved(h, Idle) /\ handler'[h] = Idle
  BY IdleFacts DEF Moved, IInv, StoreOK
<1>2. HandlerOK(h)' /\ WorkDone(h)'
  BY <1>1, IdleFacts DEF HandlerOK, WorkDone
<1>. QED
  BY <1>1, <1>2, IdleFacts, HandlerStep

LEMMA LogoutStep ==
  ASSUME IInv, NEW h \in Handlers, NEW t \in Tokens, Logout(h, t)
  PROVE  IInv'
<1>. DEFINE state == [Idle EXCEPT !.pc = "file", !.op = "logout", !.token = t]
<1>1. /\ state \in HandlerStates /\ state.pc = "file" /\ state.op = "logout" /\ state.token = t
      /\ state.snap = Empty
  BY EmptyIsMap DEF Idle, HandlerStates
<1>2. /\ handler' = [handler EXCEPT ![h] = state] /\ up /\ sessions[t] = "live"
      /\ UNCHANGED <<up, sessions, file, issued, doubtful, answered, loggedOut, revokedNow>>
  BY DEF Logout, Ready, Authenticates, history
<1>. HIDE DEF state
<1>3. Moved(h, state) /\ handler'[h] = state
  BY <1>1, <1>2 DEF Moved, IInv, StoreOK
<1>4. HandlerOK(h)' /\ WorkDone(h)'
  BY <1>1, <1>2, <1>3 DEF HandlerOK, WorkDone
<1>. QED
  BY <1>1, <1>2, <1>3, <1>4, HandlerStep, SameAnswers

LEMMA DenyStep ==
  ASSUME IInv, NEW h \in Handlers, NEW s, NEW tenant, NEW a, Deny(h, s, tenant, a)
  PROVE  IInv'
<1>. DEFINE state == [Idle EXCEPT !.pc = "file", !.op = "denied"]
<1>1. /\ state \in HandlerStates /\ state.pc = "file" /\ state.op = "denied" /\ state.token = 0
      /\ state.snap = Empty
  BY EmptyIsMap DEF Idle, HandlerStates, None
<1>2. /\ handler' = [handler EXCEPT ![h] = state] /\ up
      /\ UNCHANGED <<up, sessions, file, issued, doubtful, answered, loggedOut, revokedNow>>
  BY DEF Deny, Ready, history
<1>. HIDE DEF state
<1>3. Moved(h, state) /\ handler'[h] = state
  BY <1>1, <1>2 DEF Moved, IInv, StoreOK
<1>4. HandlerOK(h)' /\ WorkDone(h)'
  BY <1>1, <1>2, <1>3 DEF HandlerOK, WorkDone
<1>. QED
  BY <1>1, <1>2, <1>3, <1>4, HandlerStep, SameAnswers

\* The steps of the repository: a handler keeps its request and its token.
LEMMA AuditStep ==
  ASSUME IInv, NEW h \in Handlers, NEW state,
         handler' = [handler EXCEPT ![h] = state], state \in HandlerStates,
         handler[h].pc \in {"record", "file", "filing"},
         state.op = handler[h].op, state.token = handler[h].token,
         state.snap = handler[h].snap,
         \/ state.pc \in {"file", "filing"}
         \/ state.pc = "revoke" /\ handler[h].op = "logout"
         \/ state.pc = "answer" /\ handler[h].op \in {"login", "issue"},
         UNCHANGED <<up, sessions, file, issued, history>>
  PROVE  IInv'
<1>1. Moved(h, state) /\ handler'[h] = state
  BY DEF Moved, IInv, StoreOK
<1>2. HandlerOK(h) /\ WorkDone(h)
  BY DEF IInv, StoreOK, WorkIsDone
<1>3. HandlerOK(h)'
  BY <1>1, <1>2 DEF HandlerOK
<1>4. WorkDone(h)'
  BY <1>1, <1>2 DEF WorkDone, HandlerOK, history
<1>. QED
  BY <1>1, <1>3, <1>4, HandlerStep, SameAnswers DEF history

LEMMA RecordStep ==
  ASSUME IInv, NEW h \in Handlers, RecordSession(h)
  PROVE  IInv'
<1>. DEFINE state == [handler[h] EXCEPT !.pc = "file"]
<1>1. handler[h] \in HandlerStates /\ handler[h].pc = "record"
  BY DEF IInv, StoreOK, RecordSession
<1>2. /\ state \in HandlerStates /\ state.pc = "file" /\ state.op = handler[h].op
      /\ state.token = handler[h].token /\ state.snap = handler[h].snap
  BY <1>1 DEF HandlerStates
<1>3. /\ handler' = [handler EXCEPT ![h] = state]
      /\ UNCHANGED <<up, sessions, file, issued, history>>
  BY DEF RecordSession
<1>. HIDE DEF state
<1>. QED
  BY <1>1, <1>2, <1>3, AuditStep

LEMMA SnapshotAuditStep ==
  ASSUME IInv, audit \subseteq AuditEvents, NEW h \in Handlers, SnapshotAudit(h)
  PROVE  IInv'
<1>. DEFINE state == [handler[h] EXCEPT !.pc = "filing", !.events = audit]
<1>1. handler[h] \in HandlerStates /\ handler[h].pc = "file"
  BY DEF IInv, StoreOK, SnapshotAudit
<1>2. /\ state \in HandlerStates /\ state.pc = "filing" /\ state.op = handler[h].op
      /\ state.token = handler[h].token /\ state.snap = handler[h].snap
  BY <1>1 DEF HandlerStates
<1>3. /\ handler' = [handler EXCEPT ![h] = state]
      /\ UNCHANGED <<up, sessions, file, issued, history>>
  BY DEF SnapshotAudit
<1>. HIDE DEF state
<1>. QED
  BY <1>1, <1>2, <1>3, AuditStep

LEMMA RenameAuditStep ==
  ASSUME IInv, NEW h \in Handlers, RenameAudit(h)
  PROVE  IInv'
<1>1. /\ handler[h] \in HandlerStates /\ handler[h].pc = "filing" /\ HandlerOK(h)
      /\ UNCHANGED <<up, sessions, file, issued, history>>
  BY DEF IInv, StoreOK, RenameAudit, Filing
<1>2. CASE handler[h].op = "denied"
  <2>1. handler' = [handler EXCEPT ![h] = Idle]
    BY <1>2 DEF RenameAudit
  <2>. QED
    BY <1>1, <2>1, ToIdle, SameAnswers DEF history
<1>3. CASE handler[h].op = "logout"
  <2>. DEFINE state == [handler[h] EXCEPT !.pc = "revoke", !.events = {}]
  <2>1. handler' = [handler EXCEPT ![h] = state]
    BY <1>3 DEF RenameAudit
  <2>2. /\ state \in HandlerStates /\ state.pc = "revoke" /\ state.op = handler[h].op
        /\ state.token = handler[h].token /\ state.snap = handler[h].snap
    BY <1>1 DEF HandlerStates
  <2>. HIDE DEF state
  <2>. QED
    BY <1>1, <1>3, <2>1, <2>2, AuditStep
<1>4. CASE handler[h].op \in {"login", "issue"}
  <2>. DEFINE state == [handler[h] EXCEPT !.pc = "answer", !.events = {}]
  <2>1. handler' = [handler EXCEPT ![h] = state]
    BY <1>4 DEF RenameAudit
  <2>2. /\ state \in HandlerStates /\ state.pc = "answer" /\ state.op = handler[h].op
        /\ state.token = handler[h].token /\ state.snap = handler[h].snap
    BY <1>1 DEF HandlerStates
  <2>. HIDE DEF state
  <2>. QED
    BY <1>1, <1>4, <2>1, <2>2, AuditStep
<1>. QED
  BY <1>1, <1>2, <1>3, <1>4 DEF HandlerOK, HandlerStates

LEMMA AuditFailsStep ==
  ASSUME IInv, NEW h \in Handlers, AuditFails(h)
  PROVE  IInv'
  BY ToIdle, SameAnswers DEF AuditFails, history

LEMMA RevokeStep ==
  ASSUME IInv, NEW h \in Handlers, Revoke(h)
  PROVE  IInv'
<1>. DEFINE token == handler[h].token
<1>. DEFINE state == [handler[h] EXCEPT !.pc = "snapshot"]
<1>1. /\ handler[h] \in HandlerStates /\ handler[h].pc = "revoke"
      /\ token \in Tokens /\ handler[h].op = "logout" /\ up
  BY DEF IInv, StoreOK, HandlerOK, Revoke
<1>2. /\ state \in HandlerStates /\ state.pc = "snapshot" /\ state.op = "logout"
      /\ state.token = token /\ state.snap = handler[h].snap
  BY <1>1 DEF HandlerStates
<1>3. /\ handler' = [handler EXCEPT ![h] = state]
      /\ sessions' = [sessions EXCEPT ![token] = "revoked"]
      /\ UNCHANGED <<up, file, issued, answered, loggedOut, revokedNow>>
      /\ doubtful \subseteq doubtful'
      /\ (\E g \in Handlers \ {h} : Saving(g)) => token \in doubtful'
  BY DEF Revoke, NoteOverlap
<1>. HIDE DEF state, token
<1>4. /\ handler' \in [Handlers -> HandlerStates]
      /\ handler'[h] = state
      /\ \A g \in Handlers \ {h} : handler'[g] = handler[g]
  BY <1>2, <1>3, MovedFacts DEF Moved, IInv
<1>5. sessions' \in SessionMaps /\ sessions'[token] = "revoked"
      /\ \A t \in Tokens \ {token} : sessions'[t] = sessions[t]
  BY <1>1, <1>3 DEF IInv, StoreOK, SessionMaps
<1>6. StoreOK'
  BY <1>1, <1>2, <1>3, <1>4, <1>5 DEF IInv, StoreOK, HandlerOK
<1>7. NoneAhead'
  <2>1. token <= issued
    BY <1>1 DEF IInv, NoneAhead, StoreOK, Tokens, token
  <2>. QED
    BY <1>1, <1>2, <1>3, <1>4, <1>5, <2>1 DEF IInv, NoneAhead, StoreOK, Tokens, token
<1>8. SnapshotsAgree'
  BY <1>1, <1>2, <1>3, <1>4, <1>5 DEF IInv, SnapshotsAgree, Saving
<1>9. ASSUME NEW g \in Handlers PROVE WorkDone(g)'
  <2>1. CASE g = h
    BY <1>2, <1>4, <1>5, <2>1 DEF WorkDone
  <2>2. CASE g # h
    <3>1. WorkDone(g) /\ HandlerOK(g) /\ handler'[g] = handler[g]
      BY <1>4, <2>2 DEF IInv, WorkIsDone, StoreOK
    <3>. QED
      BY <1>3, <1>5, <3>1 DEF WorkDone, HandlerOK
  <2>. QED
    BY <2>1, <2>2
<1>10. AnswersHold'
  BY <1>1, <1>3, <1>5 DEF IInv, AnswersHold
<1>. QED
  BY <1>6, <1>7, <1>8, <1>9, <1>10 DEF IInv, WorkIsDone

LEMMA SnapshotStep ==
  ASSUME IInv, NEW h \in Handlers, Snapshot(h)
  PROVE  IInv'
<1>. DEFINE state == [handler[h] EXCEPT !.pc = "rename", !.snap = sessions]
<1>1. /\ handler[h] \in HandlerStates /\ handler[h].pc = "snapshot" /\ HandlerOK(h) /\ WorkDone(h)
      /\ UNCHANGED <<up, sessions, file, issued, history>>
  BY DEF IInv, StoreOK, Snapshot, WorkIsDone
<1>2. /\ state \in HandlerStates /\ state.pc = "rename" /\ state.op = handler[h].op
      /\ state.token = handler[h].token /\ state.snap = sessions
  BY <1>1 DEF HandlerStates, IInv, StoreOK
<1>3. handler' = [handler EXCEPT ![h] = state]
  BY DEF Snapshot
<1>. HIDE DEF state
<1>4. /\ handler' \in [Handlers -> HandlerStates]
      /\ handler'[h] = state
      /\ \A g \in Handlers \ {h} : handler'[g] = handler[g]
  BY <1>2, <1>3, MovedFacts DEF Moved, IInv
<1>5. StoreOK'
  BY <1>1, <1>2, <1>4 DEF IInv, StoreOK, HandlerOK
<1>6. NoneAhead'
  BY <1>1, <1>2, <1>4 DEF IInv, NoneAhead, history
<1>7. SnapshotsAgree'
  BY <1>1, <1>2, <1>4 DEF IInv, SnapshotsAgree, Saving, history
<1>8. ASSUME NEW g \in Handlers PROVE WorkDone(g)'
  <2>1. CASE g = h
    BY <1>1, <1>2, <1>4, <2>1 DEF WorkDone, history
  <2>2. CASE g # h
    <3>1. WorkDone(g) /\ handler'[g] = handler[g]
      BY <1>4, <2>2 DEF IInv, WorkIsDone
    <3>. QED
      BY <1>1, <3>1 DEF WorkDone, history
  <2>. QED
    BY <2>1, <2>2
<1>. QED
  BY <1>1, <1>5, <1>6, <1>7, <1>8, SameAnswers DEF IInv, WorkIsDone, history

LEMMA SavedFacts ==
  ASSUME NEW s \in HandlerStates
  PROVE  /\ Saved(s) \in HandlerStates
         /\ Saved(s).pc = IF s.op = "logout" THEN "answer" ELSE "record"
         /\ Saved(s).op = s.op /\ Saved(s).token = s.token /\ Saved(s).snap = Empty
         /\ Saved(s).events = s.events
  BY EmptyIsMap DEF Saved, HandlerStates

LEMMA RenameStep ==
  ASSUME IInv, NEW h \in Handlers, Rename(h)
  PROVE  IInv'
<1>. DEFINE state == Saved(handler[h])
<1>1. /\ handler[h] \in HandlerStates /\ handler[h].pc = "rename" /\ HandlerOK(h) /\ WorkDone(h)
      /\ file' = handler[h].snap
      /\ UNCHANGED <<up, sessions, issued, history>>
  BY DEF IInv, StoreOK, Rename, Saving, WorkIsDone
<1>2. /\ state \in HandlerStates /\ state.pc \in {"answer", "record"}
      /\ state.pc = "answer" <=> handler[h].op = "logout"
      /\ state.op = handler[h].op /\ state.token = handler[h].token /\ state.snap = Empty
  BY <1>1, SavedFacts
<1>3. handler' = [handler EXCEPT ![h] = state]
  BY DEF Rename
<1>. HIDE DEF state
<1>4. /\ handler' \in [Handlers -> HandlerStates]
      /\ handler'[h] = state
      /\ \A g \in Handlers \ {h} : handler'[g] = handler[g]
  BY <1>2, <1>3, MovedFacts DEF Moved, IInv
<1>5. HandlerOK(h)'
  BY <1>1, <1>2, <1>4 DEF HandlerOK
<1>6. file' \in SessionMaps
  BY <1>1 DEF HandlerStates
<1>7. StoreOK'
  BY <1>1, <1>4, <1>5, <1>6 DEF IInv, StoreOK, HandlerOK
<1>8. NoneAhead'
  BY <1>1, <1>2, <1>4 DEF IInv, NoneAhead, history, Empty
<1>9. SnapshotsAgree'
  BY <1>1, <1>2, <1>4 DEF IInv, SnapshotsAgree, Saving, history
<1>10. ASSUME NEW t \in Tokens \ doubtful
       PROVE  /\ sessions[t] # "absent" => file'[t] # "absent"
              /\ sessions[t] = "revoked" => file'[t] = "revoked"
  BY <1>1 DEF IInv, SnapshotsAgree, Saving
<1>11. ASSUME NEW g \in Handlers PROVE WorkDone(g)'
  <2>1. CASE g = h
    BY <1>1, <1>2, <1>4, <1>10, <2>1 DEF WorkDone, HandlerOK, history
  <2>2. CASE g # h
    <3>1. WorkDone(g) /\ HandlerOK(g) /\ handler'[g] = handler[g]
      BY <1>4, <2>2 DEF IInv, WorkIsDone, StoreOK
    <3>. QED
      BY <1>1, <1>10, <3>1 DEF WorkDone, HandlerOK, history
  <2>. QED
    BY <2>1, <2>2
<1>12. AnswersHold'
  BY <1>1, <1>10 DEF IInv, AnswersHold, HandlerOK, history
<1>. QED
  BY <1>7, <1>8, <1>9, <1>11, <1>12 DEF IInv, WorkIsDone

LEMMA SaveFailsStep ==
  ASSUME IInv, NEW h \in Handlers, SaveFails(h)
  PROVE  IInv'
<1>1. /\ handler[h] \in HandlerStates /\ handler[h].pc \in {"snapshot", "rename"}
      /\ HandlerOK(h) /\ WorkDone(h)
      /\ UNCHANGED <<up, sessions, file, issued, answered, loggedOut, revokedNow>>
      /\ doubtful' = doubtful \union {handler[h].token}
  BY DEF IInv, StoreOK, SaveFails, WorkIsDone
<1>2. CASE handler[h].op # "logout"
  <2>1. handler' = [handler EXCEPT ![h] = Idle]
    BY <1>2 DEF SaveFails
  <2>. QED
    BY <1>1, <2>1, ToIdle, SameAnswers
<1>3. CASE handler[h].op = "logout"
  <2>. DEFINE state == Saved(handler[h])
  <2>1. handler' = [handler EXCEPT ![h] = state]
    BY <1>3 DEF SaveFails
  <2>2. /\ state \in HandlerStates /\ state.pc = "answer" /\ state.op = "logout"
        /\ state.token = handler[h].token /\ state.snap = Empty
    BY <1>1, <1>3, SavedFacts
  <2>. HIDE DEF state
  <2>3. Moved(h, state) /\ handler'[h] = state
    BY <2>1, <2>2 DEF Moved, IInv, StoreOK
  <2>4. HandlerOK(h)' /\ WorkDone(h)'
    BY <1>1, <1>3, <2>2, <2>3 DEF HandlerOK, WorkDone
  <2>. QED
    BY <1>1, <2>2, <2>3, <2>4, HandlerStep, SameAnswers
<1>. QED
  BY <1>2, <1>3

LEMMA AnswerStep ==
  ASSUME IInv, NEW h \in Handlers, AnswerSession(h)
  PROVE  IInv'
<1>1. AnswersHold'
  BY DEF IInv, StoreOK, HandlerOK, WorkIsDone, WorkDone, AnswersHold, AnswerSession
<1>. QED
  BY <1>1, ToIdle DEF AnswerSession

LEMMA AnswerLogoutStep ==
  ASSUME IInv, NEW h \in Handlers, AnswerLogout(h)
  PROVE  IInv'
<1>1. AnswersHold'
  BY DEF IInv, StoreOK, HandlerOK, WorkIsDone, WorkDone, AnswersHold, AnswerLogout
<1>. QED
  BY <1>1, ToIdle DEF AnswerLogout

LEMMA CrashStep ==
  ASSUME IInv, Crash
  PROVE  IInv'
<1>1. /\ handler' \in [Handlers -> HandlerStates] /\ \A h \in Handlers : handler'[h] = Idle
      /\ sessions' = Empty /\ up' = FALSE /\ revokedNow' = {}
      /\ UNCHANGED <<file, issued, answered, loggedOut, doubtful>>
  BY IdleFacts DEF Crash
<1>2. StoreOK'
  BY <1>1, IdleFacts, EmptyIsMap DEF IInv, StoreOK, HandlerOK
<1>3. NoneAhead'
  BY <1>1, IdleFacts, SessionAssumption DEF IInv, NoneAhead, Empty, Tokens
<1>4. SnapshotsAgree' /\ WorkIsDone'
  BY <1>1, IdleFacts DEF SnapshotsAgree, WorkIsDone, WorkDone, Saving
<1>5. AnswersHold'
  BY <1>1 DEF IInv, AnswersHold
<1>. QED
  BY <1>2, <1>3, <1>4, <1>5 DEF IInv

LEMMA RestartStep ==
  ASSUME IInv, Restart
  PROVE  IInv'
<1>1. /\ ~up /\ up' = TRUE /\ sessions' = file
      /\ UNCHANGED <<file, handler, issued, answered, loggedOut, revokedNow, doubtful>>
  BY DEF Restart, history
<1>2. \A h \in Handlers : handler[h].pc = "idle"
  BY <1>1 DEF IInv, StoreOK, HandlerOK
<1>3. StoreOK'
  BY <1>1, <1>2 DEF IInv, StoreOK, HandlerOK
<1>4. NoneAhead'
  BY <1>1 DEF IInv, NoneAhead
<1>5. SnapshotsAgree' /\ WorkIsDone'
  BY <1>1, <1>2 DEF SnapshotsAgree, WorkIsDone, WorkDone, Saving
<1>6. AnswersHold'
  BY <1>1 DEF IInv, AnswersHold
<1>. QED
  BY <1>3, <1>4, <1>5, <1>6 DEF IInv

LEMMA QuietStep ==
  ASSUME IInv, UNCHANGED <<up, sessions, file, handler, issued, history>>
  PROVE  IInv'
<1>1. StoreOK'
  BY DEF IInv, StoreOK, HandlerOK
<1>2. NoneAhead'
  BY DEF IInv, NoneAhead, history
<1>3. SnapshotsAgree'
  BY DEF IInv, SnapshotsAgree, history, Saving
<1>4. WorkIsDone'
  BY DEF IInv, WorkIsDone, WorkDone, history
<1>5. AnswersHold'
  BY DEF IInv, AnswersHold, history
<1>. QED
  BY <1>1, <1>2, <1>3, <1>4, <1>5 DEF IInv

-----------------------------------------------------------------------------
(***************************************************************************)
(* The repository.  What is on its file, or in doubt, stays so: an event   *)
(* that is not in doubt is in every snapshot on its way to the file.       *)
(***************************************************************************)

RepositoryOK == audit \subseteq AuditEvents /\ trail \subseteq AuditEvents /\ unsure \subseteq AuditEvents

LEMMA EventTyped ==
  ASSUME NEW op \in {"login", "issue", "logout"}, NEW t \in Tokens
  PROVE  Event(op, t) \in AuditEvents
<1>1. CASE op = "login"
  BY <1>1 DEF Event, AuditEvents
<1>2. CASE op = "issue"
  BY <1>2 DEF Event, AuditEvents
<1>3. CASE op = "logout"
  BY <1>3 DEF Event, AuditEvents
<1>. QED
  BY <1>1, <1>2, <1>3

LEMMA RecordEventTyped ==
  ASSUME RepositoryOK, NEW h, NEW e \in AuditEvents, RecordEvent(h, e)
  PROVE  RepositoryOK'
  BY DEF RepositoryOK, RecordEvent

LEMMA RepositoryStep == IInv /\ RepositoryOK /\ [Next]_vars => RepositoryOK'
<1>. SUFFICES ASSUME IInv, RepositoryOK, [Next]_vars PROVE RepositoryOK'
  OBVIOUS
<1>1. ASSUME UNCHANGED repository PROVE RepositoryOK'
  BY <1>1 DEF repository, RepositoryOK
<1>2. ASSUME NEW h \in Handlers, Request(h) PROVE RepositoryOK'
  <2>1. ASSUME NEW t \in Tokens, Logout(h, t) PROVE RepositoryOK'
    BY <2>1, EventTyped, RecordEventTyped DEF Logout
  <2>. QED
    BY <1>1, <1>2, <2>1 DEF Request, PasswordLogin, OIDCLogin, IssueSession, Issue, Deny
<1>3. ASSUME NEW h \in Handlers, RecordSession(h) PROVE RepositoryOK'
  <2>1. handler[h].op \in {"login", "issue"} /\ handler[h].token \in Tokens
    BY <1>3 DEF RecordSession, IInv, StoreOK, HandlerOK
  <2>. QED
    BY <1>3, <2>1, EventTyped, RecordEventTyped DEF RecordSession
<1>4. ASSUME NEW h \in Handlers, RenameAudit(h) PROVE RepositoryOK'
  <2>1. handler[h].events \subseteq AuditEvents
    BY DEF IInv, StoreOK, HandlerStates
  <2>. QED
    BY <1>4, <2>1 DEF RenameAudit, RepositoryOK
<1>5. ASSUME NEW h \in Handlers, AuditFails(h) PROVE RepositoryOK'
  <2>1. handler[h].op # "denied" =>
            handler[h].op \in {"login", "issue", "logout"} /\ handler[h].token \in Tokens
    BY <1>5 DEF AuditFails, IInv, StoreOK, HandlerOK, HandlerStates
  <2>2. handler[h].op # "denied" => Event(handler[h].op, handler[h].token) \in AuditEvents
    BY <2>1, EventTyped
  <2>. QED
    BY <1>5, <2>2 DEF AuditFails, RepositoryOK
<1>6. CASE Crash \/ Restart
  BY <1>6 DEF Crash, Restart, RepositoryOK
<1>. QED
  BY <1>1, <1>2, <1>3, <1>4, <1>5, <1>6
     DEF Next, vars, Tick, Revoke, Snapshot, Rename, SaveFails, SnapshotAudit, AnswerSession,
         AnswerLogout

LEMMA NextIInv == IInv /\ RepositoryOK /\ [Next]_vars => IInv'
<1>. SUFFICES ASSUME IInv, RepositoryOK, [Next]_vars PROVE IInv'
  OBVIOUS
<1>1. ASSUME NEW h \in Handlers, Request(h) PROVE IInv'
  <2>1. ASSUME NEW s \in Subjects, NEW r \in RequestedTTL, PasswordLogin(h, s, r) PROVE IInv'
    BY <2>1, IssueStep DEF PasswordLogin
  <2>2. ASSUME NEW i \in IDTokens, NEW r \in RequestedTTL, OIDCLogin(h, i, r) PROVE IInv'
    BY <2>2, IssueStep DEF OIDCLogin
  <2>3. ASSUME NEW s \in Subjects, NEW r \in RequestedTTL, IssueSession(h, s, r) PROVE IInv'
    BY <2>3, IssueStep DEF IssueSession
  <2>. QED
    BY <1>1, <2>1, <2>2, <2>3, LogoutStep, DenyStep DEF Request
<1>2. ASSUME NEW h \in Handlers,
             \/ Revoke(h) \/ Snapshot(h) \/ Rename(h) \/ SaveFails(h)
             \/ RecordSession(h) \/ SnapshotAudit(h) \/ RenameAudit(h) \/ AuditFails(h)
             \/ AnswerSession(h) \/ AnswerLogout(h)
      PROVE  IInv'
  BY <1>2, RevokeStep, SnapshotStep, RenameStep, SaveFailsStep, RecordStep, SnapshotAuditStep,
     RenameAuditStep, AuditFailsStep, AnswerStep, AnswerLogoutStep DEF RepositoryOK
<1>3. CASE Tick \/ UNCHANGED vars
  BY <1>3, QuietStep DEF Tick, vars
<1>. QED
  BY <1>1, <1>2, <1>3, CrashStep, RestartStep DEF Next

-----------------------------------------------------------------------------
(***************************************************************************)
(* The theorems.                                                           *)
(***************************************************************************)

LEMMA AlwaysIInv == Spec => [](IInv /\ RepositoryOK)
<1>1. Init => RepositoryOK
  BY DEF Init, RepositoryOK
<1>. QED
  BY <1>1, InitIInv, NextIInv, RepositoryStep, PTL DEF Spec

\* For any number of handlers and faults: a session whose logout was answered does not
\* authenticate again in that process, nor after a crash unless its save failed or
\* overlapped another (Authenticate, Revoke and the save that follows it).
THEOREM LogoutIsFinal == Spec => []LoggedOutStaysOut
<1>1. IInv => LoggedOutStaysOut
  BY DEF IInv, AnswersHold, LoggedOutStaysOut, Authenticates, Empty
<1>. QED
  BY <1>1, AlwaysIInv, PTL

\* For any number of handlers and faults: a session that was given to a client is on
\* file from then on, unless a save overlapped its issue (FileSessionStore.Issue
\* returns the session only after its save).
THEOREM SessionIsKept == Spec => []GivenSessionSurvives
<1>1. IInv => GivenSessionSurvives
  BY DEF IInv, AnswersHold, GivenSessionSurvives
<1>. QED
  BY <1>1, AlwaysIInv, PTL

-----------------------------------------------------------------------------
(***************************************************************************)
(* The audit trail.  A revocation reaches the session file through a       *)
(* snapshot, and its event reached the other file before that.             *)
(***************************************************************************)

EventOf(h) == Event(handler[h].op, handler[h].token)

\* The handlers whose event recordAuditEvent has filed.
Accounted(h) ==
    \/ handler[h].op \in {"login", "issue"} /\ handler[h].pc = "answer"
    \/ handler[h].op = "logout" /\ handler[h].pc \in {"revoke", "snapshot", "rename", "answer"}

\* Memory holds what the file holds, and a snapshot on its way what is not in doubt.
TrailAgrees ==
    /\ up => trail \subseteq audit
    /\ \A g \in Handlers : Filing(g) =>
           audit \ unsure \subseteq handler[g].events /\ handler[g].events \subseteq audit
    /\ \A g \in Handlers : handler[g].pc \in {"file", "filing"} /\ handler[g].op # "denied" =>
           EventOf(g) \in audit

\* Who has passed the record, and what came of it, is accounted for.
TrailCovers ==
    /\ \A h \in Handlers : Accounted(h) => EventOf(h) \in trail \union unsure
    /\ \A t \in answered :
           \E op \in {"login", "issue"} : Event(op, t) \in trail \union unsure
    /\ \A t \in Tokens :
           sessions[t] = "revoked" \/ file[t] = "revoked"
                   \/ (\E h \in Handlers : handler[h].snap[t] = "revoked")
               => Event("logout", t) \in trail \union unsure

\* A step of handler h leaves the other handlers as they are.
Others(h) == \A g \in Handlers \ {h} : handler'[g] = handler[g]

LEMMA TypedHandler ==
  ASSUME IInv, NEW h \in Handlers
  PROVE  handler[h] \in HandlerStates /\ HandlerOK(h)
  BY DEF IInv, StoreOK

\* What each step makes of its handler.
LEMMA IssueMoves ==
  ASSUME IInv, NEW h \in Handlers, NEW op, NEW s, NEW ttl, Issue(h, op, s, ttl)
  PROVE  /\ Others(h) /\ handler'[h].pc = "snapshot" /\ handler'[h].op = op
         /\ handler'[h].snap = Empty
  BY TypedHandler DEF Issue, Others, IInv, StoreOK

LEMMA LogoutMoves ==
  ASSUME IInv, NEW h \in Handlers, NEW t \in Tokens, Logout(h, t)
  PROVE  /\ Others(h) /\ handler'[h].pc = "file" /\ handler'[h].op = "logout"
         /\ handler'[h].token = t /\ handler'[h].snap = Empty
  BY DEF Logout, Others, Idle, IInv, StoreOK

LEMMA DenyMoves ==
  ASSUME IInv, NEW h \in Handlers, NEW s, NEW tenant, NEW a, Deny(h, s, tenant, a)
  PROVE  /\ Others(h) /\ handler'[h].pc = "file" /\ handler'[h].op = "denied"
         /\ handler'[h].snap = Empty
  BY DEF Deny, Others, Idle, IInv, StoreOK

LEMMA RecordMoves ==
  ASSUME IInv, NEW h \in Handlers, RecordSession(h)
  PROVE  /\ Others(h) /\ handler'[h].pc = "file" /\ handler'[h].op = handler[h].op
         /\ handler'[h].token = handler[h].token /\ handler'[h].snap = handler[h].snap
<1>1. handler[h] \in HandlerStates /\ handler \in [Handlers -> HandlerStates]
  BY DEF IInv, StoreOK
<1>. QED
  BY <1>1 DEF RecordSession, Others, HandlerStates

LEMMA SnapshotAuditMoves ==
  ASSUME IInv, NEW h \in Handlers, SnapshotAudit(h)
  PROVE  /\ Others(h) /\ handler'[h].pc = "filing" /\ handler'[h].op = handler[h].op
         /\ handler'[h].token = handler[h].token /\ handler'[h].snap = handler[h].snap
         /\ handler'[h].events = audit
<1>1. handler[h] \in HandlerStates /\ handler \in [Handlers -> HandlerStates]
  BY DEF IInv, StoreOK
<1>. QED
  BY <1>1 DEF SnapshotAudit, Others, HandlerStates

LEMMA RevokeMoves ==
  ASSUME IInv, NEW h \in Handlers, Revoke(h)
  PROVE  /\ Others(h) /\ handler'[h].pc = "snapshot" /\ handler'[h].op = handler[h].op
         /\ handler'[h].token = handler[h].token /\ handler'[h].snap = handler[h].snap
<1>1. handler[h] \in HandlerStates /\ handler \in [Handlers -> HandlerStates]
  BY DEF IInv, StoreOK
<1>. QED
  BY <1>1 DEF Revoke, Others, HandlerStates

LEMMA SnapshotMoves ==
  ASSUME IInv, NEW h \in Handlers, Snapshot(h)
  PROVE  /\ Others(h) /\ handler'[h].pc = "rename" /\ handler'[h].op = handler[h].op
         /\ handler'[h].token = handler[h].token /\ handler'[h].snap = sessions
<1>1. handler[h] \in HandlerStates /\ handler \in [Handlers -> HandlerStates]
  BY DEF IInv, StoreOK
<1>. QED
  BY <1>1 DEF Snapshot, Others, HandlerStates

LEMMA RenameMoves ==
  ASSUME IInv, NEW h \in Handlers, Rename(h) \/ (SaveFails(h) /\ handler[h].op = "logout")
  PROVE  /\ Others(h) /\ handler'[h].pc \in {"answer", "record"}
         /\ handler'[h].pc = "answer" => handler[h].op = "logout"
         /\ handler'[h].op = handler[h].op
         /\ handler'[h].token = handler[h].token /\ handler'[h].snap = Empty
<1>1. handler' = [handler EXCEPT ![h] = Saved(handler[h])]
  BY DEF Rename, SaveFails
<1>. QED
  BY <1>1, SavedFacts DEF Others, IInv, StoreOK

LEMMA EndMoves ==
  ASSUME IInv, NEW h \in Handlers,
         \/ SaveFails(h) /\ handler[h].op # "logout"
         \/ AuditFails(h) \/ AnswerSession(h) \/ AnswerLogout(h)
  PROVE  Others(h) /\ handler'[h] = Idle
<1>1. handler' = [handler EXCEPT ![h] = Idle]
  BY DEF SaveFails, AuditFails, AnswerSession, AnswerLogout
<1>. QED
  BY <1>1 DEF Others, IInv, StoreOK

LEMMA RenameAuditMoves ==
  ASSUME IInv, NEW h \in Handlers, RenameAudit(h)
  PROVE  /\ Others(h) /\ handler'[h].pc \in {"idle", "revoke", "answer"}
         /\ handler'[h].pc # "idle" =>
                /\ handler'[h].op = handler[h].op /\ handler'[h].token = handler[h].token
                /\ handler[h].op # "denied"
         /\ handler'[h].snap \in {Empty, handler[h].snap}
<1>1. handler[h] \in HandlerStates /\ handler \in [Handlers -> HandlerStates]
  BY DEF IInv, StoreOK
<1>2. CASE handler[h].op = "denied"
  <2>1. handler' = [handler EXCEPT ![h] = Idle]
    BY <1>2 DEF RenameAudit
  <2>. QED
    BY <1>1, <2>1, IdleFacts DEF Others
<1>3. CASE handler[h].op = "logout"
  <2>1. handler' = [handler EXCEPT ![h] = [handler[h] EXCEPT !.pc = "revoke", !.events = {}]]
    BY <1>3 DEF RenameAudit
  <2>. QED
    BY <1>1, <1>3, <2>1 DEF Others, HandlerStates
<1>4. CASE handler[h].op \notin {"denied", "logout"}
  <2>1. handler' = [handler EXCEPT ![h] = [handler[h] EXCEPT !.pc = "answer", !.events = {}]]
    BY <1>4 DEF RenameAudit
  <2>. QED
    BY <1>1, <1>4, <2>1 DEF Others, HandlerStates
<1>. QED
  BY <1>2, <1>3, <1>4

\* The repository is left alone, and so is every handler that files.
LEMMA AgreesAlone ==
  ASSUME TrailAgrees, NEW h \in Handlers, Others(h), UNCHANGED <<up, repository>>,
         handler'[h].pc \notin {"file", "filing"}
  PROVE  TrailAgrees'
  BY DEF TrailAgrees, Others, Filing, EventOf, repository

\* An event is recorded by a handler that is then about to file it.
LEMMA AgreesRecord ==
  ASSUME TrailAgrees, NEW h \in Handlers, Others(h), UNCHANGED up,
         handler'[h].pc = "file", RecordEvent(h, EventOf(h)')
  PROVE  TrailAgrees'
<1>. DEFINE e == EventOf(h)'
<1>1. /\ audit' = audit \union {e} /\ trail' = trail /\ unsure \subseteq unsure'
      /\ (\E g \in Handlers \ {h} : Filing(g)) => e \in unsure'
  BY DEF RecordEvent
<1>2. \A g \in Handlers \ {h} : EventOf(g)' = EventOf(g) /\ Filing(g)' = Filing(g)
  BY DEF Others, EventOf, Filing
<1>. HIDE DEF e
<1>3. ASSUME NEW g \in Handlers, Filing(g)'
      PROVE  audit' \ unsure' \subseteq handler'[g].events /\ handler'[g].events \subseteq audit'
  <2>1. g # h /\ handler'[g] = handler[g] /\ Filing(g)
    BY <1>3 DEF Filing, Others
  <2>. QED
    BY <1>1, <2>1 DEF TrailAgrees
<1>4. ASSUME NEW g \in Handlers, handler'[g].pc \in {"file", "filing"}, handler'[g].op # "denied"
      PROVE  EventOf(g)' \in audit'
  <2>1. CASE g = h
    BY <1>1, <2>1 DEF e
  <2>2. CASE g # h
    BY <1>1, <1>2, <1>4, <2>2 DEF TrailAgrees, Others
  <2>. QED
    BY <2>1, <2>2
<1>. QED
  BY <1>1, <1>3, <1>4 DEF TrailAgrees

LEMMA AgreesStep == IInv /\ TrailAgrees /\ [Next]_vars => TrailAgrees'
<1>. SUFFICES ASSUME IInv, TrailAgrees, [Next]_vars PROVE TrailAgrees'
  OBVIOUS
<1>1. ASSUME NEW h \in Handlers, NEW op, NEW s, NEW ttl, Issue(h, op, s, ttl) PROVE TrailAgrees'
  BY <1>1, IssueMoves, AgreesAlone DEF Issue
<1>2. ASSUME NEW h \in Handlers, NEW t \in Tokens, Logout(h, t) PROVE TrailAgrees'
  <2>1. EventOf(h)' = Event("logout", t)
    BY <1>2, LogoutMoves DEF EventOf
  <2>2. RecordEvent(h, EventOf(h)') /\ UNCHANGED up
    BY <1>2, <2>1 DEF Logout
  <2>. QED
    BY <1>2, <2>2, LogoutMoves, AgreesRecord
<1>3. ASSUME NEW h \in Handlers, NEW s, NEW tenant, NEW a, Deny(h, s, tenant, a) PROVE TrailAgrees'
  <2>1. UNCHANGED <<up, repository>>
    BY <1>3 DEF Deny
  <2>. QED
    BY <1>3, <2>1, DenyMoves DEF TrailAgrees, Others, Filing, EventOf, repository
<1>4. ASSUME NEW h \in Handlers, RecordSession(h) PROVE TrailAgrees'
  <2>1. EventOf(h)' = EventOf(h)
    BY <1>4, RecordMoves DEF EventOf
  <2>2. RecordEvent(h, EventOf(h)') /\ UNCHANGED up
    BY <1>4, <2>1 DEF RecordSession, EventOf
  <2>. QED
    BY <1>4, <2>2, RecordMoves, AgreesRecord
<1>5. ASSUME NEW h \in Handlers, SnapshotAudit(h) PROVE TrailAgrees'
  <2>1. UNCHANGED <<up, repository>> /\ handler[h].pc = "file"
    BY <1>5 DEF SnapshotAudit
  <2>. QED
    BY <1>5, <2>1, SnapshotAuditMoves DEF TrailAgrees, Others, Filing, EventOf, repository
<1>6. ASSUME NEW h \in Handlers, RenameAudit(h) PROVE TrailAgrees'
  <2>1. /\ UNCHANGED <<up, audit, unsure>> /\ trail' = handler[h].events /\ Filing(h)
    BY <1>6 DEF RenameAudit
  <2>. QED
    BY <1>6, <2>1, RenameAuditMoves DEF TrailAgrees, Others, Filing, EventOf
<1>7. ASSUME NEW h \in Handlers, Revoke(h) \/ Snapshot(h) \/ Rename(h) PROVE TrailAgrees'
  BY <1>7, RevokeMoves, SnapshotMoves, RenameMoves, AgreesAlone DEF Revoke, Snapshot, Rename
<1>8. ASSUME NEW h \in Handlers, SaveFails(h) PROVE TrailAgrees'
  <2>1. handler[h].op = "logout" => TrailAgrees'
    BY <1>8, RenameMoves, AgreesAlone DEF SaveFails
  <2>2. handler[h].op # "logout" => TrailAgrees'
    BY <1>8, EndMoves, IdleFacts, AgreesAlone DEF SaveFails
  <2>. QED
    BY <2>1, <2>2
<1>9. ASSUME NEW h \in Handlers, AnswerSession(h) \/ AnswerLogout(h) PROVE TrailAgrees'
  BY <1>9, EndMoves, IdleFacts, AgreesAlone DEF AnswerSession, AnswerLogout
<1>10. ASSUME NEW h \in Handlers, AuditFails(h) PROVE TrailAgrees'
  <2>1. /\ UNCHANGED <<up, audit, trail>> /\ unsure \subseteq unsure'
        /\ Others(h) /\ handler'[h].pc = "idle"
    BY <1>10, EndMoves, IdleFacts DEF AuditFails
  <2>. QED
    BY <2>1 DEF TrailAgrees, Others, Filing, EventOf
<1>11. CASE Crash
  BY <1>11, IdleFacts DEF Crash, TrailAgrees, Filing
<1>12. CASE Restart
  <2>1. /\ \A g \in Handlers : handler'[g].pc = "idle"
        /\ audit' = trail /\ trail' = trail
    BY <1>12 DEF Restart, IInv, StoreOK, HandlerOK
  <2>. QED
    BY <2>1 DEF TrailAgrees, Filing
<1>13. CASE Tick \/ UNCHANGED vars
  <2>1. UNCHANGED <<up, repository, handler>>
    BY <1>13 DEF Tick, vars
  <2>. QED
    BY <2>1 DEF TrailAgrees, repository, Filing, EventOf
<1>. QED
  BY <1>1, <1>2, <1>3, <1>4, <1>5, <1>6, <1>7, <1>8, <1>9, <1>10, <1>11, <1>12, <1>13
     DEF Next, Request, PasswordLogin, OIDCLogin, IssueSession

\* An event that is on file, or in doubt, remains so.
LEMMA TrailGrows ==
  ASSUME IInv, TrailAgrees, [Next]_vars
  PROVE  trail \union unsure \subseteq trail' \union unsure'
<1>1. ASSUME NEW h \in Handlers, RenameAudit(h) PROVE trail \union unsure \subseteq trail' \union unsure'
  <2>1. up /\ Filing(h) /\ trail' = handler[h].events /\ unsure' = unsure
    BY <1>1 DEF RenameAudit, Filing, IInv, StoreOK, HandlerOK
  <2>. QED
    BY <2>1 DEF TrailAgrees
<1>2. ASSUME trail' = trail, unsure \subseteq unsure'
      PROVE  trail \union unsure \subseteq trail' \union unsure'
  BY <1>2
<1>3. ASSUME NEW h \in Handlers, Request(h) \/ RecordSession(h) \/ AuditFails(h)
      PROVE  trail' = trail /\ unsure \subseteq unsure'
  BY <1>3 DEF Request, PasswordLogin, OIDCLogin, IssueSession, Issue, Logout, Deny, RecordSession,
     RecordEvent, AuditFails, repository
<1>. QED
  BY <1>1, <1>2, <1>3
     DEF Next, vars, repository, Tick, Crash, Restart, Revoke, Snapshot, Rename, SaveFails,
         SnapshotAudit, AnswerSession, AnswerLogout

\* The parts of TrailCovers that a step of a handler leaves to show: that the handler is
\* accounted for, and where a revocation may come from.
LEMMA CoversHandler ==
  ASSUME TrailCovers, NEW h \in Handlers, Others(h),
         trail \union unsure \subseteq trail' \union unsure',
         Accounted(h)' => EventOf(h)' \in trail' \union unsure',
         \A t \in answered' \ answered : \E op \in {"login", "issue"} : Event(op, t) \in trail' \union unsure',
         \A t \in Tokens :
             sessions'[t] = "revoked" \/ file'[t] = "revoked" \/ handler'[h].snap[t] = "revoked" =>
                 \/ sessions[t] = "revoked" \/ file[t] = "revoked" \/ handler[h].snap[t] = "revoked"
                 \/ Event("logout", t) \in trail' \union unsure'
  PROVE  TrailCovers'
<1>1. ASSUME NEW g \in Handlers, Accounted(g)' PROVE EventOf(g)' \in trail' \union unsure'
  <2>1. CASE g = h
    BY <1>1, <2>1
  <2>2. CASE g # h
    <3>1. handler'[g] = handler[g]
      BY <2>2 DEF Others
    <3>2. Accounted(g) /\ EventOf(g)' = EventOf(g)
      BY <1>1, <3>1 DEF Accounted, EventOf
    <3>. QED
      BY <3>2 DEF TrailCovers
  <2>. QED
    BY <2>1, <2>2
<1>2. ASSUME NEW t \in answered'
      PROVE  \E op \in {"login", "issue"} : Event(op, t) \in trail' \union unsure'
  BY <1>2 DEF TrailCovers
<1>3. ASSUME NEW t \in Tokens,
             sessions'[t] = "revoked" \/ file'[t] = "revoked"
                 \/ (\E g \in Handlers : handler'[g].snap[t] = "revoked")
      PROVE  Event("logout", t) \in trail' \union unsure'
  <2>1. \/ sessions'[t] = "revoked" \/ file'[t] = "revoked" \/ handler'[h].snap[t] = "revoked"
        \/ \E g \in Handlers : handler[g].snap[t] = "revoked"
    BY <1>3 DEF Others
  <2>2. \/ sessions[t] = "revoked" \/ file[t] = "revoked"
        \/ (\E g \in Handlers : handler[g].snap[t] = "revoked")
        \/ Event("logout", t) \in trail' \union unsure'
    BY <2>1
  <2>. QED
    BY <2>2 DEF TrailCovers
<1>. QED
  BY <1>1, <1>2, <1>3 DEF TrailCovers

LEMMA CoversStep == IInv /\ TrailAgrees /\ TrailCovers /\ [Next]_vars => TrailCovers'
<1>. SUFFICES ASSUME IInv, TrailAgrees, TrailCovers, [Next]_vars PROVE TrailCovers'
  OBVIOUS
<1>0. trail \union unsure \subseteq trail' \union unsure'
  BY TrailGrows
<1>1. ASSUME NEW h \in Handlers, NEW op \in {"login", "issue"}, NEW s, NEW ttl, Issue(h, op, s, ttl)
      PROVE  TrailCovers'
  <2>1. /\ UNCHANGED <<file, answered>> /\ issued + 1 \in Tokens
        /\ sessions' = [sessions EXCEPT ![issued + 1] = "live"]
    BY <1>1 DEF Issue
  <2>2. \A t \in Tokens : sessions'[t] = "revoked" => sessions[t] = "revoked"
    BY <2>1 DEF IInv, StoreOK, SessionMaps
  <2>. QED
    BY <1>0, <1>1, <2>1, <2>2, IssueMoves, CoversHandler DEF Accounted, Empty
<1>2. ASSUME NEW h \in Handlers, NEW t \in Tokens, Logout(h, t) PROVE TrailCovers'
  <2>1. UNCHANGED <<sessions, file, answered>>
    BY <1>2 DEF Logout, history
  <2>. QED
    BY <1>0, <1>2, <2>1, LogoutMoves, CoversHandler DEF Accounted, Empty
<1>3. ASSUME NEW h \in Handlers, NEW s, NEW tenant, NEW a, Deny(h, s, tenant, a) PROVE TrailCovers'
  <2>1. UNCHANGED <<sessions, file, answered>>
    BY <1>3 DEF Deny, history
  <2>. QED
    BY <1>0, <1>3, <2>1, DenyMoves, CoversHandler DEF Accounted, Empty
<1>4. ASSUME NEW h \in Handlers, RecordSession(h) \/ SnapshotAudit(h) PROVE TrailCovers'
  <2>1. UNCHANGED <<sessions, file, answered>>
    BY <1>4 DEF RecordSession, SnapshotAudit, history
  <2>2. Others(h) /\ handler'[h].pc \in {"file", "filing"} /\ handler'[h].snap = handler[h].snap
    BY <1>4, RecordMoves, SnapshotAuditMoves
  <2>. QED
    BY <1>0, <2>1, <2>2, CoversHandler DEF Accounted
<1>5. ASSUME NEW h \in Handlers, RenameAudit(h) PROVE TrailCovers'
  <2>1. /\ UNCHANGED <<sessions, file, answered, unsure>> /\ Filing(h) /\ trail' = handler[h].events
    BY <1>5 DEF RenameAudit, history
  <2>2. ASSUME Accounted(h)' PROVE EventOf(h)' \in trail' \union unsure'
    <3>1. handler'[h].pc # "idle"
      BY <2>2 DEF Accounted
    <3>2. EventOf(h)' = EventOf(h) /\ handler[h].op # "denied"
      BY <1>5, <3>1, RenameAuditMoves DEF EventOf
    <3>. QED
      BY <2>1, <3>2 DEF TrailAgrees, Filing
  <2>3. \A t \in Tokens : handler'[h].snap[t] = "revoked" => handler[h].snap[t] = "revoked"
    BY <1>5, RenameAuditMoves DEF Empty
  <2>4. Others(h)
    BY <1>5, RenameAuditMoves
  <2>. QED
    BY <1>0, <2>1, <2>2, <2>3, <2>4, CoversHandler
<1>6. ASSUME NEW h \in Handlers, Revoke(h) PROVE TrailCovers'
  <2>1. /\ handler[h].pc = "revoke" /\ handler[h].op = "logout"
        /\ sessions' = [sessions EXCEPT ![handler[h].token] = "revoked"]
        /\ UNCHANGED <<file, answered>>
    BY <1>6 DEF Revoke, IInv, StoreOK, HandlerOK
  <2>2. EventOf(h) \in trail \union unsure /\ EventOf(h)' = EventOf(h)
        /\ EventOf(h) = Event("logout", handler[h].token)
    BY <1>6, <2>1, RevokeMoves DEF TrailCovers, Accounted, EventOf
  <2>3. \A t \in Tokens : sessions'[t] = "revoked" => sessions[t] = "revoked" \/ t = handler[h].token
    BY <2>1 DEF IInv, StoreOK, SessionMaps
  <2>. QED
    BY <1>0, <1>6, <2>1, <2>2, <2>3, RevokeMoves, CoversHandler
<1>7. ASSUME NEW h \in Handlers, Snapshot(h) PROVE TrailCovers'
  <2>1. UNCHANGED <<sessions, file, answered>> /\ handler[h].pc = "snapshot"
    BY <1>7 DEF Snapshot, history
  <2>2. Accounted(h)' => EventOf(h)' \in trail' \union unsure'
    BY <1>0, <1>7, <2>1, SnapshotMoves DEF Accounted, EventOf, TrailCovers
  <2>. QED
    BY <1>0, <1>7, <2>1, <2>2, SnapshotMoves, CoversHandler
<1>8. ASSUME NEW h \in Handlers, Rename(h) \/ (SaveFails(h) /\ handler[h].op = "logout")
      PROVE  TrailCovers'
  <2>1. /\ UNCHANGED <<sessions, answered>> /\ handler[h].pc \in {"snapshot", "rename"}
        /\ file' \in {file, handler[h].snap}
    BY <1>8 DEF Rename, Saving, SaveFails, history
  <2>2. Accounted(h)' => EventOf(h)' \in trail' \union unsure'
    BY <1>0, <1>8, <2>1, RenameMoves DEF Accounted, EventOf, TrailCovers
  <2>3. Others(h) /\ handler'[h].snap = Empty
    BY <1>8, RenameMoves
  <2>. QED
    BY <1>0, <2>1, <2>2, <2>3, CoversHandler DEF Empty
<1>9. ASSUME NEW h \in Handlers,
             \/ SaveFails(h) /\ handler[h].op # "logout"
             \/ AuditFails(h) \/ AnswerLogout(h)
      PROVE  TrailCovers'
  <2>1. UNCHANGED <<sessions, file, answered>>
    BY <1>9 DEF SaveFails, AuditFails, AnswerLogout, history
  <2>2. Others(h) /\ handler'[h] = Idle
    BY <1>9, EndMoves
  <2>. QED
    BY <1>0, <2>1, <2>2, IdleFacts, CoversHandler DEF Accounted, Empty
<1>10. ASSUME NEW h \in Handlers, AnswerSession(h) PROVE TrailCovers'
  <2>1. /\ UNCHANGED <<sessions, file>> /\ answered' = answered \union {handler[h].token}
        /\ handler[h].pc = "answer" /\ handler[h].op \in {"login", "issue"}
    BY <1>10 DEF AnswerSession
  <2>2. Event(handler[h].op, handler[h].token) \in trail \union unsure
    BY <2>1 DEF TrailCovers, Accounted, EventOf
  <2>3. Others(h) /\ handler'[h] = Idle
    BY <1>10, EndMoves
  <2>. QED
    BY <1>0, <2>1, <2>2, <2>3, IdleFacts, CoversHandler DEF Accounted, Empty
<1>11. CASE Crash
  <2>1. /\ \A h \in Handlers : handler'[h] = Idle
        /\ sessions' = Empty /\ UNCHANGED <<file, answered>>
    BY <1>11 DEF Crash
  <2>. QED
    BY <1>0, <2>1, IdleFacts DEF TrailCovers, Accounted, Empty
<1>12. CASE Restart
  <2>1. sessions' = file /\ UNCHANGED <<file, handler, answered>>
    BY <1>12 DEF Restart, history
  <2>. QED
    BY <1>0, <2>1 DEF TrailCovers, Accounted, EventOf
<1>13. CASE Tick \/ UNCHANGED vars
  <2>1. UNCHANGED <<sessions, file, handler, answered>>
    BY <1>13 DEF Tick, vars, history
  <2>. QED
    BY <1>0, <2>1 DEF TrailCovers, Accounted, EventOf
<1>. QED
  BY <1>1, <1>2, <1>3, <1>4, <1>5, <1>6, <1>7, <1>8, <1>9, <1>10, <1>11, <1>12, <1>13
     DEF Next, Request, PasswordLogin, OIDCLogin, IssueSession

\* For any handlers, failed saves and crashes: every session a client holds and every
\* session that is revoked in memory or on file has its event in the file of the
\* repository, unless a save of it failed or overlapped the record (recordAuditEvent;
\* handleSessions revokes after it, the logins answer after it).
THEOREM SessionTrail == Spec => []SessionsAreAudited
<1>1. Init => TrailAgrees /\ TrailCovers
  <2>. SUFFICES ASSUME Init PROVE TrailAgrees /\ TrailCovers
    OBVIOUS
  <2>1. \A h \in Handlers : handler[h] = Idle
    BY DEF Init
  <2>. QED
    BY <2>1, IdleFacts DEF Init, TrailAgrees, TrailCovers, Accounted, Filing, Empty
<1>2. TrailCovers => SessionsAreAudited
  BY DEF TrailCovers, SessionsAreAudited
<1>. QED
  BY <1>1, <1>2, AlwaysIInv, AgreesStep, CoversStep, PTL DEF Spec

-----------------------------------------------------------------------------
(***************************************************************************)
(* Types.                                                                  *)
(***************************************************************************)

RecordsOK ==
    /\ clock \in 0 .. MaxClock /\ up \in BOOLEAN
    /\ issued \in 0 .. MaxSessions /\ faults \in 0 .. MaxFaults
    /\ session = [t \in Tokens |-> session[t]]
    /\ \A t \in 1 .. issued : session[t].subject \in Subjects /\ session[t].expires \in Nat
    /\ doubtful \subseteq Tokens

LEMMA TTLFacts == ASSUME NEW r \in RequestedTTL PROVE SessionTTL(r) \in Nat
BY SessionAssumption DEF SessionTTL

LEMMA IssueRecords ==
  ASSUME IInv, RecordsOK, NEW h \in Handlers, NEW op, NEW s \in Subjects, NEW ttl \in Nat,
         Issue(h, op, s, ttl)
  PROVE  RecordsOK'
<1>1. /\ issued + 1 \in Tokens /\ issued' = issued + 1
      /\ session' = [session EXCEPT ![issued + 1] = [subject |-> s, expires |-> clock + ttl]]
      /\ UNCHANGED <<clock, up, faults>>
      /\ doubtful' \in {doubtful, doubtful \union {issued + 1}}
  BY DEF Issue, NoteOverlap
<1>2. clock \in Nat /\ clock + ttl \in Nat
  BY SessionAssumption DEF RecordsOK
<1>3. issued' \in 0 .. MaxSessions
  BY <1>1 DEF RecordsOK, Tokens
<1>4. session' = [t \in Tokens |-> session'[t]]
  BY <1>1 DEF RecordsOK
<1>5. ASSUME NEW t \in 1 .. issued'
      PROVE  session'[t].subject \in Subjects /\ session'[t].expires \in Nat
  <2>1. t \in Tokens /\ (t = issued + 1 \/ t \in 1 .. issued)
    BY <1>1, <1>3, <1>5, SessionAssumption DEF RecordsOK, Tokens
  <2>2. CASE t = issued + 1
    BY <1>1, <1>2, <2>1, <2>2 DEF RecordsOK
  <2>3. CASE t # issued + 1
    BY <1>1, <2>1, <2>3 DEF RecordsOK
  <2>. QED
    BY <2>2, <2>3
<1>. QED
  BY <1>1, <1>3, <1>4, <1>5 DEF RecordsOK

LEMMA RecordsStep ==
  ASSUME IInv, RecordsOK, [Next]_vars
  PROVE  RecordsOK'
<1>1. ASSUME UNCHANGED <<clock, up, issued, session>>,
             faults' = faults \/ Fault, doubtful' \subseteq doubtful \union Tokens
      PROVE  RecordsOK'
  BY <1>1, SessionAssumption DEF RecordsOK, Fault
<1>2. ASSUME NEW h \in Handlers, Request(h) PROVE RecordsOK'
  <2>1. ASSUME NEW s \in Subjects, NEW r \in RequestedTTL,
               PasswordLogin(h, s, r) \/ IssueSession(h, s, r)
        PROVE  RecordsOK'
    BY <2>1, TTLFacts, IssueRecords DEF PasswordLogin, IssueSession
  <2>2. ASSUME NEW i \in IDTokens, NEW r \in RequestedTTL, OIDCLogin(h, i, r) PROVE RecordsOK'
    BY <2>2, TTLFacts, IssueRecords, SessionAssumption DEF OIDCLogin
  <2>3. ASSUME NEW t \in Tokens, Logout(h, t) PROVE RecordsOK'
    BY <1>1, <2>3 DEF Logout, history
  <2>4. ASSUME NEW s, NEW tenant, NEW a, Deny(h, s, tenant, a) PROVE RecordsOK'
    BY <1>1, <2>4 DEF Deny, history
  <2>. QED
    BY <1>2, <2>1, <2>2, <2>3, <2>4 DEF Request
<1>3. ASSUME NEW h \in Handlers,
             \/ Revoke(h) \/ Snapshot(h) \/ Rename(h) \/ SaveFails(h)
             \/ RecordSession(h) \/ SnapshotAudit(h) \/ RenameAudit(h) \/ AuditFails(h)
             \/ AnswerSession(h) \/ AnswerLogout(h)
      PROVE  RecordsOK'
  <2>1. handler[h].pc \in {"revoke", "snapshot", "rename"} => handler[h].token \in Tokens
    BY DEF IInv, StoreOK, HandlerOK
  <2>. QED
    BY <1>1, <1>3, <2>1
       DEF Revoke, NoteOverlap, Snapshot, Rename, SaveFails, RecordSession, SnapshotAudit,
           RenameAudit, AuditFails, AnswerSession, AnswerLogout, Fault, history
<1>4. CASE Crash
  <2>1. /\ UNCHANGED <<clock, issued, session, doubtful>> /\ up' = FALSE
        /\ faults < MaxFaults /\ faults' = faults + 1
    BY <1>4 DEF Crash, Fault
  <2>2. faults' \in 0 .. MaxFaults
    BY <2>1, SessionAssumption DEF RecordsOK
  <2>. QED
    BY <2>1, <2>2 DEF RecordsOK
<1>5. CASE Restart
  <2>1. UNCHANGED <<clock, issued, session, doubtful, faults>> /\ up' = TRUE
    BY <1>5 DEF Restart, history
  <2>. QED
    BY <2>1 DEF RecordsOK
<1>6. CASE Tick
  BY <1>6, SessionAssumption DEF Tick, history, RecordsOK
<1>7. CASE UNCHANGED vars
  BY <1>7 DEF vars, history, RecordsOK
<1>. QED
  BY <1>2, <1>3, <1>4, <1>5, <1>6, <1>7 DEF Next

LEMMA AlwaysRecordsOK == Spec => []RecordsOK
<1>1. Init => RecordsOK
  BY SessionAssumption DEF Init, RecordsOK, Tokens
<1>. QED
  BY <1>1, AlwaysIInv, RecordsStep, PTL DEF Spec

\* For any subjects, handlers, life times and faults every variable has its type: what
\* is issued, saved, audited or in doubt is a session of a known subject.
THEOREM SessionTypes == Spec => []TypeOK
<1>1. IInv /\ RepositoryOK /\ RecordsOK => TypeOK
  BY DEF IInv, StoreOK, AnswersHold, RepositoryOK, RecordsOK, TypeOK, HandlerStates
<1>. QED
  BY <1>1, AlwaysIInv, AlwaysRecordsOK, PTL

=============================================================================
