---------------------------- MODULE EdgeIngress ----------------------------
(***************************************************************************)
(* The edge ingress: IngressRuntime.Serve with one goroutine per accepted  *)
(* connection (token, credential, rate limit, ranked egress candidates,    *)
(* dialling in rank order, forwarding both ways), the HTTP assignment      *)
(* handler that shares the limiter and the health tracker with it, and     *)
(* the heartbeats the tracker observes.                                    *)
(*                                                                         *)
(* A goroutine reads the clock once and uses that reading in the limiter   *)
(* and in the tracker, each under its own lock, so that other goroutines   *)
(* and ticks of the clock come between.  Heartbeats may be observed late   *)
(* and out of order.  Peers may send anything, nothing, or hang up.        *)
(***************************************************************************)
EXTENDS Integers, Sequences, FiniteSets, FiniteSetsExt

CONSTANTS Conns,          \* connections, numbered as the listener accepts them
          Requests,       \* requests to the assignment handler, numbered likewise
          Tokens,         \* tokens a peer may present
          Keys,           \* tenant:device keys of the limiter
          CredentialKey,  \* Authenticator.credentials: token -> key or NoKey
          NoKey,
          Nodes,          \* egress nodes, numbered in the order of their ids
          Reachable,      \* nodes the resolver has a target for
          Loads,          \* loads a heartbeat may carry, negative ones too
          Limit, Window,  \* WindowLimiter
          Ttl,            \* HealthTracker.ttl
          HasReadTimeout, \* LineTokenExtractor.ReadTimeout > 0
          MaxClock,       \* bound: ticks of the clock
          Bounds          \* bounds on connections, requests and heartbeats: each
                          \* behaviour keeps to one of these triples

\* NewWindowLimiter and NewHealthTracker refuse anything else.
NewWindowLimiter == Limit \in Nat \ {0} /\ Window \in Nat \ {0}
NewHealthTracker == Ttl \in Nat \ {0}

\* Every credential has a tenant and a device, and the resolver a target.
NewAuthenticator == CredentialKey \in [Tokens -> Keys \union {NoKey}] /\ NoKey \notin Keys
NewStaticEgressResolver == Reachable \subseteq Nodes /\ Reachable # {}

ASSUME EdgeAssumption ==
    /\ NewWindowLimiter /\ NewHealthTracker /\ NewAuthenticator /\ NewStaticEgressResolver
    /\ Nodes \subseteq Nat /\ IsFiniteSet(Nodes) /\ Loads \subseteq Int
    /\ MaxClock \in Nat \ {0}
    /\ Bounds \subseteq [conns : Nat, requests : Nat, heartbeats : Nat]
    /\ Conns \subseteq Nat /\ Requests \subseteq Nat
    /\ HasReadTimeout \in BOOLEAN
    /\ Conns \intersect Requests = {}

Clients == Conns \union Requests
Times == 0..MaxClock
Directions == {"client_to_egress", "egress_to_client"}
None == -1                  \* the zero time.Time, and no node

VARIABLES clock,
          serve,       \* Serve: "accepting", "draining" or "returned"
          ctxDone,     \* the context of Serve is cancelled
          counters,    \* WindowLimiter.counters: key -> [start, used]
          nodes,       \* HealthTracker.nodes: node -> [load, observed]
          phase,       \* where each client's goroutine is
          key,         \* the limiter key of its credential
          stamp,       \* its reading of the clock
          queue,       \* HandleConnection: the candidates still to try
          egress,      \* the node it was assigned
          clientOpen, egressOpen,   \* its two connections
          copies,      \* ForwardBidirectional: copies still running
          taken,       \* ForwardBidirectional: results received
          heartbeats,  \* heartbeats observed so far
          bound,       \* the bounds of this behaviour
          granted,     \* history: key -> time -> requests let through at that
                       \* time with a clock reading of the same time
          untried      \* history: the nodes that were healthy when the connection's
                       \* candidates were ranked and that it has not tried yet

locals == <<key, stamp, queue, egress>>
sockets == <<clientOpen, egressOpen, copies, taken>>
environment == <<heartbeats, bound>>
shared == <<counters, nodes>>
history == <<granted, untried>>
server == <<serve, ctxDone>>
vars == <<clock, server, shared, phase, locals, sockets, environment, history>>

Phases == {"none", "accepted", "reading", "allow", "rank", "dial", "forward", "done"}

Init ==
    /\ clock = 1 /\ serve = "accepting" /\ ctxDone = FALSE
    /\ counters = [k \in Keys |-> [start |-> None, used |-> 0]]
    /\ nodes = [n \in Nodes |-> [load |-> 0, observed |-> None]]
    /\ phase = [c \in Clients |-> "none"]
    /\ key = [c \in Clients |-> NoKey]
    /\ stamp = [c \in Clients |-> None]
    /\ queue = [c \in Clients |-> <<>>]
    /\ egress = [c \in Clients |-> None]
    /\ clientOpen = [c \in Clients |-> FALSE]
    /\ egressOpen = [c \in Clients |-> FALSE]
    /\ copies = [c \in Clients |-> {}]
    /\ taken = [c \in Clients |-> 0]
    /\ heartbeats = 0 /\ bound \in Bounds
    /\ granted = [k \in Keys |-> [t \in Times |-> 0]]
    /\ untried = [c \in Clients |-> {}]

-----------------------------------------------------------------------------
(* Clock and heartbeats.                                                   *)

Tick ==
    /\ clock < MaxClock
    /\ clock' = clock + 1
    /\ UNCHANGED <<server, shared, phase, locals, sockets, environment, history>>

\* HealthTracker.Observe: the heartbeat replaces whatever was held, older or not.
Observe(n, load, at) ==
    /\ heartbeats < bound.heartbeats /\ heartbeats' = heartbeats + 1
    /\ load >= 0
    /\ nodes' = [nodes EXCEPT ![n] = [load |-> load, observed |-> at]]
    /\ UNCHANGED <<clock, server, counters, phase, locals, sockets, bound, history>>

-----------------------------------------------------------------------------
(* Serve.                                                                  *)

\* c is the first of its kind that has not come yet, and within the bound.
IsNext(c, Kind, max) ==
    /\ phase[c] = "none"
    /\ \A d \in Kind : d < c => phase[d] # "none"
    /\ Cardinality({d \in Kind : phase[d] # "none"}) < max

Accept(c) ==
    /\ serve = "accepting"
    /\ IsNext(c, Conns, bound.conns)
    /\ phase' = [phase EXCEPT ![c] = "accepted"]
    /\ clientOpen' = [clientOpen EXCEPT ![c] = TRUE]
    /\ UNCHANGED <<clock, server, shared, locals, egressOpen, copies, taken, environment, history>>

\* The caller cancels; the listener is closed by the goroutine that waits for it.
Cancel ==
    /\ ~ctxDone /\ ctxDone' = TRUE
    /\ UNCHANGED <<clock, serve, shared, phase, locals, sockets, environment, history>>

\* Accept fails, because the listener was closed or for a reason of its own: the
\* context is cancelled and the connections are waited for.
AcceptFails ==
    /\ serve = "accepting"
    /\ serve' = "draining" /\ ctxDone' = TRUE
    /\ UNCHANGED <<clock, shared, phase, locals, sockets, environment, history>>

ServeReturns ==
    /\ serve = "draining"
    /\ \A c \in Conns : phase[c] \in {"none", "done"}      \* wg.Wait
    /\ serve' = "returned"
    /\ UNCHANGED <<clock, ctxDone, shared, phase, locals, sockets, environment, history>>

\* The goroutine ends; its locals are gone.
Leave(c) ==
    /\ phase' = [phase EXCEPT ![c] = "done"]
    /\ key' = [key EXCEPT ![c] = NoKey]
    /\ stamp' = [stamp EXCEPT ![c] = None]
    /\ queue' = [queue EXCEPT ![c] = <<>>]
    /\ egress' = [egress EXCEPT ![c] = None]

\* It ends with an error: HandleConnection or Serve closes the client.
Refuse(c) ==
    /\ Leave(c)
    /\ clientOpen' = [clientOpen EXCEPT ![c] = FALSE]
    /\ UNCHANGED <<egressOpen, copies, taken>>

-----------------------------------------------------------------------------
(* LineTokenExtractor.ExtractToken.                                        *)

TokenError(c) ==
    /\ Refuse(c)
    /\ UNCHANGED <<clock, server, shared, environment, history>>

\* The context is looked at before every read, so for the first time at once.
StartRead(c) ==
    /\ phase[c] = "accepted"
    /\ \/ /\ ctxDone
          /\ TokenError(c)
       \/ /\ ~ctxDone
          /\ phase' = [phase EXCEPT ![c] = "reading"]
          /\ UNCHANGED <<clock, server, shared, locals, sockets, environment, history>>

\* A malformed or over-long line, an error of the connection, or a byte after
\* which the loop finds the context cancelled.
ReadFails(c) == phase[c] = "reading" /\ TokenError(c)

ReadTimesOut(c) == HasReadTimeout /\ phase[c] = "reading" /\ TokenError(c)

-----------------------------------------------------------------------------
(* HandleConnection and handleAssignment up to the choice of candidates.   *)

\* Authenticate, then now := r.now().
Authenticate(c, t) ==
    \/ /\ CredentialKey[t] = NoKey
       /\ Refuse(c)
       /\ UNCHANGED <<clock, server, shared, environment, history>>
    \/ /\ CredentialKey[t] # NoKey
       /\ key' = [key EXCEPT ![c] = CredentialKey[t]]
       /\ stamp' = [stamp EXCEPT ![c] = clock]
       /\ phase' = [phase EXCEPT ![c] = "allow"]
       /\ UNCHANGED <<clock, server, shared, queue, egress, sockets, environment, history>>

\* A line, or what came before the end of the stream, holds a token.
ReadToken(c, t) == phase[c] = "reading" /\ Authenticate(c, t)

\* A POST to /v1/edge/assignments, with the token of one of its two headers.
Request(c, t) == IsNext(c, Requests, bound.requests) /\ Authenticate(c, t)

\* Mutant: a reading that is not of the window, older ones too, restarts it.
CurrentCounterAnyOther(k, now) ==
    IF now # counters[k].start THEN [start |-> now, used |-> 0] ELSE counters[k]

\* The counter a request with this clock reading is counted in.
CurrentCounter(k, now) ==
    IF counters[k].start = None \/ now - counters[k].start >= Window
    THEN [start |-> now, used |-> 0]
    ELSE counters[k]

\* WindowLimiter.Allow under its lock.
Allow(c) ==
    LET k == key[c]
        current == CurrentCounter(k, stamp[c])
    IN  /\ phase[c] = "allow"
        /\ \/ /\ current.used >= Limit
              /\ counters' = [counters EXCEPT ![k] = current]
              /\ Refuse(c)
              /\ UNCHANGED <<clock, server, nodes, environment, history>>
           \/ /\ current.used < Limit
              /\ counters' = [counters EXCEPT ![k] = [current EXCEPT !.used = @ + 1]]
              /\ granted' = IF stamp[c] = clock
                            THEN [granted EXCEPT ![k][clock] = @ + 1] ELSE granted
              /\ phase' = [phase EXCEPT ![c] = "rank"]
              /\ UNCHANGED <<clock, server, nodes, locals, sockets, environment, untried>>

-----------------------------------------------------------------------------
(* HealthTracker.Candidates and Scheduler.Rank.                            *)

Healthy(n, now) == nodes[n].observed # None /\ now - nodes[n].observed <= Ttl

\* Lower load first, then the smaller id.
Before(m, n) ==
    \/ nodes[m].load < nodes[n].load
    \/ nodes[m].load = nodes[n].load /\ m < n

\* The healthy candidates, ranked: each stands where the number of the better
\* ones puts it.
Rank(now) ==
    LET healthy == {n \in Nodes : Healthy(n, now)}
    IN  [i \in 1..Cardinality(healthy) |->
            CHOOSE n \in healthy : Cardinality({m \in healthy : Before(m, n)}) = i - 1]

\* HandleConnection keeps the ranking to dial; handleAssignment answers with its
\* first element (Pick).
RankCandidates(c) ==
    /\ phase[c] = "rank"
    /\ \/ /\ Rank(stamp[c]) = <<>>
          /\ Refuse(c)
          /\ UNCHANGED <<clock, server, shared, environment, history>>
       \/ /\ Rank(stamp[c]) # <<>> /\ c \in Conns
          /\ queue' = [queue EXCEPT ![c] = Rank(stamp[c])]
          /\ untried' = [untried EXCEPT ![c] = {n \in Nodes : Healthy(n, stamp[c])}]
          /\ phase' = [phase EXCEPT ![c] = "dial"]
          /\ UNCHANGED <<clock, server, shared, key, stamp, egress, sockets, environment, granted>>
       \/ /\ Rank(stamp[c]) # <<>> /\ c \in Requests
          /\ egress' = [egress EXCEPT ![c] = Head(Rank(stamp[c]))]
          /\ phase' = [phase EXCEPT ![c] = "done"]
          /\ key' = [key EXCEPT ![c] = NoKey] /\ stamp' = [stamp EXCEPT ![c] = None]
          /\ UNCHANGED <<clock, server, shared, queue, sockets, environment, history>>

-----------------------------------------------------------------------------
(* Dialling and forwarding.                                                *)

\* Mutant of DialFails: a candidate without a target ends the loop.
DialFailsUnresolved(c) ==
    /\ phase[c] = "dial" /\ queue[c] # <<>>
    /\ queue' = [queue EXCEPT ![c] = IF Head(@) \in Reachable THEN Tail(@) ELSE <<>>]
    /\ untried' = [untried EXCEPT ![c] = @ \ {Head(queue[c])}]
    /\ UNCHANGED <<clock, server, shared, phase, key, stamp, egress, sockets, environment, granted>>

\* The next candidate cannot be resolved or dialled; a cancelled context fails
\* every dial.
DialFails(c) ==
    /\ phase[c] = "dial" /\ queue[c] # <<>>
    /\ queue' = [queue EXCEPT ![c] = Tail(@)]
    /\ untried' = [untried EXCEPT ![c] = @ \ {Head(queue[c])}]
    /\ UNCHANGED <<clock, server, shared, phase, key, stamp, egress, sockets, environment, granted>>

DialSucceeds(c) ==
    /\ phase[c] = "dial" /\ queue[c] # <<>> /\ Head(queue[c]) \in Reachable
    /\ egress' = [egress EXCEPT ![c] = Head(queue[c])]
    /\ egressOpen' = [egressOpen EXCEPT ![c] = TRUE]
    /\ copies' = [copies EXCEPT ![c] = Directions]
    /\ phase' = [phase EXCEPT ![c] = "forward"]
    /\ queue' = [queue EXCEPT ![c] = <<>>]
    /\ untried' = [untried EXCEPT ![c] = {}]
    /\ UNCHANGED <<clock, server, shared, key, stamp, clientOpen, taken, environment, granted>>

NoReachableEgress(c) ==
    /\ phase[c] = "dial" /\ queue[c] = <<>>
    /\ Refuse(c)
    /\ UNCHANGED <<clock, server, shared, environment, history>>

\* copyConnection ends: a peer closed its side or failed ...
CopyEnds(c, d) ==
    /\ phase[c] = "forward" /\ d \in copies[c]
    /\ copies' = [copies EXCEPT ![c] = @ \ {d}]
    /\ UNCHANGED <<clock, server, shared, phase, locals, clientOpen, egressOpen, taken,
                   environment, history>>

\* ... or the ingress closed the connections under it.
CopyCut(c, d) == ~(clientOpen[c] /\ egressOpen[c]) /\ CopyEnds(c, d)

CloseBoth(c) ==
    /\ clientOpen' = [clientOpen EXCEPT ![c] = FALSE]
    /\ egressOpen' = [egressOpen EXCEPT ![c] = FALSE]

\* Mutant: nobody waits for the context while copies run.
NoContextWatcher(c) == FALSE

\* The goroutine of ForwardBidirectional that waits for the context.
WatchContext(c) ==
    /\ phase[c] = "forward" /\ ctxDone
    /\ clientOpen[c] \/ egressOpen[c]
    /\ CloseBoth(c)
    /\ UNCHANGED <<clock, server, shared, phase, locals, copies, taken, environment, history>>

\* Mutant: only the client is closed after the first result.
TakeResultHalf(c) ==
    /\ phase[c] = "forward" /\ Cardinality(copies[c]) + taken[c] < 2
    /\ taken' = [taken EXCEPT ![c] = @ + 1]
    /\ clientOpen' = [clientOpen EXCEPT ![c] = FALSE]
    /\ IF taken[c] = 1 THEN Leave(c) ELSE UNCHANGED <<phase, locals>>
    /\ UNCHANGED <<clock, server, shared, egressOpen, copies, environment, history>>

\* ForwardBidirectional receives a result; the first one closes both connections,
\* the second one ends it.
TakeResult(c) ==
    /\ phase[c] = "forward" /\ Cardinality(copies[c]) + taken[c] < 2
    /\ taken' = [taken EXCEPT ![c] = @ + 1]
    /\ IF taken[c] = 0 THEN CloseBoth(c) ELSE UNCHANGED <<clientOpen, egressOpen>>
    /\ IF taken[c] = 1 THEN Leave(c) ELSE UNCHANGED <<phase, locals>>
    /\ UNCHANGED <<clock, server, shared, copies, environment, history>>

-----------------------------------------------------------------------------

\* The steps a connection's goroutines take by themselves.
HandlerStep(c) ==
    \/ StartRead(c) \/ ReadTimesOut(c)
    \/ Allow(c) \/ RankCandidates(c)
    \/ DialFails(c) \/ DialSucceeds(c) \/ NoReachableEgress(c)
    \/ \E d \in Directions : CopyCut(c, d)
    \/ WatchContext(c) \/ TakeResult(c)

\* What peers do to it.
PeerStep(c) ==
    \/ \E t \in Tokens : ReadToken(c, t)
    \/ ReadFails(c)
    \/ \E d \in Directions : CopyEnds(c, d)

ServeStep == AcceptFails \/ ServeReturns

Next ==
    \/ Tick \/ ServeStep \/ Cancel
    \/ \E n \in Nodes, load \in Loads, at \in 0..clock : Observe(n, load, at)
    \/ \E c \in Conns : Accept(c) \/ PeerStep(c) \/ HandlerStep(c)
    \/ \E c \in Requests, t \in Tokens : Request(c, t)
    \/ \E c \in Requests : Allow(c) \/ RankCandidates(c)

\* Go runs every goroutine that can run, and a closed listener makes Accept fail.
Fairness ==
    /\ WF_vars(ctxDone /\ AcceptFails) /\ WF_vars(ServeReturns)
    /\ \A c \in Conns : WF_vars(HandlerStep(c))

Spec == Init /\ [][Next]_vars /\ Fairness

-----------------------------------------------------------------------------
(* Properties.                                                             *)

TypeOK ==
    /\ clock \in Times
    /\ serve \in {"accepting", "draining", "returned"} /\ ctxDone \in BOOLEAN
    /\ counters \in [Keys -> [start : Times \union {None}, used : 0..Limit]]
    /\ \A n \in Nodes : nodes[n].load \in Nat /\ nodes[n].observed \in Times \union {None}
    /\ phase \in [Clients -> Phases]
    /\ key \in [Clients -> Keys \union {NoKey}]
    /\ stamp \in [Clients -> Times \union {None}]
    /\ egress \in [Clients -> Nodes \union {None}]
    /\ clientOpen \in [Clients -> BOOLEAN] /\ egressOpen \in [Clients -> BOOLEAN]
    /\ copies \in [Clients -> SUBSET Directions] /\ taken \in [Clients -> 0..2]
    /\ heartbeats \in 0..bound.heartbeats /\ bound \in Bounds

\* Over any stretch of time as long as the window, whether or not it straddles two
\* windows, a device gets at most 2 * Limit - 1 requests through (the one that opened
\* the earlier window lies before the stretch), counting only the requests that are
\* decided at the time they read the clock.  The clock is read outside the limiter's lock:
\* requests that come to it later than that take part in the windows and are not counted,
\* and how many of those get through is not bounded (WindowLimiter.Allow).
RateBound ==
    \A k \in Keys, t \in Times :
        MapThenSumSet(LAMBDA u : granted[k][u], {u \in Times : t <= u /\ u < t + Window})
            <= 2 * Limit - 1

\* Whichever way the handling of a connection ends (no token, refused, no egress,
\* one side gone, shutdown), both of its sockets are closed when it has ended.
NoSocketLeaks ==
    \A c \in Conns : phase[c] \in {"none", "done"} => ~clientOpen[c] /\ ~egressOpen[c]

\* A connection whose candidates were ranked is sent away only after it has tried every
\* node that was up at that moment, by the heartbeat the tracker received last, in order or
\* not: none drops out of the ranking or of the dialling because of ties of load, nodes
\* without a target, failing dials or heartbeats that come while it dials
\* (Scheduler.Rank, HandleConnection).
NoCandidateSkipped ==
    [][\A c \in Conns : phase[c] = "dial" /\ phase'[c] = "done" => untried[c] = {}]_vars

\* Once its context is cancelled, Serve returns: with a read timeout no connection
\* can keep wg.Wait waiting, whatever its peers do.
ShutdownCompletes == ctxDone ~> serve = "returned"

=============================================================================
