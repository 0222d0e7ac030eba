-------------------------- MODULE EdgeIngressProofs --------------------------
(***************************************************************************)
(* Proofs about EdgeIngress, for any connections, tokens, nodes, limits    *)
(* and clocks: the sockets of a connection through all its phases, the     *)
(* heartbeats behind the ranking of the egress nodes and the windows of    *)
(* the limiter; and about NodeService, for any bundles and endpoints.      *)
(***************************************************************************)
EXTENDS EdgeIngress, NodeService, FiniteSetTheorems, WellFoundedInduction, TLAPS

\* Before a connection is forwarded it has at most its client's socket; while it is,
\* the first result taken from the copies has closed both.
SocketsFollowPhase ==
    /\ phase \in [Clients -> Phases] /\ taken \in [Clients -> 0 .. 2]
    /\ clientOpen \in [Clients -> BOOLEAN] /\ egressOpen \in [Clients -> BOOLEAN]
    /\ \A c \in Clients :
           /\ phase[c] \in {"none", "done"} => ~clientOpen[c]
           /\ phase[c] # "forward" => ~egressOpen[c]
           /\ phase[c] # "forward" /\ phase[c] # "done" => taken[c] = 0
           /\ phase[c] = "forward" => taken[c] < 2
           /\ taken[c] > 0 => ~clientOpen[c] /\ ~egressOpen[c]
           /\ c \in Requests => phase[c] \in {"none", "allow", "rank", "done"} /\ ~clientOpen[c]

LEMMA InitSockets == Init => SocketsFollowPhase
  BY DEF Init, SocketsFollowPhase, Phases

LEMMA SocketsStep == SocketsFollowPhase /\ [Next]_vars => SocketsFollowPhase'
<1>. SUFFICES ASSUME SocketsFollowPhase, [Next]_vars PROVE SocketsFollowPhase'
  OBVIOUS
<1>. USE EdgeAssumption DEF SocketsFollowPhase, Phases, Clients, Directions
<1>1. ASSUME NEW c \in Conns, Accept(c) PROVE SocketsFollowPhase'
  BY <1>1 DEF Accept, IsNext
<1>2. ASSUME NEW c \in Conns, StartRead(c) \/ ReadTimesOut(c) \/ ReadFails(c)
      PROVE SocketsFollowPhase'
  BY <1>2 DEF StartRead, ReadTimesOut, ReadFails, TokenError, Refuse, Leave, sockets
<1>3. ASSUME NEW c \in Clients, NEW t \in Tokens, Authenticate(c, t),
             phase[c] = "reading" \/ (c \in Requests /\ phase[c] = "none")
      PROVE SocketsFollowPhase'
  BY <1>3 DEF Authenticate, Refuse, Leave, sockets
<1>4. ASSUME NEW c \in Clients, Allow(c) PROVE SocketsFollowPhase'
  BY <1>4 DEF Allow, Refuse, Leave, sockets
<1>5. ASSUME NEW c \in Clients, RankCandidates(c) PROVE SocketsFollowPhase'
  BY <1>5 DEF RankCandidates, Refuse, Leave, sockets
<1>6. ASSUME NEW c \in Conns, DialFails(c) \/ DialSucceeds(c) \/ NoReachableEgress(c)
      PROVE SocketsFollowPhase'
  <2>1. CASE DialFails(c)
    BY <2>1 DEF DialFails, sockets
  <2>2. CASE DialSucceeds(c)
    BY <2>2 DEF DialSucceeds
  <2>3. CASE NoReachableEgress(c)
    BY <2>3 DEF NoReachableEgress, Refuse, Leave
  <2>. QED
    BY <1>6, <2>1, <2>2, <2>3
<1>7. ASSUME NEW c \in Conns, NEW d \in Directions, CopyEnds(c, d) PROVE SocketsFollowPhase'
  BY <1>7 DEF CopyEnds
<1>8. ASSUME NEW c \in Conns, WatchContext(c) PROVE SocketsFollowPhase'
  BY <1>8 DEF WatchContext, CloseBoth
<1>9. ASSUME NEW c \in Conns, TakeResult(c) PROVE SocketsFollowPhase'
  <2>1. CASE taken[c] = 0
    <3>1. /\ phase[c] = "forward" /\ phase' = phase
          /\ taken' = [taken EXCEPT ![c] = 1]
          /\ clientOpen' = [clientOpen EXCEPT ![c] = FALSE]
          /\ egressOpen' = [egressOpen EXCEPT ![c] = FALSE]
      BY <1>9, <2>1 DEF TakeResult, CloseBoth
    <3>. QED
      BY <3>1
  <2>2. CASE taken[c] = 1
    BY <1>9, <2>2 DEF TakeResult, Leave
  <2>. QED
    BY <1>9, <2>1, <2>2 DEF TakeResult
<1>10. CASE \/ Tick \/ ServeStep \/ Cancel \/ UNCHANGED vars
            \/ \E n \in Nodes, load \in Loads, at \in 0 .. clock : Observe(n, load, at)
  BY <1>10 DEF Tick, ServeStep, AcceptFails, ServeReturns, Cancel, Observe, vars, sockets
<1>. QED
  BY <1>1, <1>2, <1>3, <1>4, <1>5, <1>6, <1>7, <1>8, <1>9, <1>10
     DEF Next, HandlerStep, PeerStep, ReadToken, Request, IsNext, CopyCut

\* For any number of connections and whatever peers, dials, copies and shutdown do, a
\* connection that has ended has left no socket open (Serve, HandleConnection and
\* ForwardBidirectional close what they leave).
THEOREM SocketsClosed == Spec => []NoSocketLeaks
<1>1. SocketsFollowPhase => NoSocketLeaks
  BY DEF SocketsFollowPhase, NoSocketLeaks, Clients
<1>. QED
  BY <1>1, InitSockets, SocketsStep, PTL DEF Spec

\* Once Serve has returned every goroutine has ended, and none begins.
Returned == serve = "returned" => \A c \in Conns : phase[c] \in {"none", "done"}

LEMMA ReturnedStep == ASSUME SocketsFollowPhase, Returned, [Next]_vars PROVE Returned'
<1>1. CASE UNCHANGED <<serve, phase>>
  BY <1>1 DEF Returned
<1>2. CASE serve' # "returned"
  BY <1>2 DEF Returned
<1>3. CASE ServeReturns
  BY <1>3 DEF ServeReturns, Returned
<1>4. ASSUME serve = "returned", NEW c \in Conns,
             \/ StartRead(c) \/ ReadTimesOut(c) \/ ReadFails(c) \/ Allow(c) \/ RankCandidates(c)
             \/ DialFails(c) \/ DialSucceeds(c) \/ NoReachableEgress(c)
             \/ WatchContext(c) \/ TakeResult(c)
             \/ \E d \in Directions : CopyEnds(c, d)
             \/ \E t \in Tokens : ReadToken(c, t)
      PROVE  FALSE
  <2>1. phase[c] \in {"none", "done"}
    BY <1>4 DEF Returned
  <2>. QED
    BY <1>4, <2>1 DEF StartRead, ReadTimesOut, ReadFails, Allow, RankCandidates, DialFails,
       DialSucceeds, NoReachableEgress, WatchContext, TakeResult, CopyEnds, ReadToken
<1>5. ASSUME serve = "returned", NEW c \in Conns, Accept(c) PROVE FALSE
  BY <1>5 DEF Accept
<1>6. ASSUME NEW c \in Requests, serve' = serve,
             \A d \in Clients : d # c => phase'[d] = phase[d]
      PROVE  Returned'
  BY <1>6, EdgeAssumption DEF Returned, Clients
<1>7. ASSUME NEW c \in Requests, Allow(c) \/ RankCandidates(c) \/ \E t \in Tokens : Request(c, t)
      PROVE  Returned'
  <2>1. serve' = serve /\ \E p : phase' = [phase EXCEPT ![c] = p]
    BY <1>7 DEF Allow, RankCandidates, Request, Authenticate, Refuse, Leave, server
  <2>2. \A d \in Clients : d # c => phase'[d] = phase[d]
    BY <2>1 DEF SocketsFollowPhase
  <2>. QED
    BY <1>6, <2>1, <2>2
<1>8. ASSUME serve = "returned", AcceptFails PROVE FALSE
  BY <1>8 DEF AcceptFails
<1>9. CASE Tick \/ Cancel \/ UNCHANGED vars
           \/ \E n \in Nodes, load \in Loads, at \in 0 .. clock : Observe(n, load, at)
  BY <1>1, <1>9 DEF Tick, Cancel, Observe, vars, server
<1>10. serve' = serve \/ ServeReturns \/ AcceptFails
  BY DEF Next, vars, server, Tick, ServeStep, Cancel, Observe, Accept, PeerStep, HandlerStep, StartRead,
         ReadTimesOut, ReadFails, TokenError, ReadToken, Request, Authenticate, Allow, RankCandidates,
         DialFails, DialSucceeds, NoReachableEgress, CopyCut, CopyEnds, WatchContext, TakeResult
<1>11. CASE serve = "returned"
  BY <1>3, <1>4, <1>5, <1>7, <1>8, <1>9, <1>11 DEF Next, ServeStep, PeerStep, HandlerStep, CopyCut
<1>12. CASE serve # "returned" /\ ~ServeReturns
  BY <1>2, <1>10, <1>12 DEF AcceptFails
<1>. QED
  BY <1>3, <1>11, <1>12

\* For any connections and however Serve came to its end, when it returns (wg.Wait) no
\* goroutine of a connection runs any more, none is started, and every socket is closed.
THEOREM ReturnLeavesNothing ==
    Spec => [](serve = "returned" =>
                  \A c \in Conns : /\ phase[c] \in {"none", "done"}
                                   /\ ~clientOpen[c] /\ ~egressOpen[c])
<1>. DEFINE Clean == serve = "returned" =>
                         \A c \in Conns : /\ phase[c] \in {"none", "done"}
                                          /\ ~clientOpen[c] /\ ~egressOpen[c]
<1>1. Init => Returned
  BY DEF Init, Returned
<1>2. SocketsFollowPhase /\ Returned => Clean
  BY DEF SocketsFollowPhase, Returned, Clients
<1>3. SocketsFollowPhase /\ Returned /\ [Next]_vars => Returned'
  BY ReturnedStep
<1>. HIDE DEF Clean
<1>4. Spec => []Clean
  BY <1>1, <1>2, <1>3, InitSockets, SocketsStep, PTL DEF Spec
<1>. QED
  BY <1>4 DEF Clean

-----------------------------------------------------------------------------
(* Heartbeats and the ranking.                                             *)

\* What the tracker holds of a node is what it was given; a client that is past its
\* credential has read the clock.
HealthInv ==
    /\ clock \in Nat
    /\ nodes \in [Nodes -> [load : Nat, observed : Nat \union {None}]]
    /\ stamp \in [Clients -> Nat \union {None}] /\ DOMAIN egress = Clients
    /\ phase \in [Clients -> Phases]
    /\ \A c \in Clients : phase[c] \in {"allow", "rank"} => stamp[c] \in Nat

\* A set of natural numbers has a least element.
LEMMA LeastNatural ==
  ASSUME NEW T \in SUBSET Nat, T # {}
  PROVE  \E x \in T : \A y \in T : x <= y
<1>. DEFINE R == {ss \in Nat \X Nat : ss[1] < ss[2]}
<1>1. OpToRel(<, Nat) = R
  BY Zenon DEF OpToRel
<1>2. IsWellFoundedOn(R, Nat)
  BY <1>1, NatLessThanWellFounded, Zenon
<1>3. \E x \in T : \A y \in T : ~(<<y, x>> \in R)
  <2>. HIDE DEF R
  <2>. QED
    BY <1>2, WFMin, Zenon
<1>4. ASSUME NEW x \in T, NEW y \in T, ~(<<y, x>> \in R)
      PROVE  x <= y
  BY <1>4
<1>. QED
  BY <1>3, <1>4

\* s lists the elements of S, each once, the better ones first.
IsRanking(s, S) ==
    /\ s \in Seq(S)
    /\ \A n \in S : \E i \in 1 .. Len(s) : s[i] = n
    /\ \A i, j \in 1 .. Len(s) : i < j => Before(s[i], s[j])

\* Nodes are strictly and totally ordered by load and id.
LEMMA BeforeIsOrder ==
  ASSUME HealthInv
  PROVE  /\ \A n \in Nodes : ~Before(n, n)
         /\ \A m, n \in Nodes : m # n => Before(m, n) \/ Before(n, m)
         /\ \A l, m, n \in Nodes : Before(l, m) /\ Before(m, n) => Before(l, n)
<1>1. \A n \in Nodes : n \in Nat /\ nodes[n].load \in Nat
  BY EdgeAssumption DEF HealthInv
<1>. QED
  BY <1>1 DEF Before

\* Counting the better ones puts every node at a place of its own: the places are a
\* bijection, so each of them is taken.
LEMMA RankIsRanking ==
  ASSUME HealthInv, NEW now \in Nat
  PROVE  IsRanking(Rank(now), {n \in Nodes : Healthy(n, now)})
<1>. DEFINE healthy == {n \in Nodes : Healthy(n, now)}
            size == Cardinality(healthy)
            better(n) == {m \in healthy : Before(m, n)}
            places == [n \in healthy |-> Cardinality(better(n))]
            place(i) == CHOOSE n \in healthy : Cardinality(better(n)) = i - 1
            ranked == [i \in 1 .. size |-> place(i)]
<1>1. Rank(now) = ranked
  BY DEF Rank
<1>2. healthy \subseteq Nodes
  OBVIOUS
<1>. HIDE DEF healthy
<1>3. IsFiniteSet(healthy) /\ size \in Nat
  BY <1>2, EdgeAssumption, FS_Subset, FS_CardinalityType
<1>4. ASSUME NEW n \in healthy PROVE IsFiniteSet(better(n)) /\ Cardinality(better(n)) \in 0 .. size - 1
  <2>1. better(n) \in SUBSET (healthy \ {n})
    BY <1>2, BeforeIsOrder
  <2>2. IsFiniteSet(healthy \ {n}) /\ Cardinality(healthy \ {n}) = size - 1
    BY <1>3, FS_RemoveElement
  <2>3. IsFiniteSet(better(n)) /\ Cardinality(better(n)) <= size - 1
    BY <2>1, <2>2, FS_Subset
  <2>4. Cardinality(better(n)) \in Nat
    BY <2>3, FS_CardinalityType
  <2>. QED
    BY <1>3, <2>3, <2>4
<1>5. ASSUME NEW m \in healthy, NEW n \in healthy, Before(m, n)
      PROVE  Cardinality(better(m)) < Cardinality(better(n))
  <2>1. better(m) \union {m} \in SUBSET better(n)
    BY <1>2, <1>5, BeforeIsOrder
  <2>2. m \notin better(m)
    BY <1>2, BeforeIsOrder
  <2>. HIDE DEF better
  <2>3. Cardinality(better(m) \union {m}) = Cardinality(better(m)) + 1
    BY <1>4, <2>2, FS_AddElement
  <2>4. Cardinality(better(m) \union {m}) <= Cardinality(better(n))
    BY <1>4, <2>1, FS_Subset
  <2>. QED
    BY <1>4, <2>3, <2>4
<1>6. places \in Injection(healthy, 0 .. size - 1)
  <2>. HIDE DEF better, size
  <2>1. places \in [healthy -> 0 .. size - 1]
    BY <1>4
  <2>2. ASSUME NEW m \in healthy, NEW n \in healthy, m # n PROVE places[m] # places[n]
    <3>1. Before(m, n) \/ Before(n, m)
      BY <1>2, <2>2, BeforeIsOrder
    <3>. QED
      BY <1>4, <1>5, <3>1
  <2>. HIDE DEF places
  <2>. QED
    BY <2>1, <2>2 DEF Injection, IsInjective
<1>7. places \in Surjection(healthy, 0 .. size - 1)
  <2>0. Cardinality(healthy) = size
    OBVIOUS
  <2>. HIDE DEF places, size
  <2>1. size - 1 \in Int /\ (size - 1) - 0 + 1 = size /\ ~(0 > size - 1 /\ size # 0)
    BY <1>3
  <2>2. IsFiniteSet(0 .. size - 1) /\ Cardinality(0 .. size - 1) = size
    BY <1>3, <2>1, FS_Interval
  <2>. QED
    BY <1>6, <2>0, <2>2, FS_Injection
<1>8. ASSUME NEW i \in 1 .. size
      PROVE  ranked[i] \in healthy /\ Cardinality(better(ranked[i])) = i - 1
  <2>1. i - 1 \in 0 .. size - 1
    BY <1>3
  <2>2. \E n \in healthy : places[n] = i - 1
    <3>. HIDE DEF places
    <3>. QED
      BY <1>7, <2>1 DEF Surjection
  <2>3. \E n \in healthy : Cardinality(better(n)) = i - 1
    BY <2>2
  <2>4. place(i) \in healthy /\ Cardinality(better(place(i))) = i - 1
    <3>. HIDE DEF better
    <3>. QED
      BY <2>3, Zenon
  <2>5. ranked[i] = place(i)
    <3>. HIDE DEF place
    <3>. QED
      OBVIOUS
  <2>. QED
    BY <2>4, <2>5
<1>9. ranked \in Seq(healthy) /\ Len(ranked) = size
  <2>1. ranked \in [1 .. size -> healthy]
    <3>1. ranked = [i \in 1 .. size |-> ranked[i]]
      <4>. HIDE DEF place, size
      <4>. QED
        OBVIOUS
    <3>. HIDE DEF ranked, size
    <3>. QED
      BY <1>8, <3>1
  <2>. HIDE DEF ranked, size
  <2>. QED
    BY <1>3, <2>1
<1>. HIDE DEF ranked, size, better
<1>10. ASSUME NEW n \in healthy PROVE \E i \in 1 .. Len(ranked) : ranked[i] = n
  <2>. DEFINE i == Cardinality(better(n)) + 1
  <2>1. i \in 1 .. size /\ i - 1 = Cardinality(better(n))
    BY <1>3, <1>4
  <2>2. ranked[i] \in healthy /\ Cardinality(better(ranked[i])) = Cardinality(better(n))
    BY <1>8, <2>1
  <2>. HIDE DEF i
  <2>3. ranked[i] = n
    <3>. SUFFICES ASSUME ranked[i] # n PROVE FALSE
      OBVIOUS
    <3>1. Before(ranked[i], n) \/ Before(n, ranked[i])
      BY <1>2, <2>2, BeforeIsOrder
    <3>. QED
      BY <1>4, <1>5, <2>2, <3>1
  <2>. QED
    BY <1>9, <2>1, <2>3
<1>11. ASSUME NEW i \in 1 .. Len(ranked), NEW j \in 1 .. Len(ranked), i < j
       PROVE  Before(ranked[i], ranked[j])
  <2>1. /\ ranked[i] \in healthy /\ ranked[j] \in healthy
        /\ Cardinality(better(ranked[i])) = i - 1 /\ Cardinality(better(ranked[j])) = j - 1
    BY <1>8, <1>9
  <2>2. ~(Cardinality(better(ranked[j])) < Cardinality(better(ranked[i]))) /\ ranked[i] # ranked[j]
    BY <1>3, <1>9, <1>11, <2>1
  <2>. QED
    BY <1>2, <1>5, <2>1, <2>2, BeforeIsOrder
<1>12. IsRanking(ranked, healthy)
  BY <1>9, <1>10, <1>11 DEF IsRanking
<1>. QED
  BY <1>1, <1>12 DEF healthy

\* The ranking is empty only if no node is healthy, and its first element is a node
\* (Scheduler.Rank, Pick).
LEMMA RankFacts ==
  ASSUME HealthInv, NEW now \in Nat
  PROVE  /\ Rank(now) = <<>> => \A n \in Nodes : ~Healthy(n, now)
         /\ Rank(now) # <<>> => Head(Rank(now)) \in Nodes
         /\ Rank(now) \in Seq(Nodes)
<1>. DEFINE healthy == {n \in Nodes : Healthy(n, now)}
<1>1. IsRanking(Rank(now), healthy)
  BY RankIsRanking
<1>2. Rank(now) = <<>> => healthy = {}
  <2>. HIDE DEF healthy
  <2>. QED
    BY <1>1 DEF IsRanking
<1>3. Rank(now) \in Seq(Nodes)
  <2>1. Rank(now) \in Seq(healthy) /\ healthy \subseteq Nodes
    BY <1>1 DEF IsRanking
  <2>. HIDE DEF healthy
  <2>. QED
    BY <2>1
<1>. QED
  BY <1>2, <1>3

LEMMA HealthStep == HealthInv /\ [Next]_vars => HealthInv'
<1>. SUFFICES ASSUME HealthInv, [Next]_vars PROVE HealthInv'
  OBVIOUS
<1>. USE EdgeAssumption DEF HealthInv, Phases, Clients, Directions
<1>1. ASSUME NEW n \in Nodes, NEW load \in Loads, NEW at \in 0 .. clock, Observe(n, load, at)
      PROVE  HealthInv'
  <2>1. /\ load \in Nat /\ at \in Nat
        /\ nodes' = [nodes EXCEPT ![n] = [load |-> load, observed |-> at]]
        /\ UNCHANGED <<clock, phase, stamp, egress>>
    BY <1>1 DEF Observe, locals
  <2>2. nodes' \in [Nodes -> [load : Nat, observed : Nat \union {None}]]
    BY <2>1
  <2>. QED
    BY <2>1, <2>2
<1>2. CASE Tick
  BY <1>2 DEF Tick, locals, shared, history
<1>3. CASE ServeStep \/ Cancel \/ UNCHANGED vars
  BY <1>3 DEF ServeStep, AcceptFails, ServeReturns, Cancel, vars, locals, shared, history
<1>4. ASSUME NEW c \in Conns, Accept(c) PROVE HealthInv'
  BY <1>4 DEF Accept, locals, shared, history
<1>5. ASSUME NEW c \in Conns, StartRead(c) \/ ReadTimesOut(c) \/ ReadFails(c) PROVE HealthInv'
  BY <1>5 DEF StartRead, ReadTimesOut, ReadFails, TokenError, Refuse, Leave, locals, shared, history
<1>6. ASSUME NEW c \in Clients, NEW t \in Tokens, Authenticate(c, t) PROVE HealthInv'
  BY <1>6 DEF Authenticate, Refuse, Leave, shared, history
<1>7. ASSUME NEW c \in Clients, Allow(c) PROVE HealthInv'
  BY <1>7 DEF Allow, Refuse, Leave, locals, history
<1>8. ASSUME NEW c \in Clients, RankCandidates(c) PROVE HealthInv'
  BY <1>8 DEF RankCandidates, Refuse, Leave, shared, history
<1>9. ASSUME NEW c \in Conns, DialFails(c) \/ DialSucceeds(c) \/ NoReachableEgress(c)
      PROVE  HealthInv'
  BY <1>9 DEF DialFails, DialSucceeds, NoReachableEgress, Refuse, Leave, shared, history
<1>10. ASSUME NEW c \in Conns, NEW d \in Directions, CopyEnds(c, d) PROVE HealthInv'
  BY <1>10 DEF CopyEnds, locals, shared, history
<1>11. ASSUME NEW c \in Conns, WatchContext(c) \/ TakeResult(c) PROVE HealthInv'
  BY <1>11 DEF WatchContext, TakeResult, Leave, locals, shared, history
<1>. QED
  BY <1>1, <1>2, <1>3, <1>4, <1>5, <1>6, <1>7, <1>8, <1>9, <1>10, <1>11
     DEF Next, HandlerStep, PeerStep, ReadToken, Request, CopyCut

\* For any nodes, loads and heartbeats and at every time, the ranking names every healthy
\* node once and nothing else, the lighter load first and the smaller id among equals
\* (HealthTracker.Candidates, Scheduler.Rank): HandleConnection dials in that order.
THEOREM RankingIsComplete ==
    Spec => [](\A now \in Nat : IsRanking(Rank(now), {n \in Nodes : Healthy(n, now)}))
<1>1. Init => HealthInv
  BY EdgeAssumption DEF Init, HealthInv, Phases, None
<1>2. HealthInv => \A now \in Nat : IsRanking(Rank(now), {n \in Nodes : Healthy(n, now)})
  BY RankIsRanking
<1>. QED
  BY <1>1, <1>2, HealthStep, PTL DEF Spec

-----------------------------------------------------------------------------
(***************************************************************************)
(* Sums over stretches of time.  MapThenSumSet takes the elements of a set *)
(* in an order it chooses; it is compared with a sum along the clock.      *)
(***************************************************************************)

\* A set that holds 0 and, with a number below n, the next one holds all up to n.
LEMMA CountUp ==
  ASSUME NEW n \in Nat, NEW S, 0 \in S, \A i \in 0 .. n - 1 : i \in S => i + 1 \in S
  PROVE  \A i \in 0 .. n : i \in S
<1>. DEFINE T == {i \in 0 .. n : i \notin S}
<1>. SUFFICES ASSUME T # {} PROVE FALSE
  OBVIOUS
<1>1. PICK x \in T : \A y \in T : x <= y
  <2>1. T \in SUBSET Nat
    OBVIOUS
  <2>. HIDE DEF T
  <2>. QED
    BY <2>1, LeastNatural
<1>2. x \in 1 .. n /\ x - 1 \in 0 .. n - 1 /\ x - 1 \notin T
  BY <1>1
<1>3. x - 1 \in S
  BY <1>2
<1>. QED
  BY <1>2, <1>3

IsPrefixSum(p, a, n) == p = [i \in 0 .. n |-> IF i = 0 THEN 0 ELSE p[i - 1] + a[i - 1]]
Total(a) == (CHOOSE p : IsPrefixSum(p, a, MaxClock + 1))[MaxClock + 1]

LEMMA PrefixSumExists == ASSUME NEW a PROVE \E p : IsPrefixSum(p, a, MaxClock + 1)
<1>. DEFINE M == MaxClock + 1
            S == {n \in 0 .. M : \E p : IsPrefixSum(p, a, n)}
<1>0. M \in Nat
  BY EdgeAssumption
<1>. HIDE DEF M
<1>1. 0 \in S
  <2>. DEFINE p == [i \in 0 .. 0 |-> 0]
  <2>1. IsPrefixSum(p, a, 0)
    BY DEF IsPrefixSum
  <2>. QED
    BY <1>0, <2>1
<1>2. ASSUME NEW n \in 0 .. M - 1, n \in S PROVE n + 1 \in S
  <2>1. PICK p : IsPrefixSum(p, a, n)
    BY <1>2
  <2>. DEFINE q == [i \in 0 .. n + 1 |-> IF i = n + 1 THEN p[n] + a[n] ELSE p[i]]
              r == [i \in 0 .. n + 1 |-> IF i = 0 THEN 0 ELSE q[i - 1] + a[i - 1]]
  <2>2. p[0] = 0 /\ \A i \in 1 .. n : p[i] = p[i - 1] + a[i - 1]
    BY <1>0, <2>1 DEF IsPrefixSum
  <2>3. ASSUME NEW i \in 0 .. n + 1 PROVE q[i] = r[i]
    <3>1. CASE i = n + 1
      BY <1>0, <3>1
    <3>2. CASE i \in 1 .. n
      BY <1>0, <2>2, <3>2
    <3>3. CASE i = 0
      BY <1>0, <2>2, <3>3
    <3>. QED
      BY <1>0, <3>1, <3>2, <3>3
  <2>4. q = r
    BY <2>3
  <2>5. IsPrefixSum(q, a, n + 1)
    BY <2>4 DEF IsPrefixSum
  <2>6. n + 1 \in 0 .. M
    BY <1>0
  <2>. HIDE DEF q
  <2>. QED
    BY <2>5, <2>6
<1>3. M \in S
  <2>. HIDE DEF S
  <2>. QED
    BY <1>0, <1>1, <1>2, CountUp
<1>. QED
  BY <1>3 DEF M

LEMMA TotalIsLast ==
  ASSUME NEW a \in [Times -> Nat]
  PROVE  \E p : /\ Total(a) = p[MaxClock + 1] /\ p[0] = 0
                /\ \A n \in 0 .. MaxClock : p[n + 1] = p[n] + a[n]
                /\ \A n \in 0 .. MaxClock + 1 : p[n] \in Nat
<1>1. PICK p : IsPrefixSum(p, a, MaxClock + 1) /\ Total(a) = p[MaxClock + 1]
  BY PrefixSumExists, Zenon DEF Total
<1>2. p[0] = 0 /\ \A n \in 0 .. MaxClock : p[n + 1] = p[n] + a[n]
  BY <1>1, EdgeAssumption DEF IsPrefixSum
<1>. DEFINE S == {n \in 0 .. MaxClock + 1 : p[n] \in Nat}
<1>3. 0 \in S
  BY <1>2, EdgeAssumption
<1>4. ASSUME NEW n \in 0 .. (MaxClock + 1) - 1, n \in S PROVE n + 1 \in S
  <2>1. n \in Times /\ n \in 0 .. MaxClock /\ n + 1 \in 0 .. MaxClock + 1
    BY EdgeAssumption DEF Times
  <2>. QED
    BY <1>2, <1>4, <2>1
<1>5. \A n \in 0 .. MaxClock + 1 : n \in S
  <2>. HIDE DEF S
  <2>. QED
    BY <1>3, <1>4, CountUp, EdgeAssumption
<1>. QED
  BY <1>1, <1>2, <1>5

LEMMA TotalAdds ==
  ASSUME NEW a \in [Times -> Nat], NEW b \in [Times -> Nat]
  PROVE  /\ Total([u \in Times |-> a[u] + b[u]]) = Total(a) + Total(b)
         /\ Total(a) \in Nat
<1>. DEFINE c == [u \in Times |-> a[u] + b[u]]
<1>1. c \in [Times -> Nat] /\ \A u \in Times : c[u] = a[u] + b[u]
  OBVIOUS
<1>. HIDE DEF c
<1>2. PICK p : /\ Total(a) = p[MaxClock + 1] /\ p[0] = 0
               /\ \A n \in 0 .. MaxClock : p[n + 1] = p[n] + a[n]
               /\ \A n \in 0 .. MaxClock + 1 : p[n] \in Nat
  BY TotalIsLast
<1>3. PICK q : /\ Total(b) = q[MaxClock + 1] /\ q[0] = 0
               /\ \A n \in 0 .. MaxClock : q[n + 1] = q[n] + b[n]
               /\ \A n \in 0 .. MaxClock + 1 : q[n] \in Nat
  BY TotalIsLast
<1>4. PICK r : /\ Total(c) = r[MaxClock + 1] /\ r[0] = 0
               /\ \A n \in 0 .. MaxClock : r[n + 1] = r[n] + c[n]
               /\ \A n \in 0 .. MaxClock + 1 : r[n] \in Nat
  BY <1>1, TotalIsLast
<1>. DEFINE S == {n \in 0 .. MaxClock + 1 : r[n] = p[n] + q[n]}
<1>5. 0 \in S
  BY <1>2, <1>3, <1>4, EdgeAssumption
<1>6. ASSUME NEW n \in 0 .. (MaxClock + 1) - 1, n \in S PROVE n + 1 \in S
  <2>1. n \in Times /\ n \in 0 .. MaxClock /\ n \in 0 .. MaxClock + 1 /\ n + 1 \in 0 .. MaxClock + 1
    BY EdgeAssumption DEF Times
  <2>2. a[n] \in Nat /\ b[n] \in Nat /\ p[n] \in Nat /\ q[n] \in Nat
    BY <1>2, <1>3, <2>1
  <2>3. r[n + 1] = r[n] + c[n] /\ p[n + 1] = p[n] + a[n] /\ q[n + 1] = q[n] + b[n]
    BY <1>2, <1>3, <1>4, <2>1
  <2>. QED
    BY <1>1, <1>6, <2>1, <2>2, <2>3
<1>7. MaxClock + 1 \in S
  <2>. HIDE DEF S
  <2>. QED
    BY <1>5, <1>6, CountUp, EdgeAssumption
<1>. QED
  BY <1>2, <1>3, <1>4, <1>7, EdgeAssumption DEF c

LEMMA TotalSpike ==
  ASSUME NEW x \in Times, NEW v \in Nat
  PROVE  Total([u \in Times |-> IF u = x THEN v ELSE 0]) = v
<1>. DEFINE a == [u \in Times |-> IF u = x THEN v ELSE 0]
<1>1. a \in [Times -> Nat] /\ \A u \in Times : a[u] = IF u = x THEN v ELSE 0
  OBVIOUS
<1>. HIDE DEF a
<1>2. PICK p : /\ Total(a) = p[MaxClock + 1] /\ p[0] = 0
               /\ \A n \in 0 .. MaxClock : p[n + 1] = p[n] + a[n]
               /\ \A n \in 0 .. MaxClock + 1 : p[n] \in Nat
  BY <1>1, TotalIsLast
<1>. DEFINE S == {n \in 0 .. MaxClock + 1 : p[n] = IF n > x THEN v ELSE 0}
<1>3. 0 \in S
  BY <1>2, EdgeAssumption DEF Times
<1>4. ASSUME NEW n \in 0 .. (MaxClock + 1) - 1, n \in S PROVE n + 1 \in S
  <2>1. n \in Times /\ n \in 0 .. MaxClock /\ n + 1 \in 0 .. MaxClock + 1
    BY EdgeAssumption DEF Times
  <2>2. p[n + 1] = p[n] + a[n]
    BY <1>2, <2>1
  <2>. QED
    BY <1>1, <1>4, <2>1, <2>2 DEF Times
<1>5. MaxClock + 1 \in S
  <2>. HIDE DEF S
  <2>. QED
    BY <1>3, <1>4, CountUp, EdgeAssumption
<1>. QED
  BY <1>2, <1>5, EdgeAssumption DEF a, Times

\* The sum of a function over a set of times, as RateBound has it, and along the clock.
SumOver(g, S) == MapThenSumSet(LAMBDA u : g[u], S)
On(g, S) == [u \in Times |-> IF u \in S THEN g[u] ELSE 0]

Chosen(s) == CHOOSE x \in s : TRUE
IsSetSum(f, g, S) ==
    f = [s \in SUBSET S |-> IF s = {} THEN 0 ELSE g[Chosen(s)] + f[s \ {Chosen(s)}]]

LEMMA TakeOne ==
  ASSUME NEW g \in [Times -> Nat], NEW s \in SUBSET Times, NEW x \in s
  PROVE  Total(On(g, s)) = g[x] + Total(On(g, s \ {x}))
<1>. DEFINE spike == [u \in Times |-> IF u = x THEN g[x] ELSE 0]
            rest == On(g, s \ {x})
<1>1. spike \in [Times -> Nat] /\ rest \in [Times -> Nat]
  BY DEF On
<1>2. On(g, s) = [u \in Times |-> spike[u] + rest[u]]
  BY DEF On
<1>3. Total(spike) = g[x]
  BY TotalSpike
<1>. HIDE DEF spike, rest
<1>4. Total([u \in Times |-> spike[u] + rest[u]]) = Total(spike) + Total(rest)
  BY <1>1, TotalAdds
<1>. QED
  BY <1>2, <1>3, <1>4 DEF rest

LEMMA TotalOfNothing == ASSUME NEW g \in [Times -> Nat] PROVE Total(On(g, {})) = 0
<1>1. 0 \in Times
  BY EdgeAssumption DEF Times
<1>2. On(g, {}) = [u \in Times |-> IF u = 0 THEN 0 ELSE 0]
  BY DEF On
<1>. QED
  BY <1>1, <1>2, TotalSpike

\* In whatever order the elements are taken, the two sums agree.
LEMMA SumIsTotal ==
  ASSUME NEW g \in [Times -> Nat], NEW S \in SUBSET Times
  PROVE  SumOver(g, S) = Total(On(g, S))
<1>. DEFINE total == [s \in SUBSET S |-> Total(On(g, s))]
            again == [s \in SUBSET S |->
                          IF s = {} THEN 0 ELSE g[Chosen(s)] + total[s \ {Chosen(s)}]]
<1>0. \A s \in SUBSET S : s # {} => Chosen(s) \in s
  BY DEF Chosen
<1>1. ASSUME NEW s \in SUBSET S PROVE total[s] = again[s]
  <2>1. CASE s = {}
    BY <2>1, TotalOfNothing
  <2>2. CASE s # {}
    <3>1. Chosen(s) \in s /\ s \ {Chosen(s)} \in SUBSET S /\ s \in SUBSET Times
      BY <1>0, <2>2
    <3>2. Total(On(g, s)) = g[Chosen(s)] + Total(On(g, s \ {Chosen(s)}))
      BY <3>1, TakeOne
    <3>. QED
      BY <2>2, <3>1, <3>2
  <2>. QED
    BY <2>1, <2>2
<1>2. total = again
  BY <1>1
<1>3. IsSetSum(total, g, S)
  BY <1>2 DEF IsSetSum
<1>4. SumOver(g, S) = (CHOOSE f : IsSetSum(f, g, S))[S]
  BY Zenon DEF SumOver, MapThenSumSet, MapThenFoldSet, IsSetSum, Chosen
<1>5. PICK f : IsSetSum(f, g, S) /\ SumOver(g, S) = f[S]
  <2>. HIDE DEF total
  <2>. QED
    BY <1>3, <1>4, Zenon
<1>6. \A s \in SUBSET S : f[s] = IF s = {} THEN 0 ELSE g[Chosen(s)] + f[s \ {Chosen(s)}]
  BY <1>5 DEF IsSetSum
<1>7. \A s \in SUBSET S : IsFiniteSet(s) /\ Cardinality(s) \in Nat
  <2>1. IsFiniteSet(Times)
    BY FS_Interval, EdgeAssumption DEF Times
  <2>. QED
    BY <2>1, FS_Subset, FS_CardinalityType
<1>8. ASSUME NEW s \in SUBSET S, f[s] # Total(On(g, s)) PROVE FALSE
  <2>. DEFINE Bad == {t \in SUBSET S : f[t] # Total(On(g, t))}
              Sizes == {Cardinality(t) : t \in Bad}
  <2>1. Sizes # {} /\ Sizes \in SUBSET Nat
    BY <1>7, <1>8
  <2>2. PICK n \in Sizes : \A m \in Sizes : n <= m
    <3>. HIDE DEF Sizes
    <3>. QED
      BY <2>1, LeastNatural
  <2>3. PICK t \in Bad : Cardinality(t) = n
    BY <2>2
  <2>4. t # {}
    <3>1. t \in SUBSET S /\ f[t] # Total(On(g, t))
      BY <2>3
    <3>. QED
      BY <1>6, <3>1, TotalOfNothing
  <2>. DEFINE x == Chosen(t)
              r == t \ {x}
  <2>5. x \in t /\ r \in SUBSET S /\ t \in SUBSET Times
    BY <1>0, <2>3, <2>4
  <2>6. Cardinality(r) = Cardinality(t) - 1
    BY <1>7, <2>3, <2>5, FS_RemoveElement
  <2>7. r \notin Bad
    <3>. SUFFICES ASSUME r \in Bad PROVE FALSE
      OBVIOUS
    <3>1. Cardinality(r) \in Sizes
      OBVIOUS
    <3>2. n \in Nat
      BY <2>1, <2>2
    <3>. QED
      BY <2>2, <2>3, <2>6, <3>1, <3>2
  <2>8. f[r] = Total(On(g, r))
    BY <2>5, <2>7
  <2>9. f[t] = g[x] + f[r]
    BY <1>6, <2>3, <2>4
  <2>10. Total(On(g, t)) = g[x] + Total(On(g, r))
    BY <2>5, TakeOne
  <2>. QED
    BY <2>3, <2>8, <2>9, <2>10
<1>. QED
  BY <1>5, <1>8

LEMMA SumFacts ==
  ASSUME NEW g \in [Times -> Nat], NEW S \in SUBSET Times
  PROVE  /\ SumOver(g, S) \in Nat
         /\ (\A u \in S : g[u] = 0) => SumOver(g, S) = 0
         /\ \A T \in SUBSET Times : S \cap T = {} =>
                SumOver(g, S \cup T) = SumOver(g, S) + SumOver(g, T)
<1>1. \A T \in SUBSET Times : On(g, T) \in [Times -> Nat] /\ SumOver(g, T) = Total(On(g, T))
  BY SumIsTotal DEF On
<1>2. SumOver(g, S) \in Nat
  BY <1>1, TotalAdds
<1>3. ASSUME \A u \in S : g[u] = 0 PROVE SumOver(g, S) = 0
  <2>1. On(g, S) = On(g, {})
    BY <1>3 DEF On
  <2>. QED
    BY <1>1, <2>1, TotalOfNothing
<1>4. ASSUME NEW T \in SUBSET Times, S \cap T = {}
      PROVE  SumOver(g, S \cup T) = SumOver(g, S) + SumOver(g, T)
  <2>. DEFINE a == On(g, S)
              b == On(g, T)
  <2>1. On(g, S \cup T) = [u \in Times |-> a[u] + b[u]]
    BY <1>4 DEF On
  <2>2. a \in [Times -> Nat] /\ b \in [Times -> Nat]
    BY <1>1
  <2>. HIDE DEF a, b
  <2>3. Total([u \in Times |-> a[u] + b[u]]) = Total(a) + Total(b)
    BY <2>2, TotalAdds
  <2>. QED
    BY <1>1, <2>1, <2>3 DEF a, b
<1>. QED
  BY <1>2, <1>3, <1>4

LEMMA SumGrows ==
  ASSUME NEW g \in [Times -> Nat], NEW T \in SUBSET Times, NEW S \in SUBSET T
  PROVE  SumOver(g, S) <= SumOver(g, T)
<1>. DEFINE R == T \ S
<1>1. /\ S \in SUBSET Times /\ R \in SUBSET Times /\ S \cap R = {} /\ S \cup R = T
  OBVIOUS
<1>2. SumOver(g, T) = SumOver(g, S) + SumOver(g, R)
  BY <1>1, SumFacts
<1>3. SumOver(g, S) \in Nat /\ SumOver(g, R) \in Nat
  BY <1>1, SumFacts
<1>. QED
  BY <1>2, <1>3

LEMMA SumCountsOne ==
  ASSUME NEW g \in [Times -> Nat], NEW x \in Times, NEW S \in SUBSET Times,
         NEW h, h = [g EXCEPT ![x] = @ + 1]
  PROVE  /\ h \in [Times -> Nat]
         /\ SumOver(h, S) = SumOver(g, S) + IF x \in S THEN 1 ELSE 0
<1>1. h \in [Times -> Nat]
  OBVIOUS
<1>2. CASE x \notin S
  <2>1. On(h, S) = On(g, S)
    BY <1>2 DEF On
  <2>2. SumOver(h, S) = Total(On(h, S))
    BY <1>1, SumIsTotal
  <2>3. SumOver(g, S) = Total(On(g, S))
    BY SumIsTotal
  <2>4. SumOver(g, S) \in Nat
    BY SumFacts
  <2>. QED
    BY <1>1, <1>2, <2>1, <2>2, <2>3, <2>4
<1>3. CASE x \in S
  <2>. DEFINE spike == [u \in Times |-> IF u = x THEN 1 ELSE 0]
              a == On(g, S)
  <2>0. ASSUME NEW u \in Times
        PROVE  (IF u \in S THEN h[u] ELSE 0) = a[u] + spike[u]
    <3>1. a[u] = (IF u \in S THEN g[u] ELSE 0) /\ spike[u] = (IF u = x THEN 1 ELSE 0)
      BY DEF On
    <3>2. h[u] = IF u = x THEN g[u] + 1 ELSE g[u]
      OBVIOUS
    <3>3. g[u] \in Nat
      OBVIOUS
    <3>. HIDE DEF a, spike
    <3>. QED
      BY <1>3, <3>1, <3>2, <3>3
  <2>1. On(h, S) = [u \in Times |-> a[u] + spike[u]]
    <3>. HIDE DEF a, spike
    <3>. QED
      BY <2>0 DEF On
  <2>2. a \in [Times -> Nat] /\ spike \in [Times -> Nat]
    BY DEF On
  <2>3. Total(spike) = 1
    BY TotalSpike
  <2>. HIDE DEF a, spike
  <2>4. Total([u \in Times |-> a[u] + spike[u]]) = Total(a) + Total(spike)
    BY <2>2, TotalAdds
  <2>5. SumOver(h, S) = Total(On(h, S)) /\ SumOver(g, S) = Total(a)
    BY <1>1, SumIsTotal DEF a
  <2>. QED
    BY <1>1, <1>3, <2>1, <2>3, <2>4, <2>5
<1>. QED
  BY <1>2, <1>3

-----------------------------------------------------------------------------
(* The rate limit.                                                         *)

From(t) == {u \in Times : u >= t}
After(t) == {u \in Times : u > t}
Between(t, s) == {u \in Times : t <= u /\ u < s}
Stretch(t) == {u \in Times : t <= u /\ u < t + Window}

\* What the counter of a key says of the requests let through: none at or after the end
\* of its window, all since its start are counted, and so is the one that opened it,
\* which is not later; shortly before the start there are fewer than Limit.
CurrentOK(g, start, used) ==
    /\ \A u \in Times : u >= start + Window => g[u] = 0
    /\ SumOver(g, From(start)) <= used
    /\ SumOver(g, After(start)) + 1 <= used
    /\ \A t \in Times : t < start /\ start < t + Window => SumOver(g, Between(t, start)) <= Limit - 1

WindowOK(g, cur) ==
    /\ cur.start = None => \A u \in Times : g[u] = 0
    /\ cur.start # None => CurrentOK(g, cur.start, cur.used)
    /\ \A t \in Times : SumOver(g, Stretch(t)) <= 2 * Limit - 1

\* A client about to be counted has a key and a reading of the clock.
RateInv ==
    /\ clock \in Times
    /\ counters \in [Keys -> [start : Times \union {None}, used : 0 .. Limit]]
    /\ granted \in [Keys -> [Times -> Nat]]
    /\ phase \in [Clients -> Phases]
    /\ key \in [Clients -> Keys \union {NoKey}] /\ stamp \in [Clients -> Times \union {None}]
    /\ \A c \in Clients : phase[c] = "allow" =>
           key[c] \in Keys /\ stamp[c] \in Times /\ stamp[c] <= clock
    /\ \A k \in Keys : counters[k].start <= clock /\ WindowOK(granted[k], counters[k])

LEMMA LimitFacts == Limit \in Nat /\ Limit >= 1 /\ Window \in Nat /\ Window >= 1
  BY EdgeAssumption DEF NewWindowLimiter

\* A stretch lies before the window, within it, or across its start.
LEMMA StretchBound ==
  ASSUME NEW g \in [Times -> Nat], NEW s \in Times,
         SumOver(g, From(s)) <= Limit,
         \A t \in Times : t < s /\ s < t + Window => SumOver(g, Between(t, s)) <= Limit - 1,
         NEW t \in Times, t + Window <= s => SumOver(g, Stretch(t)) <= 2 * Limit - 1
  PROVE  SumOver(g, Stretch(t)) <= 2 * Limit - 1
<1>0. t \in Nat /\ s \in Nat
  BY EdgeAssumption DEF Times
<1>1. /\ Stretch(t) \in SUBSET Times /\ From(s) \in SUBSET Times /\ Between(t, s) \in SUBSET Times
  BY DEF Stretch, From, Between
<1>2. /\ SumOver(g, Stretch(t)) \in Nat /\ SumOver(g, From(s)) \in Nat
      /\ SumOver(g, Between(t, s)) \in Nat
  BY <1>1, SumFacts
<1>3. CASE t + Window <= s
  BY <1>3
<1>4. CASE t >= s
  <2>1. Stretch(t) \in SUBSET From(s)
    BY <1>0, <1>4 DEF Stretch, From, Times
  <2>2. SumOver(g, Stretch(t)) <= SumOver(g, From(s))
    BY <1>1, <2>1, SumGrows
  <2>. QED
    BY <1>2, <2>2, LimitFacts
<1>5. CASE t < s /\ s < t + Window
  <2>. DEFINE rest == From(s) \cap Stretch(t)
  <2>1. /\ rest \in SUBSET From(s) /\ rest \in SUBSET Times /\ Between(t, s) \cap rest = {}
    BY <1>0 DEF Between, From, Times
  <2>2. Stretch(t) = Between(t, s) \cup rest
    BY <1>0, <1>5, LimitFacts DEF Stretch, Between, From, Times
  <2>. HIDE DEF rest
  <2>3. SumOver(g, Stretch(t)) = SumOver(g, Between(t, s)) + SumOver(g, rest)
    <3>. DEFINE B == Between(t, s)
    <3>1. B \in SUBSET Times /\ B \cap rest = {}
      BY <1>1, <2>1
    <3>. HIDE DEF B
    <3>2. SumOver(g, B \cup rest) = SumOver(g, B) + SumOver(g, rest)
      BY <2>1, <3>1, SumFacts
    <3>. QED
      BY <2>2, <3>2 DEF B
  <2>4. SumOver(g, rest) <= SumOver(g, From(s)) /\ SumOver(g, rest) \in Nat
    BY <1>1, <2>1, SumGrows, SumFacts
  <2>5. SumOver(g, Between(t, s)) <= Limit - 1
    BY <1>5
  <2>. QED
    BY <1>2, <2>3, <2>4, <2>5, LimitFacts
<1>. QED
  BY <1>0, <1>3, <1>4, <1>5, LimitFacts

\* A request is counted in the current window; it is recorded if its reading is of now.
LEMMA CountedInWindow ==
  ASSUME NEW g \in [Times -> Nat], NEW s \in Times, NEW used \in Nat, used < Limit,
         CurrentOK(g, s, used), \A t \in Times : SumOver(g, Stretch(t)) <= 2 * Limit - 1,
         NEW x \in Times, s <= x, x < s + Window,
         NEW h, h = g \/ h = [g EXCEPT ![x] = @ + 1]
  PROVE  CurrentOK(h, s, used + 1) /\ \A t \in Times : SumOver(h, Stretch(t)) <= 2 * Limit - 1
<1>0. x \in Nat /\ s \in Nat /\ \A t \in Times : t \in Nat
  BY EdgeAssumption DEF Times
<1>1. \A t \in Times : /\ From(t) \in SUBSET Times /\ After(t) \in SUBSET Times
                       /\ Stretch(t) \in SUBSET Times /\ Between(t, s) \in SUBSET Times
  BY DEF From, After, Stretch, Between
<1>2. h \in [Times -> Nat]
  BY SumCountsOne
<1>3. \A T \in SUBSET Times :
          /\ SumOver(g, T) \in Nat /\ SumOver(h, T) \in Nat
          /\ SumOver(h, T) <= SumOver(g, T) + 1
          /\ x \notin T => SumOver(h, T) = SumOver(g, T)
  <2>. SUFFICES ASSUME NEW T \in SUBSET Times
                PROVE  /\ SumOver(g, T) \in Nat /\ SumOver(h, T) \in Nat
                       /\ SumOver(h, T) <= SumOver(g, T) + 1
                       /\ x \notin T => SumOver(h, T) = SumOver(g, T)
    OBVIOUS
  <2>1. SumOver(g, T) \in Nat /\ SumOver(h, T) \in Nat
    BY <1>2, SumFacts
  <2>2. h # g => SumOver(h, T) = SumOver(g, T) + IF x \in T THEN 1 ELSE 0
    BY SumCountsOne
  <2>. QED
    BY <2>1, <2>2
<1>4. \A u \in Times : u >= s + Window => h[u] = 0
  <2>1. \A u \in Times : u # x => h[u] = g[u]
    OBVIOUS
  <2>. QED
    BY <1>0, <2>1, LimitFacts DEF CurrentOK
<1>5. SumOver(h, From(s)) <= used + 1 /\ SumOver(h, After(s)) + 1 <= used + 1
  BY <1>1, <1>3 DEF CurrentOK
<1>6. ASSUME NEW t \in Times, t < s, s < t + Window PROVE SumOver(h, Between(t, s)) <= Limit - 1
  <2>1. x \notin Between(t, s)
    BY <1>0 DEF Between
  <2>. QED
    BY <1>1, <1>3, <1>6, <2>1 DEF CurrentOK
<1>7. ASSUME NEW t \in Times PROVE SumOver(h, Stretch(t)) <= 2 * Limit - 1
  <2>1. SumOver(h, From(s)) <= Limit
    BY <1>1, <1>3, <1>5, LimitFacts
  <2>2. ASSUME t + Window <= s PROVE SumOver(h, Stretch(t)) <= 2 * Limit - 1
    <3>1. x \notin Stretch(t)
      BY <1>0, <2>2, LimitFacts DEF Stretch
    <3>. QED
      BY <1>1, <1>3, <3>1
  <2>. QED
    BY <1>2, <1>6, <2>1, <2>2, StretchBound
<1>. QED
  BY <1>4, <1>5, <1>6, <1>7 DEF CurrentOK

\* A request opens a window, the first of its key or one after the current one.
LEMMA OpensWindow ==
  ASSUME NEW g \in [Times -> Nat], NEW cur \in [start : Times \union {None}, used : 0 .. Limit],
         WindowOK(g, cur), NEW s \in Times, cur.start = None \/ s - cur.start >= Window,
         NEW h, h = g \/ h = [g EXCEPT ![s] = @ + 1]
  PROVE  CurrentOK(h, s, 1) /\ \A t \in Times : SumOver(h, Stretch(t)) <= 2 * Limit - 1
<1>0. s \in Nat /\ \A t \in Times : t \in Nat
  BY EdgeAssumption DEF Times
<1>1. \A t \in Times : /\ From(t) \in SUBSET Times /\ After(t) \in SUBSET Times
                       /\ Stretch(t) \in SUBSET Times /\ Between(t, s) \in SUBSET Times
  BY DEF From, After, Stretch, Between
<1>2. h \in [Times -> Nat]
  BY SumCountsOne
<1>3. ASSUME NEW u \in Times, u >= s PROVE g[u] = 0
  <2>1. CASE cur.start = None
    BY <2>1 DEF WindowOK
  <2>2. CASE cur.start # None
    <3>1. cur.start \in Nat /\ s - cur.start >= Window /\ u \in Nat
      BY <1>0, <2>2
    <3>2. u >= cur.start + Window
      BY <1>0, <1>3, <3>1, LimitFacts
    <3>. QED
      BY <2>2, <3>2 DEF WindowOK, CurrentOK
  <2>. QED
    BY <2>1, <2>2
<1>4. \A u \in Times : u # s => h[u] = g[u]
  OBVIOUS
<1>5. \A u \in Times : u >= s + Window => h[u] = 0
  BY <1>0, <1>3, <1>4, LimitFacts
<1>6. ASSUME NEW T \in SUBSET Times, s \notin T PROVE SumOver(h, T) = SumOver(g, T)
  <2>1. SumOver(g, T) \in Nat
    BY SumFacts
  <2>2. h # g => SumOver(h, T) = SumOver(g, T) + 0
    BY <1>6, SumCountsOne
  <2>. QED
    BY <2>1, <2>2
<1>7. SumOver(h, From(s)) <= 1
  <2>1. SumOver(g, From(s)) = 0
    BY <1>1, <1>3, SumFacts DEF From
  <2>2. h # g => SumOver(h, From(s)) = SumOver(g, From(s)) + IF s \in From(s) THEN 1 ELSE 0
    BY <1>1, SumCountsOne
  <2>. QED
    BY <2>1, <2>2
<1>8. SumOver(h, After(s)) = 0
  <2>1. \A u \in After(s) : h[u] = 0
    BY <1>0, <1>3, <1>4 DEF After
  <2>. QED
    BY <1>1, <1>2, <2>1, SumFacts
<1>9. ASSUME NEW t \in Times, t < s, s < t + Window PROVE SumOver(h, Between(t, s)) <= Limit - 1
  <2>1. SumOver(h, Between(t, s)) = SumOver(g, Between(t, s))
    <3>1. s \notin Between(t, s)
      BY <1>0 DEF Between
    <3>. QED
      BY <1>1, <1>6, <3>1
  <2>2. CASE cur.start = None
    <3>1. SumOver(g, Between(t, s)) = 0
      BY <1>1, <2>2, SumFacts DEF WindowOK, Between
    <3>. QED
      BY <2>1, <3>1, LimitFacts
  <2>3. CASE cur.start # None
    <3>1. cur.start \in Times /\ cur.start \in Nat /\ cur.used \in 0 .. Limit
      BY <1>0, <2>3
    <3>2. Between(t, s) \in SUBSET After(cur.start)
      BY <1>0, <1>9, <2>3, <3>1, LimitFacts DEF Between, After, Times
    <3>3. SumOver(g, Between(t, s)) <= SumOver(g, After(cur.start))
      BY <1>1, <3>1, <3>2, SumGrows
    <3>4. SumOver(g, After(cur.start)) + 1 <= cur.used
      BY <2>3 DEF WindowOK, CurrentOK
    <3>5. SumOver(g, Between(t, s)) \in Nat /\ SumOver(g, After(cur.start)) \in Nat
      BY <1>1, <3>1, SumFacts
    <3>. QED
      BY <2>1, <3>1, <3>3, <3>4, <3>5, LimitFacts
  <2>. QED
    BY <2>2, <2>3
<1>10. ASSUME NEW t \in Times PROVE SumOver(h, Stretch(t)) <= 2 * Limit - 1
  <2>1. SumOver(h, From(s)) <= Limit
    <3>1. SumOver(h, From(s)) \in Nat
      BY <1>1, <1>2, SumFacts
    <3>. QED
      BY <1>7, <3>1, LimitFacts
  <2>2. ASSUME t + Window <= s PROVE SumOver(h, Stretch(t)) <= 2 * Limit - 1
    <3>1. s \notin Stretch(t)
      BY <1>0, <2>2, LimitFacts DEF Stretch
    <3>. QED
      BY <1>1, <1>6, <3>1 DEF WindowOK
  <2>. QED
    BY <1>2, <1>9, <2>1, <2>2, StretchBound
<1>. QED
  BY <1>5, <1>7, <1>8, <1>9, <1>10 DEF CurrentOK

LEMMA AllowStep == ASSUME RateInv, NEW c \in Clients, Allow(c) PROVE RateInv'
<1>. DEFINE k == key[c]
            now == stamp[c]
            cur == counters[k]
            current == CurrentCounter(k, now)
            g == granted[k]
<1>1. /\ phase[c] = "allow" /\ k \in Keys /\ now \in Times /\ now <= clock
      /\ cur \in [start : Times \union {None}, used : 0 .. Limit] /\ g \in [Times -> Nat]
      /\ cur.start <= clock /\ WindowOK(g, cur) /\ clock' = clock
  BY DEF RateInv, Allow
<1>0. now \in Nat /\ clock \in Nat /\ clock \in Times
  BY <1>1, EdgeAssumption DEF RateInv, Times
<1>2. CASE current.used >= Limit
  <2>1. current = cur
    BY <1>1, <1>2, LimitFacts DEF CurrentCounter
  <2>2. UNCHANGED <<counters, granted>>
    <3>1. counters' = [counters EXCEPT ![k] = current] /\ granted' = granted
      BY <1>1, <1>2, LimitFacts, <2>1 DEF Allow, history
    <3>. QED
      BY <1>1, <2>1, <3>1 DEF RateInv
  <2>3. /\ phase' = [phase EXCEPT ![c] = "done"] /\ key' = [key EXCEPT ![c] = NoKey]
        /\ stamp' = [stamp EXCEPT ![c] = None]
    BY <1>1, <1>2, <2>1, LimitFacts DEF Allow, Refuse, Leave
  <2>. QED
    BY <1>1, <2>2, <2>3 DEF RateInv, Phases
<1>3. CASE current.used < Limit
  <2>. DEFINE next == [current EXCEPT !.used = @ + 1]
              h == IF now = clock THEN [g EXCEPT ![clock] = @ + 1] ELSE g
  <2>1. /\ current \in [start : Times, used : 0 .. Limit]
        /\ current.start <= clock
    BY <1>0, <1>1, LimitFacts DEF CurrentCounter, None
  <2>2. /\ counters' = [counters EXCEPT ![k] = next]
        /\ granted' = IF now = clock THEN [granted EXCEPT ![k][clock] = @ + 1] ELSE granted
        /\ phase' = [phase EXCEPT ![c] = "rank"] /\ UNCHANGED <<key, stamp>>
    BY <1>3, <2>1, LimitFacts DEF Allow, locals
  <2>3. granted' = [granted EXCEPT ![k] = h]
    BY <1>1, <2>2 DEF RateInv
  <2>4. h \in [Times -> Nat]
    BY <1>0, <1>1
  <2>5. /\ next \in [start : Times, used : 0 .. Limit]
        /\ next.start = current.start /\ next.used = current.used + 1
    BY <1>3, <2>1, LimitFacts
  <2>6. h = g \/ (now = clock /\ h = [g EXCEPT ![now] = @ + 1])
    OBVIOUS
  <2>7. /\ CurrentOK(h, next.start, next.used)
        /\ \A t \in Times : SumOver(h, Stretch(t)) <= 2 * Limit - 1
    <3>1. CASE cur.start = None \/ now - cur.start >= Window
      <4>1. current.start = now /\ current.used = 0
        BY <3>1 DEF CurrentCounter
      <4>2. next.start = now /\ next.used = 1
        BY <2>5, <4>1
      <4>. HIDE DEF h, next, current, g, cur, now
      <4>. QED
        BY <1>1, <2>6, <3>1, <4>2, OpensWindow
    <3>2. CASE ~(cur.start = None \/ now - cur.start >= Window)
      <4>1. current = cur
        BY <3>2 DEF CurrentCounter
      <4>2. cur.start \in Times /\ cur.used \in Nat /\ cur.used < Limit /\ CurrentOK(g, cur.start, cur.used)
        BY <1>1, <1>3, <3>2, <4>1 DEF WindowOK
      <4>3. \A t \in Times : SumOver(g, Stretch(t)) <= 2 * Limit - 1
        BY <1>1 DEF WindowOK
      <4>4. cur.start \in Nat
        BY <4>2 DEF Times
      <4>5. now < cur.start + Window
        BY <1>0, <3>2, <4>4, LimitFacts
      <4>6. ASSUME now = clock PROVE cur.start <= now
        BY <1>1, <4>6
      <4>7. next.start = cur.start /\ next.used = cur.used + 1
        BY <2>5, <4>1
      <4>8. \E x \in Times : /\ cur.start <= x /\ x < cur.start + Window
                             /\ h = g \/ h = [g EXCEPT ![x] = @ + 1]
        <5>1. CASE now = clock
          BY <1>1, <2>6, <4>5, <4>6, <5>1
        <5>2. CASE now # clock
          BY <4>2, <4>4, <5>2, LimitFacts
        <5>. QED
          BY <5>1, <5>2
      <4>. HIDE DEF h, next, current, g, cur, now
      <4>. QED
        BY <1>1, <4>2, <4>3, <4>7, <4>8, CountedInWindow
    <3>. QED
      BY <3>1, <3>2
  <2>. HIDE DEF h, next, current
  <2>8. WindowOK(h, next)
    <3>1. next.start # None
      BY <2>5 DEF Times, None
    <3>. QED
      BY <2>7, <3>1 DEF WindowOK
  <2>9. /\ counters' \in [Keys -> [start : Times \union {None}, used : 0 .. Limit]]
        /\ granted' \in [Keys -> [Times -> Nat]]
        /\ \A j \in Keys : /\ j = k => counters'[j] = next /\ granted'[j] = h
                           /\ j # k => counters'[j] = counters[j] /\ granted'[j] = granted[j]
    BY <1>1, <2>2, <2>3, <2>4, <2>5 DEF RateInv
  <2>10. \A j \in Keys : counters'[j].start <= clock' /\ WindowOK(granted'[j], counters'[j])
    BY <1>1, <2>1, <2>5, <2>8, <2>9 DEF RateInv
  <2>11. \A j \in Keys : WindowOK(granted[j], counters[j])' <=> WindowOK(granted'[j], counters'[j])
    BY DEF WindowOK, CurrentOK
  <2>12. /\ phase' \in [Clients -> Phases] /\ clock' \in Times
         /\ key' \in [Clients -> Keys \union {NoKey}] /\ stamp' \in [Clients -> Times \union {None}]
    BY <1>0, <1>1, <2>2 DEF RateInv, Phases
  <2>13. \A d \in Clients : phase'[d] = "allow" =>
             key'[d] \in Keys /\ stamp'[d] \in Times /\ stamp'[d] <= clock'
    BY <1>1, <2>2 DEF RateInv
  <2>. QED
    BY <2>9, <2>10, <2>11, <2>12, <2>13 DEF RateInv
<1>4. current.used \in Nat
  BY <1>1 DEF CurrentCounter
<1>. QED
  BY <1>2, <1>3, <1>4, LimitFacts

LEMMA RateStep == RateInv /\ [Next]_vars => RateInv'
<1>. SUFFICES ASSUME RateInv, [Next]_vars PROVE RateInv'
  OBVIOUS
<1>0. ASSUME UNCHANGED <<counters, granted>>, clock' \in Times, clock <= clock',
             phase' \in [Clients -> Phases], key' \in [Clients -> Keys \union {NoKey}],
             stamp' \in [Clients -> Times \union {None}],
             \A c \in Clients : phase'[c] = "allow" =>
                 key'[c] \in Keys /\ stamp'[c] \in Times /\ stamp'[c] <= clock'
      PROVE  RateInv'
  <2>1. \A k \in Keys : WindowOK(granted[k], counters[k])' <=> WindowOK(granted[k], counters[k])
    BY <1>0 DEF WindowOK, CurrentOK
  <2>2. ASSUME NEW k \in Keys PROVE counters[k].start <= clock'
    <3>1. counters[k].start \in Int /\ counters[k].start <= clock /\ clock \in Int /\ clock' \in Int
      BY <1>0, EdgeAssumption DEF RateInv, Times, None
    <3>. QED
      BY <1>0, <3>1
  <2>. QED
    BY <1>0, <2>1, <2>2 DEF RateInv
<1>t. clock \in Nat /\ clock \in Times /\ clock <= MaxClock
  BY EdgeAssumption DEF RateInv, Times
<1>1. CASE Tick
  <2>1. clock' = clock + 1 /\ clock' \in Times /\ clock <= clock'
        /\ UNCHANGED <<counters, granted, phase, key, stamp>>
    BY <1>1, <1>t, EdgeAssumption DEF Tick, Times, shared, locals, history
  <2>2. \A c \in Clients : stamp[c] \in Times /\ stamp[c] <= clock => stamp[c] <= clock'
    BY <1>t, <2>1, EdgeAssumption DEF Times
  <2>. QED
    BY <1>0, <2>1, <2>2 DEF RateInv
<1>2. ASSUME UNCHANGED <<counters, granted, clock, phase, key, stamp>> PROVE RateInv'
  BY <1>0, <1>2, <1>t DEF RateInv
<1>3. ASSUME NEW c \in Clients, NEW p \in Phases \ {"allow"},
             phase' = [phase EXCEPT ![c] = p],
             \/ UNCHANGED <<key, stamp>>
             \/ /\ key' = [key EXCEPT ![c] = NoKey]
                /\ stamp' = [stamp EXCEPT ![c] = None],
             UNCHANGED <<counters, granted, clock>>
      PROVE  RateInv'
  BY <1>0, <1>3, <1>t DEF RateInv
<1>4. ASSUME NEW c \in Clients, NEW t \in Tokens, Authenticate(c, t) PROVE RateInv'
  <2>1. CASE CredentialKey[t] = NoKey
    BY <1>3, <1>4, <2>1 DEF Authenticate, Refuse, Leave, shared, history, Phases
  <2>2. CASE CredentialKey[t] # NoKey
    <3>1. CredentialKey[t] \in Keys
      BY <2>2, EdgeAssumption DEF NewAuthenticator
    <3>2. /\ UNCHANGED <<counters, granted, clock>>
          /\ phase' = [phase EXCEPT ![c] = "allow"]
          /\ key' = [key EXCEPT ![c] = CredentialKey[t]]
          /\ stamp' = [stamp EXCEPT ![c] = clock]
      BY <1>4, <2>2 DEF Authenticate, shared, history
    <3>3. /\ phase' \in [Clients -> Phases] /\ key' \in [Clients -> Keys \union {NoKey}]
          /\ stamp' \in [Clients -> Times \union {None}]
      BY <1>t, <3>1, <3>2 DEF RateInv, Phases
    <3>4. ASSUME NEW d \in Clients, phase'[d] = "allow"
          PROVE  key'[d] \in Keys /\ stamp'[d] \in Times /\ stamp'[d] <= clock'
      <4>1. CASE d = c
        BY <1>t, <3>1, <3>2, <4>1 DEF RateInv
      <4>2. CASE d # c
        BY <3>2, <3>4, <4>2 DEF RateInv
      <4>. QED
        BY <4>1, <4>2
    <3>. QED
      BY <1>0, <1>t, <3>2, <3>3, <3>4
  <2>. QED
    BY <2>1, <2>2
<1>5. ASSUME NEW c \in Conns, Accept(c) \/ StartRead(c) \/ ReadTimesOut(c) \/ ReadFails(c)
      PROVE  RateInv'
  BY <1>3, <1>5 DEF Accept, StartRead, ReadTimesOut, ReadFails, TokenError, Refuse, Leave, shared,
     locals, history, Phases, Clients
<1>6. ASSUME NEW c \in Clients, RankCandidates(c) PROVE RateInv'
  BY <1>3, <1>6 DEF RankCandidates, Refuse, Leave, shared, history, Phases
<1>7. ASSUME NEW c \in Conns, DialFails(c) \/ DialSucceeds(c) \/ NoReachableEgress(c)
      PROVE  RateInv'
  <2>1. CASE DialFails(c)
    BY <1>2, <2>1 DEF DialFails, shared
  <2>2. CASE DialSucceeds(c)
    BY <1>3, <2>2 DEF DialSucceeds, shared, Phases, Clients
  <2>3. CASE NoReachableEgress(c)
    BY <1>3, <2>3 DEF NoReachableEgress, Refuse, Leave, shared, history, Phases, Clients
  <2>. QED
    BY <1>7, <2>1, <2>2, <2>3
<1>8. ASSUME NEW c \in Conns, NEW d \in Directions, CopyEnds(c, d) PROVE RateInv'
  BY <1>2, <1>8 DEF CopyEnds, shared, locals, history
<1>9. ASSUME NEW c \in Conns, WatchContext(c) \/ TakeResult(c) PROVE RateInv'
  BY <1>2, <1>3, <1>9 DEF WatchContext, TakeResult, Leave, shared, locals, history, Phases, Clients
<1>10. ASSUME NEW n \in Nodes, NEW load \in Loads, NEW at \in 0 .. clock, Observe(n, load, at)
       PROVE  RateInv'
  BY <1>2, <1>10 DEF Observe, locals, history
<1>11. CASE ServeStep \/ Cancel \/ UNCHANGED vars
  BY <1>2, <1>11 DEF ServeStep, AcceptFails, ServeReturns, Cancel, vars, shared, locals, history
<1>. QED
  BY <1>1, <1>4, <1>5, <1>6, <1>7, <1>8, <1>9, <1>10, <1>11, AllowStep
     DEF Next, HandlerStep, PeerStep, ReadToken, Request, CopyCut, Clients

LEMMA AlwaysRateInv == Spec => []RateInv
<1>1. Init => RateInv
  <2>. SUFFICES ASSUME Init PROVE RateInv
    OBVIOUS
  <2>1. /\ clock \in Times /\ None <= clock
        /\ counters \in [Keys -> [start : Times \union {None}, used : 0 .. Limit]]
        /\ granted \in [Keys -> [Times -> Nat]]
    BY EdgeAssumption, LimitFacts DEF Init, Times, None
  <2>2. ASSUME NEW k \in Keys PROVE WindowOK(granted[k], counters[k])
    <3>1. \A u \in Times : granted[k][u] = 0
      BY DEF Init
    <3>2. counters[k].start = None
      BY DEF Init
    <3>3. ASSUME NEW t \in Times PROVE SumOver(granted[k], Stretch(t)) <= 2 * Limit - 1
      <4>1. SumOver(granted[k], Stretch(t)) = 0
        BY <2>1, <3>1, SumFacts DEF Stretch
      <4>. QED
        BY <4>1, LimitFacts
    <3>. QED
      BY <3>1, <3>2, <3>3 DEF WindowOK
  <2>3. \A k \in Keys : counters[k].start <= clock
    BY <2>1 DEF Init
  <2>4. /\ phase \in [Clients -> Phases] /\ key \in [Clients -> Keys \union {NoKey}]
        /\ stamp \in [Clients -> Times \union {None}] /\ \A c \in Clients : phase[c] = "none"
    BY DEF Init, Phases
  <2>. QED
    BY <2>1, <2>2, <2>3, <2>4 DEF RateInv
<1>. QED
  BY <1>1, RateStep, PTL DEF Spec

\* For any limit, window and clients, a device gets at most 2 * Limit - 1 requests through
\* in any stretch as long as the window, counting only those decided at the time they read
\* the clock.  Requests that reach the limiter with an older reading take part in the
\* windows and are not counted (WindowLimiter.Allow).
THEOREM RateIsBounded == Spec => []RateBound
<1>1. RateInv => RateBound
  BY Zenon DEF RateInv, WindowOK, RateBound, SumOver, Stretch
<1>. QED
  BY <1>1, AlwaysRateInv, PTL

-----------------------------------------------------------------------------
(***************************************************************************)
(* Types.  Clock, counters, sockets and heartbeats have theirs from the    *)
(* invariants above; what is left are the egress nodes, which come out of  *)
(* the ranking, and the bookkeeping of Serve.                              *)
(***************************************************************************)

\* Candidates are nodes, and a connection is forwarded to one that has a target.
EgressInv ==
    /\ queue \in [Clients -> Seq(Nodes)]
    /\ egress \in [Clients -> Nodes \union {None}]
    /\ \A c \in Conns : phase[c] = "forward" => egress[c] \in Reachable

ServeInv ==
    /\ serve \in {"accepting", "draining", "returned"} /\ ctxDone \in BOOLEAN
    /\ \A n \in Nodes : nodes[n].observed \in Times \union {None}
    /\ copies \in [Clients -> SUBSET Directions]
    /\ bound \in Bounds /\ heartbeats \in 0 .. bound.heartbeats

LEMMA EgressStep ==
  ASSUME SocketsFollowPhase, HealthInv, EgressInv, [Next]_vars
  PROVE  EgressInv'
<1>. USE EdgeAssumption DEF EgressInv
<1>p. phase \in [Clients -> Phases] /\ Conns \subseteq Clients
  BY DEF HealthInv, Clients
<1>1. ASSUME UNCHANGED <<queue, egress>>, \A c \in Conns : phase'[c] = "forward" => phase[c] = "forward"
      PROVE  EgressInv'
  BY <1>1
<1>2. ASSUME NEW c \in Clients, Leave(c) PROVE EgressInv'
  <2>1. /\ queue' = [queue EXCEPT ![c] = <<>>] /\ egress' = [egress EXCEPT ![c] = None]
        /\ phase' = [phase EXCEPT ![c] = "done"]
    BY <1>2 DEF Leave
  <2>. QED
    BY <1>p, <2>1
<1>3. CASE UNCHANGED <<phase, queue, egress>>
  BY <1>1, <1>3
<1>4. ASSUME NEW c \in Conns, Accept(c) \/ StartRead(c) PROVE EgressInv'
  BY <1>1, <1>2, <1>4, <1>p DEF Accept, StartRead, TokenError, Refuse, locals
<1>5. ASSUME NEW c \in Conns, ReadTimesOut(c) \/ ReadFails(c) \/ NoReachableEgress(c) PROVE EgressInv'
  BY <1>2, <1>5, <1>p DEF ReadTimesOut, ReadFails, TokenError, NoReachableEgress, Refuse
<1>6. ASSUME NEW c \in Clients, NEW t \in Tokens, Authenticate(c, t) PROVE EgressInv'
  BY <1>1, <1>2, <1>6, <1>p DEF Authenticate, Refuse
<1>7. ASSUME NEW c \in Clients, Allow(c) PROVE EgressInv'
  BY <1>1, <1>2, <1>7, <1>p DEF Allow, Refuse, locals
<1>8. ASSUME NEW c \in Clients, RankCandidates(c) PROVE EgressInv'
  <2>1. stamp[c] \in Nat /\ phase[c] = "rank"
    BY <1>8 DEF RankCandidates, HealthInv
  <2>2. /\ Rank(stamp[c]) \in Seq(Nodes)
        /\ Rank(stamp[c]) # <<>> => Head(Rank(stamp[c])) \in Nodes
    BY <2>1, RankFacts
  <2>3. CASE Refuse(c)
    BY <1>2, <2>3 DEF Refuse
  <2>4. CASE /\ queue' = [queue EXCEPT ![c] = Rank(stamp[c])] /\ UNCHANGED egress
             /\ phase' = [phase EXCEPT ![c] = "dial"]
    BY <1>p, <2>2, <2>4
  <2>5. CASE /\ Rank(stamp[c]) # <<>> /\ UNCHANGED queue
             /\ egress' = [egress EXCEPT ![c] = Head(Rank(stamp[c]))]
             /\ phase' = [phase EXCEPT ![c] = "done"]
    BY <1>p, <2>2, <2>5
  <2>. QED
    BY <1>8, <2>3, <2>4, <2>5 DEF RankCandidates
<1>9. ASSUME NEW c \in Conns, DialFails(c) PROVE EgressInv'
  <2>1. /\ queue[c] # <<>> /\ queue' = [queue EXCEPT ![c] = Tail(@)] /\ UNCHANGED <<phase, egress>>
    BY <1>9 DEF DialFails
  <2>2. queue[c] \in Seq(Nodes)
    BY <1>p
  <2>3. Tail(queue[c]) \in Seq(Nodes)
    BY <2>1, <2>2
  <2>. QED
    BY <1>p, <2>1, <2>3
<1>10. ASSUME NEW c \in Conns, DialSucceeds(c) PROVE EgressInv'
  <2>1. /\ queue' = [queue EXCEPT ![c] = <<>>] /\ egress' = [egress EXCEPT ![c] = Head(queue[c])]
        /\ phase' = [phase EXCEPT ![c] = "forward"] /\ Head(queue[c]) \in Reachable
    BY <1>10 DEF DialSucceeds
  <2>2. Head(queue[c]) \in Nodes
    BY <2>1 DEF NewStaticEgressResolver
  <2>. HIDE DEF EgressInv
  <2>3. queue' \in [Clients -> Seq(Nodes)] /\ egress' \in [Clients -> Nodes \union {None}]
    BY <1>p, <2>1, <2>2 DEF EgressInv
  <2>4. \A d \in Conns : phase'[d] = "forward" => egress'[d] \in Reachable
    BY <1>p, <2>1 DEF EgressInv
  <2>. QED
    BY <2>3, <2>4 DEF EgressInv
<1>11. ASSUME NEW c \in Conns, TakeResult(c) PROVE EgressInv'
  BY <1>2, <1>3, <1>11, <1>p DEF TakeResult, locals
<1>12. \/ UNCHANGED <<phase, queue, egress>>
       \/ \E c \in Conns : \/ Accept(c) \/ StartRead(c) \/ ReadTimesOut(c) \/ ReadFails(c)
                           \/ NoReachableEgress(c) \/ DialFails(c) \/ DialSucceeds(c) \/ TakeResult(c)
       \/ \E c \in Clients : Allow(c) \/ RankCandidates(c)
       \/ \E c \in Clients, t \in Tokens : Authenticate(c, t)
  BY DEF Next, vars, locals, Tick, ServeStep, AcceptFails, ServeReturns, Cancel, Observe, HandlerStep,
         PeerStep, ReadToken, Request, CopyCut, CopyEnds, WatchContext, Clients
<1>. HIDE DEF EgressInv
<1>. QED
  BY <1>3, <1>4, <1>5, <1>6, <1>7, <1>8, <1>9, <1>10, <1>11, <1>12

\* What a connection has not tried yet is still among its candidates.
TriedInv ==
    /\ untried \in [Clients -> SUBSET Nodes]
    /\ \A c \in Conns : phase[c] = "dial" =>
           \A n \in untried[c] : \E i \in 1 .. Len(queue[c]) : queue[c][i] = n

LEMMA TriedStep ==
  ASSUME HealthInv, EgressInv, TriedInv, [Next]_vars
  PROVE  TriedInv'
<1>p. /\ phase \in [Clients -> Phases] /\ Conns \subseteq Clients
      /\ queue \in [Clients -> Seq(Nodes)] /\ untried \in [Clients -> SUBSET Nodes]
  BY DEF HealthInv, EgressInv, TriedInv, Clients
<1>1. ASSUME UNCHANGED untried,
             \A c \in Conns : phase'[c] = "dial" => phase[c] = "dial" /\ queue'[c] = queue[c]
      PROVE  TriedInv'
  BY <1>1 DEF TriedInv
<1>2. ASSUME NEW c \in Clients, Leave(c), UNCHANGED untried PROVE TriedInv'
  BY <1>1, <1>2, <1>p DEF Leave
<1>3. ASSUME UNCHANGED <<phase, queue, untried>> PROVE TriedInv'
  BY <1>1, <1>3
<1>4. ASSUME NEW c \in Clients, NEW p \in Phases \ {"dial"},
             phase' = [phase EXCEPT ![c] = p], UNCHANGED <<queue, untried>>
      PROVE  TriedInv'
  BY <1>1, <1>4, <1>p
<1>5. ASSUME NEW c \in Conns, Accept(c) \/ StartRead(c) PROVE TriedInv'
  BY <1>2, <1>4, <1>5, <1>p DEF Accept, StartRead, TokenError, Refuse, locals, history, Phases
<1>6. ASSUME NEW c \in Conns, ReadTimesOut(c) \/ ReadFails(c) \/ NoReachableEgress(c) PROVE TriedInv'
  BY <1>2, <1>6, <1>p DEF ReadTimesOut, ReadFails, TokenError, NoReachableEgress, Refuse, history
<1>7. ASSUME NEW c \in Clients, NEW t \in Tokens, Authenticate(c, t) PROVE TriedInv'
  BY <1>2, <1>4, <1>7, <1>p DEF Authenticate, Refuse, history, Phases
<1>8. ASSUME NEW c \in Clients, Allow(c) PROVE TriedInv'
  BY <1>2, <1>4, <1>8, <1>p DEF Allow, Refuse, locals, history, Phases
<1>9. ASSUME NEW c \in Clients, RankCandidates(c) PROVE TriedInv'
  <2>. DEFINE healthy == {n \in Nodes : Healthy(n, stamp[c])}
  <2>1. stamp[c] \in Nat
    BY <1>9 DEF RankCandidates, HealthInv
  <2>2. \A n \in healthy : \E i \in 1 .. Len(Rank(stamp[c])) : Rank(stamp[c])[i] = n
    <3>1. IsRanking(Rank(stamp[c]), healthy)
      BY <2>1, RankIsRanking
    <3>. HIDE DEF healthy
    <3>. QED
      BY <3>1 DEF IsRanking
  <2>3. CASE Refuse(c) /\ UNCHANGED untried
    BY <1>2, <2>3 DEF Refuse
  <2>4. CASE /\ queue' = [queue EXCEPT ![c] = Rank(stamp[c])]
             /\ untried' = [untried EXCEPT ![c] = healthy]
             /\ phase' = [phase EXCEPT ![c] = "dial"]
    <3>1. healthy \in SUBSET Nodes
      OBVIOUS
    <3>. HIDE DEF healthy
    <3>2. untried' \in [Clients -> SUBSET Nodes] /\ untried'[c] = healthy
      BY <1>p, <2>4, <3>1
    <3>3. ASSUME NEW d \in Conns, phase'[d] = "dial", NEW n \in untried'[d]
          PROVE  \E i \in 1 .. Len(queue'[d]) : queue'[d][i] = n
      <4>1. CASE d = c
        <5>1. queue'[d] = Rank(stamp[c]) /\ n \in healthy
          BY <1>p, <2>4, <3>2, <3>3, <4>1
        <5>. QED
          BY <2>2, <5>1
      <4>2. CASE d # c
        <5>1. queue'[d] = queue[d] /\ phase[d] = "dial" /\ n \in untried[d]
          BY <1>p, <2>4, <3>3, <4>2
        <5>. QED
          BY <5>1 DEF TriedInv
      <4>. QED
        BY <4>1, <4>2
    <3>. QED
      BY <3>2, <3>3 DEF TriedInv
  <2>5. CASE phase' = [phase EXCEPT ![c] = "done"] /\ UNCHANGED <<queue, untried>>
    BY <1>4, <2>5 DEF Phases
  <2>. HIDE DEF healthy
  <2>6. \/ Refuse(c) /\ UNCHANGED untried
        \/ /\ queue' = [queue EXCEPT ![c] = Rank(stamp[c])]
           /\ untried' = [untried EXCEPT ![c] = healthy]
           /\ phase' = [phase EXCEPT ![c] = "dial"]
        \/ phase' = [phase EXCEPT ![c] = "done"] /\ UNCHANGED <<queue, untried>>
    BY <1>9 DEF RankCandidates, history, healthy
  <2>. QED
    BY <2>3, <2>4, <2>5, <2>6
<1>10. ASSUME NEW c \in Conns, DialFails(c) PROVE TriedInv'
  <2>1. /\ phase[c] = "dial" /\ queue[c] # <<>> /\ queue' = [queue EXCEPT ![c] = Tail(@)]
        /\ untried' = [untried EXCEPT ![c] = @ \ {Head(queue[c])}] /\ UNCHANGED phase
    BY <1>10 DEF DialFails
  <2>2. queue[c] \in Seq(Nodes) /\ untried' \in [Clients -> SUBSET Nodes]
    BY <1>p, <2>1
  <2>3. ASSUME NEW d \in Conns, phase'[d] = "dial", NEW n \in untried'[d]
        PROVE  \E i \in 1 .. Len(queue'[d]) : queue'[d][i] = n
    <3>1. CASE d = c
      <4>1. n \in untried[c] /\ n # Head(queue[c]) /\ queue'[c] = Tail(queue[c])
        BY <1>p, <2>1, <2>3, <3>1
      <4>2. PICK i \in 1 .. Len(queue[c]) : queue[c][i] = n
        BY <2>1, <4>1 DEF TriedInv
      <4>3. i # 1
        BY <2>1, <2>2, <4>1, <4>2
      <4>4. i - 1 \in 1 .. Len(Tail(queue[c])) /\ Tail(queue[c])[i - 1] = queue[c][i]
        BY <2>1, <2>2, <4>2, <4>3
      <4>. QED
        BY <3>1, <4>1, <4>2, <4>4
    <3>2. CASE d # c
      BY <1>p, <2>1, <2>3, <3>2 DEF TriedInv
    <3>. QED
      BY <3>1, <3>2
  <2>. QED
    BY <2>2, <2>3 DEF TriedInv
<1>11. ASSUME NEW c \in Conns, DialSucceeds(c) PROVE TriedInv'
  <2>1. /\ phase' = [phase EXCEPT ![c] = "forward"] /\ queue' = [queue EXCEPT ![c] = <<>>]
        /\ untried' = [untried EXCEPT ![c] = {}]
    BY <1>11 DEF DialSucceeds
  <2>2. untried' \in [Clients -> SUBSET Nodes]
    BY <1>p, <2>1
  <2>3. \A d \in Conns : phase'[d] = "dial" =>
            d # c /\ phase[d] = "dial" /\ queue'[d] = queue[d] /\ untried'[d] = untried[d]
    BY <1>p, <2>1
  <2>. QED
    BY <2>2, <2>3 DEF TriedInv
<1>12. ASSUME NEW c \in Conns, TakeResult(c) PROVE TriedInv'
  BY <1>2, <1>3, <1>12, <1>p DEF TakeResult, locals, history
<1>13. \/ UNCHANGED <<phase, queue, untried>>
       \/ \E c \in Conns : \/ Accept(c) \/ StartRead(c) \/ ReadTimesOut(c) \/ ReadFails(c)
                           \/ NoReachableEgress(c) \/ DialFails(c) \/ DialSucceeds(c) \/ TakeResult(c)
       \/ \E c \in Clients : Allow(c) \/ RankCandidates(c)
       \/ \E c \in Clients, t \in Tokens : Authenticate(c, t)
  BY DEF Next, vars, locals, history, Tick, ServeStep, AcceptFails, ServeReturns, Cancel, Observe,
         HandlerStep, PeerStep, ReadToken, Request, CopyCut, CopyEnds, WatchContext, Clients
<1>. QED
  BY <1>3, <1>5, <1>6, <1>7, <1>8, <1>9, <1>10, <1>11, <1>12, <1>13

\* A connection that dials is sent away only with no candidate left.
LEMMA OnlyEmptyEnds ==
  ASSUME HealthInv, Next, NEW c \in Conns, phase[c] = "dial", phase'[c] = "done"
  PROVE  queue[c] = <<>>
<1>. USE DEF HealthInv
<1>0. c \in Clients
  BY DEF Clients
<1>1. ASSUME NEW d \in Clients,
             \/ (Accept(d) /\ d \in Conns) \/ StartRead(d) \/ ReadTimesOut(d) \/ ReadFails(d)
             \/ Allow(d) \/ RankCandidates(d) \/ DialFails(d) \/ DialSucceeds(d)
             \/ WatchContext(d) \/ TakeResult(d)
             \/ \E dir \in Directions : CopyEnds(d, dir)
      PROVE  FALSE
  BY <1>0, <1>1 DEF Accept, IsNext, StartRead, ReadTimesOut, ReadFails, TokenError, Allow,
     RankCandidates, DialFails, DialSucceeds, WatchContext, TakeResult, CopyEnds, Refuse, Leave
<1>2. ASSUME NEW d \in Clients, NEW t \in Tokens, ReadToken(d, t) \/ Request(d, t)
      PROVE  FALSE
  BY <1>0, <1>2 DEF ReadToken, Request, IsNext, Authenticate, Refuse, Leave
<1>3. ASSUME NEW d \in Conns, NoReachableEgress(d) PROVE d = c /\ queue[c] = <<>>
  BY <1>0, <1>3 DEF NoReachableEgress, Refuse, Leave, Clients
<1>4. ASSUME \/ Tick \/ ServeStep \/ Cancel
             \/ \E n \in Nodes, load \in Loads, at \in 0 .. clock : Observe(n, load, at)
      PROVE  FALSE
  BY <1>4 DEF Tick, ServeStep, AcceptFails, ServeReturns, Cancel, Observe
<1>. QED
  BY <1>1, <1>2, <1>3, <1>4 DEF Next, HandlerStep, PeerStep, CopyCut, Clients

\* For any nodes, loads and heartbeats, late and out of order and while it dials, a
\* connection whose candidates were ranked is sent away only after it has tried every node
\* whose heartbeat, as the tracker held it then, was not older than the ttl
\* (HealthTracker.Candidates, Scheduler.Rank, HandleConnection).
THEOREM SentAwayAfterAll == Spec => NoCandidateSkipped
<1>. DEFINE Inv == HealthInv /\ EgressInv /\ TriedInv
<1>1. Init => Inv /\ SocketsFollowPhase
  <2>. SUFFICES ASSUME Init PROVE Inv /\ SocketsFollowPhase
    OBVIOUS
  <2>1. HealthInv
    BY EdgeAssumption DEF Init, HealthInv, Phases, None
  <2>2. EgressInv /\ TriedInv
    BY DEF Init, EgressInv, TriedInv, Clients
  <2>. QED
    BY <2>1, <2>2, InitSockets
<1>2. SocketsFollowPhase /\ Inv /\ [Next]_vars => Inv'
  BY HealthStep, EgressStep, TriedStep
<1>3. ASSUME Inv, Next, NEW c \in Conns, phase[c] = "dial", phase'[c] = "done"
      PROVE  untried[c] = {}
  <2>1. queue[c] = <<>>
    BY <1>3, OnlyEmptyEnds
  <2>. QED
    BY <1>3, <2>1 DEF TriedInv
<1>4. Inv /\ [Next]_vars =>
          [\A c \in Conns : phase[c] = "dial" /\ phase'[c] = "done" => untried[c] = {}]_vars
  BY <1>3
<1>. HIDE DEF Inv
<1>. QED
  BY <1>1, <1>2, <1>4, SocketsStep, PTL DEF Spec, NoCandidateSkipped

LEMMA ServeInvStep ==
  ASSUME RateInv, HealthInv, ServeInv, [Next]_vars
  PROVE  ServeInv'
<1>1. CASE UNCHANGED <<server, nodes, copies, environment>>
  BY <1>1 DEF ServeInv, server, environment
<1>2. CASE ServeStep \/ Cancel
  BY <1>2 DEF ServeStep, AcceptFails, ServeReturns, Cancel, ServeInv, shared, sockets, environment
<1>3. ASSUME NEW n \in Nodes, NEW load \in Loads, NEW at \in 0 .. clock, Observe(n, load, at)
      PROVE  ServeInv'
  <2>1. /\ nodes' = [nodes EXCEPT ![n] = [load |-> load, observed |-> at]]
        /\ heartbeats < bound.heartbeats /\ heartbeats' = heartbeats + 1
        /\ UNCHANGED <<serve, ctxDone, copies, bound>>
    BY <1>3 DEF Observe, server, sockets
  <2>2. at \in Times
    BY EdgeAssumption DEF RateInv, Times
  <2>3. \A m \in Nodes : nodes'[m].observed \in Times \union {None}
    BY <2>1, <2>2 DEF HealthInv, ServeInv
  <2>4. heartbeats' \in 0 .. bound.heartbeats
    BY <2>1, EdgeAssumption DEF ServeInv
  <2>. QED
    BY <2>1, <2>3, <2>4 DEF ServeInv
<1>4. ASSUME NEW c \in Conns, DialSucceeds(c) \/ \E d \in Directions : CopyEnds(c, d)
      PROVE  ServeInv'
  <2>1. /\ UNCHANGED <<serve, ctxDone, nodes, bound, heartbeats>>
        /\ \E s \in SUBSET Directions : copies' = [copies EXCEPT ![c] = s]
    BY <1>4 DEF DialSucceeds, CopyEnds, server, shared, environment, ServeInv, Clients
  <2>. QED
    BY <2>1 DEF ServeInv, Clients
<1>5. \/ UNCHANGED <<server, nodes, copies, environment>> \/ ServeStep \/ Cancel
      \/ \E n \in Nodes, load \in Loads, at \in 0 .. clock : Observe(n, load, at)
      \/ \E c \in Conns : DialSucceeds(c) \/ \E d \in Directions : CopyEnds(c, d)
  <2>1. ASSUME NEW c \in Clients, NEW t \in Tokens, Authenticate(c, t)
        PROVE  UNCHANGED <<server, nodes, copies, environment>>
    BY <2>1 DEF Authenticate, Refuse, shared, sockets
  <2>2. ASSUME NEW c \in Clients, Allow(c) \/ RankCandidates(c)
        PROVE  UNCHANGED <<server, nodes, copies, environment>>
    BY <2>2 DEF Allow, RankCandidates, Refuse, shared, sockets
  <2>3. ASSUME NEW c \in Conns,
               \/ Accept(c) \/ StartRead(c) \/ ReadTimesOut(c) \/ ReadFails(c) \/ DialFails(c)
               \/ NoReachableEgress(c) \/ WatchContext(c) \/ TakeResult(c)
        PROVE  UNCHANGED <<server, nodes, copies, environment>>
    BY <2>3 DEF Accept, StartRead, ReadTimesOut, ReadFails, TokenError, DialFails, NoReachableEgress,
       WatchContext, TakeResult, Refuse, shared, sockets
  <2>. QED
    BY <2>1, <2>2, <2>3 DEF Next, vars, shared, sockets, Tick, HandlerStep, PeerStep, ReadToken,
       Request, CopyCut, Clients
<1>. QED
  BY <1>1, <1>2, <1>3, <1>4, <1>5

\* For any clients, nodes and clock, in every interleaving: the counters stay within the
\* limit, what is dialled and assigned is a node, and heartbeats are of times that have
\* been (HandleConnection, handleAssignment, Allow, Observe).
THEOREM IngressTypes == Spec => []TypeOK
<1>. DEFINE Typed == SocketsFollowPhase /\ HealthInv /\ EgressInv /\ ServeInv
<1>1. Init => Typed
  <2>. SUFFICES ASSUME Init PROVE Typed
    OBVIOUS
  <2>1. HealthInv
    BY EdgeAssumption DEF Init, HealthInv, Phases, None
  <2>2. EgressInv
    BY DEF Init, EgressInv, Clients
  <2>3. ServeInv
    <3>1. bound.heartbeats \in Nat /\ heartbeats = 0
      BY EdgeAssumption DEF Init
    <3>2. heartbeats \in 0 .. bound.heartbeats
      BY <3>1
    <3>. QED
      BY <3>2 DEF Init, ServeInv
  <2>. QED
    BY <2>1, <2>2, <2>3, InitSockets
<1>2. RateInv /\ Typed /\ [Next]_vars => Typed'
  BY SocketsStep, HealthStep, EgressStep, ServeInvStep
<1>3. RateInv /\ Typed => TypeOK
  BY DEF RateInv, SocketsFollowPhase, HealthInv, EgressInv, ServeInv, TypeOK
<1>. HIDE DEF Typed
<1>. QED
  BY <1>1, <1>2, <1>3, AlwaysRateInv, PTL DEF Spec

-----------------------------------------------------------------------------
(***************************************************************************)
(* The node service.  It runs on the POP node beside the ingress and       *)
(* shares no state with it, so its specification speaks of variables of    *)
(* its own.                                                                *)
(***************************************************************************)

\* The values of a snapshot are a record with three fields.
IsValues(s) == s = [version |-> s.version, endpoint |-> s.endpoint, healthy |-> s.healthy]

\* What the rounds keep: a record of values per snapshot and a place per worker.
RoundsOK ==
    /\ IsValues(snapshot) /\ IsValues(intended)
    /\ pc = [w \in Workers |-> pc[w]]
    /\ beat = [w \in Workers |-> beat[w]]

\* The values s and t name the same bundle.
Agree(s, t) ==
    /\ s.version = t.version /\ s.healthy = t.healthy
    /\ t.endpoint # NoEndpoint => s.endpoint = t.endpoint

\* A heartbeat under way, and the answer to it, say what the snapshot is to hold.
AnswersAgree ==
    \A w \in Workers : pc[w] \in {"push", "observe"} =>
        /\ beat[w].healthy = snapshot.healthy
        /\ intended.endpoint # NoEndpoint => beat[w].endpoint = intended.endpoint

Undisturbed == ~rejected /\ ~overlapped

NodeInv == RoundsOK /\ (Undisturbed => Agree(snapshot, intended) /\ AnswersAgree)

LEMMA NodeInvInit == NodeInit => NodeInv
<1>. SUFFICES ASSUME NodeInit PROVE NodeInv
  OBVIOUS
<1>1. snapshot = Flags /\ intended = Flags
  BY DEF NodeInit
<1>2. IsValues(Flags)
  BY DEF IsValues, Flags
<1>3. RoundsOK
  BY <1>1, <1>2 DEF NodeInit, RoundsOK
<1>4. Agree(snapshot, intended)
  BY <1>1 DEF Agree
<1>5. AnswersAgree
  BY DEF NodeInit, AnswersAgree
<1>. QED
  BY <1>3, <1>4, <1>5 DEF NodeInv

\* A round that ends or fails keeps the others.
LEMMA EndKeeps ==
  ASSUME NodeInv, NEW w \in Workers, RoundEnds(w),
         UNCHANGED <<snapshot, intended, rejected, overlapped>>
  PROVE  NodeInv'
<1>1. /\ pc' = [pc EXCEPT ![w] = "idle"] /\ beat' = [beat EXCEPT ![w] = NoBeat]
  BY DEF RoundEnds
<1>2. RoundsOK'
  BY <1>1 DEF NodeInv, RoundsOK
<1>3. ASSUME AnswersAgree PROVE AnswersAgree'
  BY <1>1, <1>3 DEF AnswersAgree, NodeInv, RoundsOK
<1>4. Agree(snapshot, intended) => Agree(snapshot, intended)'
  BY DEF Agree
<1>. QED
  BY <1>2, <1>3, <1>4, Zenon DEF NodeInv, Undisturbed

\* A heartbeat is made from the snapshot, and the round asks or pushes next.
LEMMA ReadKeeps ==
  ASSUME NodeInv, NEW w \in Workers, NEW p,
         pc' = [pc EXCEPT ![w] = p], beat' = [beat EXCEPT ![w] = Snapshot],
         UNCHANGED <<snapshot, intended, rejected, overlapped>>
  PROVE  NodeInv'
<1>1. RoundsOK'
  BY DEF NodeInv, RoundsOK
<1>2. ASSUME Agree(snapshot, intended), AnswersAgree PROVE AnswersAgree'
  BY <1>2 DEF AnswersAgree, NodeInv, RoundsOK, Agree, Snapshot
<1>3. Agree(snapshot, intended) => Agree(snapshot, intended)'
  BY DEF Agree
<1>. QED
  BY <1>1, <1>2, <1>3, Zenon DEF NodeInv, Undisturbed

\* A bundle that was fetched waits to be applied; without one, what was read before the
\* question is pushed, and is what the snapshot holds or is marked.
LEMMA AnsweredKeeps ==
  ASSUME NodeInv, NEW w \in Workers, NEW b, Answered(w, b)
  PROVE  NodeInv'
<1>. DEFINE p == IF b = NoBundle THEN "push" ELSE "apply"
<1>1. /\ pc' = [pc EXCEPT ![w] = p]
      /\ UNCHANGED <<beat, snapshot, intended, rejected>>
  BY DEF Answered
<1>2. overlapped' = (overlapped \/ (b = NoBundle /\ Stale(w)))
  BY Zenon DEF Answered
<1>3. RoundsOK'
  BY <1>1 DEF NodeInv, RoundsOK
<1>4. Agree(snapshot, intended) => Agree(snapshot, intended)'
  BY <1>1 DEF Agree
<1>5. Undisturbed' => Undisturbed /\ (b = NoBundle => ~Stale(w))
  BY <1>1, <1>2, Zenon DEF Undisturbed
<1>6. ASSUME Agree(snapshot, intended), AnswersAgree, b = NoBundle => ~Stale(w)
      PROVE  AnswersAgree'
  <2>1. CASE b = NoBundle
    <3>1. beat[w] = Snapshot
      BY <1>6, <2>1 DEF Stale
    <3>2. /\ beat[w].healthy = snapshot.healthy
          /\ intended.endpoint # NoEndpoint => beat[w].endpoint = intended.endpoint
      BY <1>6, <3>1 DEF Snapshot, Agree
    <3>. QED
      BY <1>1, <1>6, <3>2 DEF AnswersAgree, NodeInv, RoundsOK
  <2>2. CASE b # NoBundle
    <3>1. pc' = [pc EXCEPT ![w] = "apply"]
      BY <1>1, <2>2
    <3>. QED
      BY <1>1, <1>6, <3>1 DEF AnswersAgree, NodeInv, RoundsOK
  <2>. QED
    BY <2>1, <2>2
<1>. QED
  BY <1>3, <1>4, <1>5, <1>6, Zenon DEF NodeInv

\* Two fields of a record of values are replaced.
LEMMA Replaced ==
  ASSUME NEW u, IsValues(u), NEW x, NEW h
  PROVE  [u EXCEPT !.version = x, !.healthy = h]
           = [version |-> x, endpoint |-> u.endpoint, healthy |-> h]
<1>. DEFINE v == [u EXCEPT !.version = x]
<1>1. v = [version |-> x, endpoint |-> u.endpoint, healthy |-> u.healthy]
  BY DEF IsValues
<1>. HIDE DEF v
<1>2. [v EXCEPT !.healthy = h] = [version |-> x, endpoint |-> u.endpoint, healthy |-> h]
  BY <1>1
<1>. QED
  BY <1>2 DEF v

\* The values of a bundle over values that agree.
LEMMA BundleAgrees ==
  ASSUME NEW s, NEW t, NEW b, IsValues(s), IsValues(t)
  PROVE  /\ IsValues(WithEndpoint(s, b)) /\ IsValues(WithBundle(s, b))
         /\ Agree(s, t) => Agree(WithBundle(s, b), WithBundle(t, b))
         /\ WithEndpoint(s, b).endpoint \in {b.endpoint, s.endpoint}
         /\ WithBundle(s, b).endpoint \in {b.endpoint, s.endpoint}
         /\ WithEndpoint(s, b).healthy = s.healthy
         /\ WithBundle(s, b).healthy \in {s.healthy} \union BOOLEAN
<1>. DEFINE E(v) == IF b.endpoint # NoEndpoint THEN b.endpoint ELSE v.endpoint
            H(v) == IF b.healthy = "" THEN v.healthy ELSE b.healthy = "true"
            W(v) == [version |-> v.version, endpoint |-> E(v), healthy |-> v.healthy]
            B(v) == [version |-> b.version, endpoint |-> E(v), healthy |-> H(v)]
<1>1. ASSUME NEW v, IsValues(v) PROVE WithEndpoint(v, b) = W(v)
  <2>. DEFINE e == E(v)
  <2>1. WithEndpoint(v, b) = [v EXCEPT !.endpoint = e]
    BY DEF WithEndpoint
  <2>. HIDE DEF e
  <2>2. [v EXCEPT !.endpoint = e] = [version |-> v.version, endpoint |-> e, healthy |-> v.healthy]
    BY <1>1 DEF IsValues
  <2>. QED
    BY <2>1, <2>2 DEF e
<1>2. ASSUME NEW v, IsValues(v) PROVE WithBundle(v, b) = B(v)
  <2>. DEFINE u == WithEndpoint(v, b)
              h == H(v)
  <2>1. IsValues(u) /\ u.endpoint = E(v) /\ u.healthy = v.healthy
    BY <1>1, <1>2 DEF IsValues
  <2>2. WithBundle(v, b) = [u EXCEPT !.version = b.version, !.healthy = h]
    <3>. HIDE DEF u
    <3>. QED
      BY <2>1 DEF WithBundle, u
  <2>. HIDE DEF u, h
  <2>3. [u EXCEPT !.version = b.version, !.healthy = h]
          = [version |-> b.version, endpoint |-> u.endpoint, healthy |-> h]
    BY <2>1, Replaced
  <2>. QED
    BY <2>1, <2>2, <2>3 DEF h
<1>3. ASSUME NEW v PROVE IsValues(W(v)) /\ IsValues(B(v))
  <2>. HIDE DEF E, H
  <2>. QED
    BY DEF IsValues
<1>4. ASSUME Agree(s, t) PROVE Agree(B(s), B(t))
  <2>1. H(s) = H(t)
    BY <1>4 DEF Agree
  <2>2. E(t) # NoEndpoint => E(s) = E(t)
    BY <1>4 DEF Agree
  <2>. HIDE DEF E, H
  <2>. QED
    BY <2>1, <2>2 DEF Agree
<1>5. E(s) \in {b.endpoint, s.endpoint} /\ H(s) \in {s.healthy} \union BOOLEAN
  OBVIOUS
<1>6. /\ W(s).endpoint = E(s) /\ W(s).healthy = s.healthy
      /\ B(s).endpoint = E(s) /\ B(s).healthy = H(s)
  <2>. HIDE DEF E, H
  <2>. QED
    OBVIOUS
<1>7. WithEndpoint(s, b) = W(s) /\ WithBundle(s, b) = B(s) /\ WithBundle(t, b) = B(t)
  BY <1>1, <1>2
<1>. HIDE DEF E, H, W, B
<1>. QED
  BY <1>3, <1>4, <1>5, <1>6, <1>7

\* A bundle is applied in full: whoever had a heartbeat under way is disturbed.
LEMMA ApplyKeeps ==
  ASSUME NodeInv, NEW w \in Workers, ApplyConfig(w)
  PROVE  NodeInv'
<1>. DEFINE b == fetched[w]
<1>1. /\ pc[w] = "apply" /\ pc' = [pc EXCEPT ![w] = "applied"] /\ beat' = beat
      /\ snapshot' = WithBundle(snapshot, b) /\ intended' = WithBundle(intended, b)
      /\ rejected' = rejected /\ overlapped' = (overlapped \/ InFlight(w))
  BY Zenon DEF ApplyConfig
<1>2. /\ IsValues(snapshot') /\ IsValues(intended')
      /\ Agree(snapshot, intended) => Agree(snapshot', intended')
  BY <1>1, BundleAgrees, Zenon DEF NodeInv, RoundsOK
<1>3. RoundsOK'
  BY <1>1, <1>2 DEF NodeInv, RoundsOK
<1>4. Undisturbed' => Undisturbed /\ ~InFlight(w)
  BY <1>1, Zenon DEF Undisturbed
<1>5. ~InFlight(w) => AnswersAgree'
  <2>1. \A v \in Workers : pc'[v] = IF v = w THEN "applied" ELSE pc[v]
    BY <1>1 DEF NodeInv, RoundsOK
  <2>2. ~InFlight(w) => \A v \in Workers \ {w} : pc[v] \notin {"push", "observe"}
    BY Zenon DEF InFlight
  <2>3. ~InFlight(w) => \A v \in Workers : pc'[v] \notin {"push", "observe"}
    BY <2>1, <2>2
  <2>. QED
    BY <2>3 DEF AnswersAgree
<1>6. Agree(snapshot, intended)' <=> Agree(snapshot', intended')
  BY DEF Agree
<1>. QED
  BY <1>2, <1>3, <1>4, <1>5, <1>6, Zenon DEF NodeInv

\* The control plane answers with what the heartbeat said.
LEMMA PushKeeps ==
  ASSUME NodeInv, NEW w \in Workers, PushNodeHeartbeat(w)
  PROVE  NodeInv'
<1>. DEFINE answer == [endpoint |-> record'.endpoint, healthy |-> record'.healthy]
<1>1. /\ pc[w] = "push" /\ pc' = [pc EXCEPT ![w] = "observe"]
      /\ record' = Recorded(beat[w]) /\ beat' = [beat EXCEPT ![w] = answer]
      /\ UNCHANGED <<snapshot, intended, rejected, overlapped>>
  BY DEF PushNodeHeartbeat, nodeHistory
<1>2. /\ answer.healthy = beat[w].healthy
      /\ beat[w].endpoint # NoEndpoint => answer.endpoint = beat[w].endpoint
  BY <1>1 DEF Recorded
<1>. HIDE DEF answer
<1>3. RoundsOK'
  BY <1>1 DEF NodeInv, RoundsOK
<1>4. ASSUME AnswersAgree PROVE AnswersAgree'
  <2>1. /\ beat[w].healthy = snapshot.healthy
        /\ intended.endpoint # NoEndpoint => beat[w].endpoint = intended.endpoint
    BY <1>1, <1>4 DEF AnswersAgree
  <2>. QED
    BY <1>1, <1>2, <1>4, <2>1 DEF AnswersAgree, NodeInv, RoundsOK
<1>5. Agree(snapshot, intended) => Agree(snapshot, intended)'
  BY <1>1 DEF Agree
<1>6. Undisturbed' => Undisturbed
  BY <1>1 DEF Undisturbed
<1>. QED
  BY <1>3, <1>4, <1>5, <1>6, Zenon DEF NodeInv

\* The answer overwrites the snapshot with what it holds.
LEMMA ObserveKeeps ==
  ASSUME NodeInv, NEW w \in Workers, ObserveControlNode(w)
  PROVE  NodeInv'
<1>. DEFINE e == IF beat[w].endpoint # NoEndpoint THEN beat[w].endpoint ELSE snapshot.endpoint
            h == beat[w].healthy
<1>1. /\ pc[w] = "observe" /\ RoundEnds(w)
      /\ snapshot' = [snapshot EXCEPT !.endpoint = e, !.healthy = h]
      /\ UNCHANGED <<intended, rejected, overlapped>>
  BY DEF ObserveControlNode, nodeHistory
<1>2. /\ pc' = [pc EXCEPT ![w] = "idle"] /\ beat' = [beat EXCEPT ![w] = NoBeat]
  BY <1>1 DEF RoundEnds
<1>3. snapshot' = [version |-> snapshot.version, endpoint |-> e, healthy |-> h]
  <2>. DEFINE u == [snapshot EXCEPT !.endpoint = e]
  <2>. HIDE DEF e, h
  <2>1. u = [version |-> snapshot.version, endpoint |-> e, healthy |-> snapshot.healthy]
    BY DEF NodeInv, RoundsOK, IsValues
  <2>. HIDE DEF u
  <2>2. [u EXCEPT !.healthy = h] = [version |-> snapshot.version, endpoint |-> e, healthy |-> h]
    BY <2>1
  <2>. QED
    BY <1>1, <2>2 DEF u
<1>4. RoundsOK'
  <2>. HIDE DEF e, h
  <2>. QED
    BY <1>1, <1>2, <1>3 DEF NodeInv, RoundsOK, IsValues
<1>5. ASSUME Agree(snapshot, intended), AnswersAgree
      PROVE  Agree(snapshot, intended)' /\ AnswersAgree'
  <2>1. /\ h = snapshot.healthy
        /\ intended.endpoint # NoEndpoint => beat[w].endpoint = intended.endpoint
    BY <1>1, <1>5 DEF AnswersAgree
  <2>2. intended.endpoint # NoEndpoint => e = intended.endpoint
    BY <1>5, <2>1 DEF Agree
  <2>. HIDE DEF e, h
  <2>3. Agree(snapshot, intended)'
    BY <1>1, <1>3, <1>5, <2>1, <2>2 DEF Agree
  <2>4. snapshot'.healthy = snapshot.healthy
    BY <1>3, <2>1
  <2>5. AnswersAgree'
    BY <1>1, <1>2, <1>5, <2>4 DEF AnswersAgree, NodeInv, RoundsOK
  <2>. QED
    BY <2>3, <2>5
<1>6. Undisturbed' => Undisturbed
  BY <1>1 DEF Undisturbed
<1>. QED
  BY <1>4, <1>5, <1>6, Zenon DEF NodeInv

LEMMA NodeStep == NodeInv /\ [NodeNext]_nodeVars => NodeInv'
<1>. SUFFICES ASSUME NodeInv, [NodeNext]_nodeVars PROVE NodeInv'
  OBVIOUS
\* The control plane's own steps.
<1>1. ASSUME UNCHANGED <<snapshot, pc, beat, intended, rejected, overlapped>> PROVE NodeInv'
  <2>1. RoundsOK'
    BY <1>1 DEF NodeInv, RoundsOK, IsValues
  <2>2. (Agree(snapshot, intended) => Agree(snapshot, intended)') /\ (AnswersAgree => AnswersAgree')
    BY <1>1 DEF Agree, AnswersAgree
  <2>3. Undisturbed' => Undisturbed
    BY <1>1 DEF Undisturbed
  <2>. QED
    BY <2>1, <2>2, <2>3, Zenon DEF NodeInv
<1>2. CASE \/ \E i \in 1 .. MaxId, c \in Contents : UpsertConfig(i, c)
           \/ RetireNode \/ (\E b \in Registrations : RegisterNode(b))
           \/ \E b \in late : LateHeartbeat(b)
           \/ UNCHANGED nodeVars
  BY <1>1, <1>2 DEF UpsertConfig, RetireNode, RegisterNode, LateHeartbeat,
       nodeVars, worker, nodeHistory
<1>3. ASSUME NEW w \in Workers, SyncFetch(w) \/ WatchFetch(w) PROVE NodeInv'
  <2>1. \E b : Answered(w, b)
    BY <1>3, Zenon DEF SyncFetch, WatchFetch
  <2>. QED
    BY <2>1, AnsweredKeeps
<1>4. ASSUME NEW w \in Workers, StartRound(w) \/ ReadSnapshot(w) PROVE NodeInv'
  <2>1. /\ beat' = [beat EXCEPT ![w] = Snapshot]
        /\ UNCHANGED <<snapshot, intended, rejected, overlapped>>
    BY <1>4 DEF StartRound, ReadSnapshot, nodeHistory
  <2>2. pc' = [pc EXCEPT ![w] = "fetch"] \/ pc' = [pc EXCEPT ![w] = "push"]
    BY <1>4 DEF StartRound, ReadSnapshot
  <2>. QED
    BY <2>1, <2>2, ReadKeeps
<1>5. ASSUME NEW w \in Workers, PushRefused(w) \/ RoundFails(w) PROVE NodeInv'
  BY <1>5, EndKeeps DEF PushRefused, RoundFails, nodeHistory
<1>6. ASSUME NEW w \in Workers, ApplyConfigFails(w) PROVE NodeInv'
  <2>1. /\ pc' = [pc EXCEPT ![w] = "idle"] /\ beat' = [beat EXCEPT ![w] = NoBeat]
        /\ snapshot' = WithEndpoint(snapshot, fetched[w]) /\ intended' = intended
        /\ rejected' = TRUE
    BY <1>6 DEF ApplyConfigFails, RoundEnds
  <2>2. IsValues(snapshot') /\ IsValues(intended)
    BY <2>1, BundleAgrees, Zenon DEF NodeInv, RoundsOK
  <2>3. RoundsOK'
    BY <2>1, <2>2 DEF NodeInv, RoundsOK
  <2>. QED
    BY <2>1, <2>3 DEF NodeInv, Undisturbed
<1>7. CASE Restart
  <2>1. /\ snapshot' = Flags /\ intended' = Flags
        /\ pc' = [w \in Workers |-> "idle"] /\ beat' = [w \in Workers |-> NoBeat]
    BY <1>7 DEF Restart
  <2>2. RoundsOK'
    BY <2>1 DEF RoundsOK, IsValues, Flags
  <2>. QED
    BY <2>1, <2>2 DEF NodeInv, Agree, AnswersAgree
<1>. QED
  BY <1>2, <1>3, <1>4, <1>5, <1>6, <1>7, ApplyKeeps, PushKeeps, ObserveKeeps
     DEF NodeNext, Round

\* For any workers, bundles, endpoints and registrations: as long as no malformed bundle
\* was applied in part and no round's heartbeat went out or was answered after another
\* round had changed what it was read from, the node's version names the bundle its
\* endpoint and health come from (WatchConfigOnce, ApplyConfig, observeControlNode).
THEOREM VersionIsMeaningful == NodeSpec => []VersionNamesValues
<1>1. NodeInv => VersionNamesValues
  BY DEF NodeInv, VersionNamesValues, Undisturbed, Agree
<1>. QED
  BY <1>1, NodeInvInit, NodeStep, PTL DEF NodeSpec

-----------------------------------------------------------------------------
(***************************************************************************)
(* Types of the node service.  The loop of selectConfig is a recursive     *)
(* function: that it is defined comes from its initial parts, and that it  *)
(* ends with one of the bundles by counting up.                            *)
(***************************************************************************)

Turn(candidate, selected) ==
    IF /\ candidate # NoBundle
       /\ \/ selected = NoBundle
          \/ candidate.at > selected.at
          \/ candidate.version > selected.version
    THEN candidate ELSE selected

IsSelection(s, bundles, n) ==
    s = [i \in 0 .. n |-> IF i = 0 THEN NoBundle ELSE Turn(bundles[i], s[i - 1])]

LEMMA SelectionExists == ASSUME NEW bundles PROVE \E s : IsSelection(s, bundles, MaxId)
<1>. DEFINE S == {n \in 0 .. MaxId : \E s : IsSelection(s, bundles, n)}
<1>1. 0 \in S
  <2>. DEFINE s == [i \in 0 .. 0 |-> NoBundle]
  <2>1. IsSelection(s, bundles, 0)
    BY DEF IsSelection
  <2>. QED
    BY <2>1, NodeAssumption
<1>2. ASSUME NEW n \in 0 .. MaxId - 1, n \in S PROVE n + 1 \in S
  <2>1. PICK s : IsSelection(s, bundles, n)
    BY <1>2
  <2>. DEFINE t == [i \in 0 .. n + 1 |-> IF i = n + 1 THEN Turn(bundles[i], s[n]) ELSE s[i]]
              u == [i \in 0 .. n + 1 |-> IF i = 0 THEN NoBundle ELSE Turn(bundles[i], t[i - 1])]
  <2>2. /\ s[0] = NoBundle
        /\ \A i \in 1 .. n : s[i] = Turn(bundles[i], s[i - 1])
    BY <2>1, NodeAssumption DEF IsSelection
  <2>3. ASSUME NEW i \in 0 .. n + 1 PROVE t[i] = u[i]
    <3>1. CASE i = n + 1
      BY <3>1, NodeAssumption
    <3>2. CASE i \in 1 .. n
      BY <2>2, <3>2, NodeAssumption
    <3>3. CASE i = 0
      BY <2>2, <3>3, NodeAssumption
    <3>. QED
      BY <3>1, <3>2, <3>3, NodeAssumption
  <2>4. t = u
    BY <2>3
  <2>5. IsSelection(t, bundles, n + 1)
    BY <2>4 DEF IsSelection
  <2>6. n + 1 \in 0 .. MaxId
    BY NodeAssumption
  <2>. HIDE DEF t
  <2>. QED
    BY <2>5, <2>6
<1>3. MaxId \in S
  <2>. HIDE DEF S
  <2>. QED
    BY <1>1, <1>2, CountUp, NodeAssumption
<1>. QED
  BY <1>3

\* The loop ends with none or with one of the bundles.
LEMMA SelectedIsOneOf ==
  ASSUME NEW bundles
  PROVE  selectConfig(bundles) = NoBundle \/ \E j \in 1 .. MaxId : selectConfig(bundles) = bundles[j]
<1>1. PICK s : IsSelection(s, bundles, MaxId) /\ selectConfig(bundles) = s[MaxId]
  BY SelectionExists, Zenon DEF selectConfig, IsSelection, Turn
<1>2. s[0] = NoBundle /\ \A i \in 1 .. MaxId : s[i] \in {bundles[i], s[i - 1]}
  BY <1>1, NodeAssumption DEF IsSelection, Turn
<1>. DEFINE OneOf(i) == s[i] = NoBundle \/ \E j \in 1 .. MaxId : s[i] = bundles[j]
            S == {i \in 0 .. MaxId : OneOf(i)}
<1>3. 0 \in S
  BY <1>2, NodeAssumption
<1>4. ASSUME NEW i \in 0 .. MaxId - 1, i \in S PROVE i + 1 \in S
  <2>1. i + 1 \in 1 .. MaxId /\ i + 1 \in 0 .. MaxId /\ (i + 1) - 1 = i
    BY NodeAssumption
  <2>2. s[i + 1] \in {bundles[i + 1], s[i]}
    BY <1>2, <2>1
  <2>. QED
    BY <1>4, <2>1, <2>2
<1>5. MaxId \in S
  <2>. HIDE DEF S
  <2>. QED
    BY <1>3, <1>4, CountUp, NodeAssumption
<1>. QED
  BY <1>1, <1>5

AnyEndpoint == Endpoints \union {NoEndpoint}

\* Every bundle at the control plane and on its way to the node names a known endpoint or
\* none, and so does whatever is copied from one.
BundlesTyped ==
    /\ configs = [i \in 1 .. MaxId |-> configs[i]]
    /\ \A i \in 1 .. MaxId : configs[i].endpoint \in AnyEndpoint /\ configs[i].at \in 0 .. MaxUpserts
    /\ fetched = [w \in Workers |-> fetched[w]]
    /\ \A w \in Workers : fetched[w].endpoint \in AnyEndpoint
    /\ upserts \in 0 .. MaxUpserts /\ faults \in 0 .. MaxFaults

Places == {"idle", "fetch", "apply", "applied", "push", "observe"}

BeatsTyped ==
    /\ record \in [known : BOOLEAN, endpoint : AnyEndpoint, healthy : BOOLEAN]
    /\ late \subseteq Beats
    /\ snapshot.endpoint \in AnyEndpoint /\ snapshot.healthy \in BOOLEAN
    /\ pc \in [Workers -> Places]
    /\ beat \in [Workers -> Beats]

LEMMA BundlesTypedStep == ASSUME BundlesTyped, [NodeNext]_nodeVars PROVE BundlesTyped'
<1>. USE NodeAssumption
<1>n. NoBundle.endpoint = NoEndpoint /\ NoBundle.at = 0
  BY DEF NoBundle
<1>1. CASE UNCHANGED <<configs, fetched, upserts, faults>>
  BY <1>1 DEF BundlesTyped
<1>2. ASSUME NEW i \in 1 .. MaxId, NEW c \in Contents, UpsertConfig(i, c) PROVE BundlesTyped'
  <2>. DEFINE b == [version |-> c.version, endpoint |-> c.endpoint,
                    healthy |-> c.healthy, at |-> upserts + 1]
  <2>1. /\ configs' = [configs EXCEPT ![i] = b] /\ upserts < MaxUpserts /\ upserts' = upserts + 1
        /\ UNCHANGED <<fetched, faults>>
    BY <1>2 DEF UpsertConfig, worker
  <2>2. upserts + 1 \in 0 .. MaxUpserts /\ b.at = upserts + 1
    BY <2>1 DEF BundlesTyped
  <2>3. b.endpoint \in AnyEndpoint
    BY DEF AnyEndpoint
  <2>. HIDE DEF b
  <2>4. \A j \in 1 .. MaxId : configs'[j] \in {configs[j], b}
    BY <2>1 DEF BundlesTyped
  <2>5. configs' = [j \in 1 .. MaxId |-> configs'[j]]
    BY <2>1 DEF BundlesTyped
  <2>. QED
    BY <2>1, <2>2, <2>3, <2>4, <2>5 DEF BundlesTyped
<1>3. ASSUME NEW w \in Workers, NEW b, b.endpoint \in AnyEndpoint,
             fetched' = [fetched EXCEPT ![w] = b], UNCHANGED <<configs, upserts>>,
             faults' \in 0 .. MaxFaults
      PROVE  BundlesTyped'
  <2>1. \A v \in Workers : fetched'[v] \in {fetched[v], b}
    BY <1>3 DEF BundlesTyped
  <2>2. fetched' = [v \in Workers |-> fetched'[v]]
    BY <1>3 DEF BundlesTyped
  <2>. QED
    BY <1>3, <2>1, <2>2 DEF BundlesTyped
<1>4. ASSUME NEW w \in Workers, SyncFetch(w) \/ WatchFetch(w) PROVE BundlesTyped'
  <2>. DEFINE b == selectConfig(configs)
  <2>1. b = NoBundle \/ \E j \in 1 .. MaxId : b = configs[j]
    BY SelectedIsOneOf
  <2>2. Answered(w, b) \/ Answered(w, NoBundle)
    BY <1>4, Zenon DEF SyncFetch, WatchFetch
  <2>. HIDE DEF b
  <2>3. b.endpoint \in AnyEndpoint /\ NoBundle.endpoint \in AnyEndpoint
    BY <1>n, <2>1 DEF BundlesTyped, AnyEndpoint
  <2>4. UNCHANGED <<configs, upserts, faults>>
    BY <2>2 DEF Answered, control
  <2>5. faults' \in 0 .. MaxFaults
    BY <2>4 DEF BundlesTyped
  <2>6. fetched' = [fetched EXCEPT ![w] = b] \/ fetched' = [fetched EXCEPT ![w] = NoBundle]
    BY <2>2 DEF Answered
  <2>. QED
    BY <1>3, <2>3, <2>4, <2>5, <2>6
<1>5. ASSUME NEW w \in Workers,
             \/ ApplyConfig(w) \/ ApplyConfigFails(w) \/ PushRefused(w)
             \/ ObserveControlNode(w) \/ RoundFails(w)
      PROVE  BundlesTyped'
  <2>1. fetched' = [fetched EXCEPT ![w] = NoBundle] /\ UNCHANGED <<configs, upserts>>
    BY <1>5 DEF ApplyConfig, ApplyConfigFails, PushRefused, ObserveControlNode,
       RoundFails, RoundEnds, control
  <2>2. faults' = faults \/ (faults < MaxFaults /\ faults' = faults + 1)
    BY <1>5 DEF ApplyConfig, ApplyConfigFails, PushRefused, ObserveControlNode,
       RoundFails, Fault
  <2>3. faults' \in 0 .. MaxFaults
    BY <2>2 DEF BundlesTyped
  <2>4. NoBundle.endpoint \in AnyEndpoint
    BY <1>n DEF AnyEndpoint
  <2>. QED
    BY <1>3, <2>1, <2>3, <2>4
<1>6. CASE RetireNode \/ (\E b \in Registrations : RegisterNode(b)) \/ Restart
  <2>1. faults < MaxFaults /\ faults' = faults + 1
    BY <1>6 DEF RetireNode, RegisterNode, Restart, Fault
  <2>2. faults' \in 0 .. MaxFaults
    BY <2>1 DEF BundlesTyped
  <2>3. CASE RetireNode \/ \E b \in Registrations : RegisterNode(b)
    <3>1. UNCHANGED <<configs, fetched, upserts>>
      BY <2>3 DEF RetireNode, RegisterNode, worker
    <3>. QED
      BY <2>2, <3>1 DEF BundlesTyped
  <2>4. CASE Restart
    BY <1>n, <2>2, <2>4 DEF Restart, control, BundlesTyped, AnyEndpoint
  <2>. QED
    BY <1>6, <2>3, <2>4
<1>7. \/ UNCHANGED <<configs, fetched, upserts, faults>>
      \/ \E i \in 1 .. MaxId, c \in Contents : UpsertConfig(i, c)
      \/ \E w \in Workers : \/ SyncFetch(w) \/ WatchFetch(w)
                            \/ ApplyConfig(w) \/ ApplyConfigFails(w)
                            \/ PushRefused(w) \/ ObserveControlNode(w) \/ RoundFails(w)
      \/ RetireNode \/ (\E b \in Registrations : RegisterNode(b)) \/ Restart
  BY DEF NodeNext, Round, nodeVars, StartRound, ReadSnapshot, LateHeartbeat,
       PushNodeHeartbeat, worker, control
<1>. QED
  BY <1>1, <1>2, <1>4, <1>5, <1>6, <1>7

LEMMA BeatsTypedStep ==
  ASSUME NodeInv, BundlesTyped, BeatsTyped, [NodeNext]_nodeVars
  PROVE  BeatsTyped'
<1>. USE NodeAssumption
<1>b. NoBeat \in Beats /\ \A b \in Beats : b.endpoint \in AnyEndpoint /\ b.healthy \in BOOLEAN
  BY DEF NoBeat, Beats, AnyEndpoint
<1>v. IsValues(snapshot)
  BY DEF NodeInv, RoundsOK
<1>1. CASE UNCHANGED <<record, late, snapshot, pc, beat>>
  BY <1>1 DEF BeatsTyped
<1>2. ASSUME NEW b \in Beats PROVE Recorded(b) \in [known : BOOLEAN, endpoint : AnyEndpoint, healthy : BOOLEAN]
  BY <1>b DEF Recorded, BeatsTyped
<1>3. ASSUME NEW w \in Workers, NEW p \in Places,
             NEW b \in Beats, pc' = [pc EXCEPT ![w] = p],
             beat' = [beat EXCEPT ![w] = b] \/ UNCHANGED beat,
             record' \in [known : BOOLEAN, endpoint : AnyEndpoint, healthy : BOOLEAN],
             late' \subseteq Beats, snapshot'.endpoint \in AnyEndpoint, snapshot'.healthy \in BOOLEAN
      PROVE  BeatsTyped'
  <2>1. beat' \in [Workers -> Beats] /\ pc' \in [Workers -> Places]
    BY <1>3 DEF BeatsTyped
  <2>. QED
    BY <1>3, <2>1 DEF BeatsTyped
<1>k. ASSUME UNCHANGED <<record, late, snapshot>>
      PROVE  /\ record' \in [known : BOOLEAN, endpoint : AnyEndpoint, healthy : BOOLEAN]
             /\ late' \subseteq Beats /\ snapshot'.endpoint \in AnyEndpoint
             /\ snapshot'.healthy \in BOOLEAN
  BY <1>k DEF BeatsTyped
<1>p. \A p \in {"idle", "fetch", "apply", "applied", "push", "observe"} : p \in Places
  BY DEF Places
<1>a. ASSUME NEW w \in Workers, SyncFetch(w) \/ WatchFetch(w) PROVE BeatsTyped'
  <2>1. PICK b : Answered(w, b)
    BY <1>a, Zenon DEF SyncFetch, WatchFetch
  <2>2. UNCHANGED <<record, late, snapshot, beat>>
    BY <2>1 DEF Answered, control
  <2>3. pc' = [pc EXCEPT ![w] = "push"] \/ pc' = [pc EXCEPT ![w] = "apply"]
    BY <2>1, Zenon DEF Answered
  <2>. QED
    BY <1>3, <1>b, <1>k, <1>p, <2>2, <2>3
<1>4. ASSUME NEW w \in Workers, StartRound(w) \/ ReadSnapshot(w) PROVE BeatsTyped'
  <2>1. UNCHANGED <<record, late, snapshot>> /\ beat' = [beat EXCEPT ![w] = Snapshot]
    BY <1>4 DEF StartRound, ReadSnapshot, control
  <2>2. pc' = [pc EXCEPT ![w] = "fetch"] \/ pc' = [pc EXCEPT ![w] = "push"]
    BY <1>4 DEF StartRound, ReadSnapshot
  <2>3. Snapshot \in Beats
    BY DEF BeatsTyped, Snapshot, Beats, AnyEndpoint
  <2>. QED
    BY <1>3, <1>k, <1>p, <2>1, <2>2, <2>3
<1>5. ASSUME NEW w \in Workers, PushRefused(w) \/ RoundFails(w) PROVE BeatsTyped'
  <2>1. /\ pc' = [pc EXCEPT ![w] = "idle"] /\ beat' = [beat EXCEPT ![w] = NoBeat]
        /\ UNCHANGED <<record, snapshot>>
    BY <1>5 DEF PushRefused, RoundFails, RoundEnds, control
  <2>2. late' \in {late, late \union {beat[w]}}
    BY <1>5 DEF PushRefused, RoundFails, control
  <2>3. late' \subseteq Beats
    BY <2>2 DEF BeatsTyped
  <2>. QED
    BY <1>3, <1>b, <1>p, <2>1, <2>3 DEF BeatsTyped
<1>6. ASSUME NEW w \in Workers, ApplyConfig(w) PROVE BeatsTyped'
  <2>1. /\ pc' = [pc EXCEPT ![w] = "applied"] /\ UNCHANGED <<beat, record, late>>
        /\ snapshot' = WithBundle(snapshot, fetched[w])
    BY <1>6, Zenon DEF ApplyConfig, control
  <2>2. /\ snapshot'.endpoint \in {fetched[w].endpoint, snapshot.endpoint}
        /\ snapshot'.healthy \in {snapshot.healthy} \union BOOLEAN
    BY <1>v, <2>1, BundleAgrees
  <2>3. snapshot'.endpoint \in AnyEndpoint /\ snapshot'.healthy \in BOOLEAN
    BY <2>2 DEF BundlesTyped, BeatsTyped
  <2>. QED
    BY <1>3, <1>b, <1>p, <2>1, <2>3 DEF BeatsTyped
<1>7. ASSUME NEW w \in Workers, ApplyConfigFails(w) PROVE BeatsTyped'
  <2>1. /\ pc' = [pc EXCEPT ![w] = "idle"] /\ beat' = [beat EXCEPT ![w] = NoBeat]
        /\ UNCHANGED <<record, late>>
        /\ snapshot' = WithEndpoint(snapshot, fetched[w])
    BY <1>7 DEF ApplyConfigFails, RoundEnds, control
  <2>2. /\ snapshot'.endpoint \in {fetched[w].endpoint, snapshot.endpoint}
        /\ snapshot'.healthy = snapshot.healthy
    BY <1>v, <2>1, BundleAgrees
  <2>3. snapshot'.endpoint \in AnyEndpoint /\ snapshot'.healthy \in BOOLEAN
    BY <2>2 DEF BundlesTyped, BeatsTyped
  <2>. QED
    BY <1>3, <1>b, <1>p, <2>1, <2>3 DEF BeatsTyped
<1>8. ASSUME NEW w \in Workers, PushNodeHeartbeat(w) PROVE BeatsTyped'
  <2>. DEFINE a == [endpoint |-> record'.endpoint, healthy |-> record'.healthy]
  <2>1. /\ pc' = [pc EXCEPT ![w] = "observe"] /\ beat' = [beat EXCEPT ![w] = a]
        /\ record' = Recorded(beat[w]) /\ UNCHANGED <<late, snapshot>>
    BY <1>8 DEF PushNodeHeartbeat
  <2>2. record' \in [known : BOOLEAN, endpoint : AnyEndpoint, healthy : BOOLEAN]
    BY <1>2, <2>1 DEF BeatsTyped
  <2>3. a \in Beats
    BY <2>2 DEF Beats, AnyEndpoint
  <2>. HIDE DEF a
  <2>. QED
    BY <1>3, <1>p, <2>1, <2>2, <2>3 DEF BeatsTyped
<1>9. ASSUME NEW w \in Workers, ObserveControlNode(w) PROVE BeatsTyped'
  <2>. DEFINE e == IF beat[w].endpoint # NoEndpoint THEN beat[w].endpoint ELSE snapshot.endpoint
              h == beat[w].healthy
  <2>1. /\ pc' = [pc EXCEPT ![w] = "idle"] /\ beat' = [beat EXCEPT ![w] = NoBeat]
        /\ UNCHANGED <<record, late>>
        /\ snapshot' = [snapshot EXCEPT !.endpoint = e, !.healthy = h]
    BY <1>9 DEF ObserveControlNode, RoundEnds, control
  <2>2. e \in AnyEndpoint /\ h \in BOOLEAN
    BY <1>b DEF BeatsTyped
  <2>. HIDE DEF e, h
  <2>3. snapshot'.endpoint = e /\ snapshot'.healthy = h
    <3>. DEFINE u == [snapshot EXCEPT !.endpoint = e]
    <3>1. u = [version |-> snapshot.version, endpoint |-> e, healthy |-> snapshot.healthy]
      BY <1>v DEF IsValues
    <3>. HIDE DEF u
    <3>2. [u EXCEPT !.healthy = h] = [version |-> snapshot.version, endpoint |-> e, healthy |-> h]
      BY <3>1
    <3>. QED
      BY <2>1, <3>2 DEF u
  <2>. QED
    BY <1>3, <1>b, <1>p, <2>1, <2>2, <2>3 DEF BeatsTyped
<1>10. CASE Restart
  BY <1>10, <1>b DEF Restart, control, BeatsTyped, Places, Flags, AnyEndpoint
<1>r. ASSUME NEW x \in BOOLEAN, NEW y \in AnyEndpoint, NEW z \in BOOLEAN
      PROVE  [known |-> x, endpoint |-> y, healthy |-> z]
               \in [known : BOOLEAN, endpoint : AnyEndpoint, healthy : BOOLEAN]
  OBVIOUS
<1>11. CASE RetireNode
  <2>1. UNCHANGED <<late, snapshot, pc, beat>>
    BY <1>11 DEF RetireNode, worker
  <2>2. record' = [known |-> FALSE, endpoint |-> NoEndpoint, healthy |-> FALSE]
    BY <1>11 DEF RetireNode
  <2>3. record' \in [known : BOOLEAN, endpoint : AnyEndpoint, healthy : BOOLEAN]
    BY <1>r, <2>2 DEF AnyEndpoint
  <2>. QED
    BY <2>1, <2>3 DEF BeatsTyped
<1>c. ASSUME NEW b \in Registrations, RegisterNode(b) PROVE BeatsTyped'
  <2>1. UNCHANGED <<late, snapshot, pc, beat>>
    BY <1>c DEF RegisterNode, worker
  <2>2. record' = [known |-> TRUE, endpoint |-> b.endpoint, healthy |-> b.healthy]
    BY <1>c DEF RegisterNode
  <2>3. b \in [endpoint : AnyEndpoint, healthy : BOOLEAN]
    BY DEF AnyEndpoint
  <2>4. b.endpoint \in AnyEndpoint /\ b.healthy \in BOOLEAN
    BY <2>3
  <2>5. record' \in [known : BOOLEAN, endpoint : AnyEndpoint, healthy : BOOLEAN]
    BY <1>r, <2>2, <2>4
  <2>. QED
    BY <2>1, <2>5 DEF BeatsTyped
<1>12. ASSUME NEW b \in late, LateHeartbeat(b) PROVE BeatsTyped'
  <2>1. b \in Beats /\ late' \subseteq Beats /\ UNCHANGED <<snapshot, pc, beat>>
    BY <1>12 DEF LateHeartbeat, worker, BeatsTyped
  <2>2. record' \in [known : BOOLEAN, endpoint : AnyEndpoint, healthy : BOOLEAN]
    BY <1>2, <1>12, <2>1 DEF LateHeartbeat, BeatsTyped
  <2>. QED
    BY <2>1, <2>2 DEF BeatsTyped
<1>13. \/ UNCHANGED <<record, late, snapshot, pc, beat>>
       \/ \E w \in Workers : \/ StartRound(w) \/ SyncFetch(w) \/ WatchFetch(w)
                             \/ ReadSnapshot(w) \/ PushRefused(w) \/ RoundFails(w) \/ ApplyConfig(w)
                             \/ ApplyConfigFails(w) \/ PushNodeHeartbeat(w) \/ ObserveControlNode(w)
       \/ Restart \/ RetireNode \/ (\E b \in Registrations : RegisterNode(b))
       \/ \E b \in late : LateHeartbeat(b)
  BY DEF NodeNext, Round, nodeVars, UpsertConfig, worker, control
<1>. QED
  BY <1>1, <1>a, <1>4, <1>5, <1>6, <1>7, <1>8, <1>9, <1>10, <1>11, <1>c, <1>12, <1>13

\* For any workers and bundles: through late heartbeats, lost answers, retirements and
\* malformed bundles, the endpoint the control plane holds, the one the node reports and
\* those on their way are endpoints somebody configured (ApplyConfig,
\* RecordNodeHeartbeat, observeControlNode).
THEOREM NodeTypes == NodeSpec => []NodeTypeOK
<1>. DEFINE Typed == NodeInv /\ BundlesTyped /\ BeatsTyped
<1>1. NodeInit => Typed
  <2>. SUFFICES ASSUME NodeInit PROVE BundlesTyped /\ BeatsTyped
    BY NodeInvInit
  <2>1. NoBundle.endpoint = NoEndpoint /\ NoBundle.at = 0
    BY DEF NoBundle
  <2>2. BundlesTyped
    BY <2>1, NodeAssumption DEF NodeInit, BundlesTyped, AnyEndpoint
  <2>3. BeatsTyped
    BY NodeAssumption DEF NodeInit, BeatsTyped, Places, AnyEndpoint, NoBeat, Beats, Flags
  <2>. QED
    BY <2>2, <2>3
<1>2. Typed /\ [NodeNext]_nodeVars => Typed'
  BY NodeStep, BundlesTypedStep, BeatsTypedStep
<1>3. Typed => NodeTypeOK
  BY DEF BundlesTyped, BeatsTyped, Places, NodeTypeOK, AnyEndpoint
<1>. HIDE DEF Typed
<1>. QED
  BY <1>1, <1>2, <1>3, PTL DEF NodeSpec

=============================================================================
