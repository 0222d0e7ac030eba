------------------------------ MODULE Gateway ------------------------------
(***************************************************************************)
(* The Linux gateway: policy decisions (policy.Engine, policy.Classifier), *)
(* the plans that turn policy rules or observed traffic into fwmark route  *)
(* rules, and Config.Apply / ApplyWithRollback / Rollback, which write two *)
(* files and run nft, ip rule, ip route and systemctl one after the other. *)
(*                                                                         *)
(* Any command may fail, and commands fail by themselves when the kernel   *)
(* refuses them (a rule that exists, a route that does not).  What the     *)
(* kernel does is external and modelled from the commands the code runs.   *)
(* A CIDR is the set of addresses it holds; names, addresses and ids are   *)
(* numbers in the order the code sorts them.  IPv4 and IPv6 are kept       *)
(* apart: ip rule, as the code calls it, adds rules for IPv4 only.         *)
(***************************************************************************)
EXTENDS Integers, Sequences, FiniteSets, SequencesExt

CONSTANTS Addresses,     \* destination addresses
          V4,            \* those that are IPv4
          PolicyTenants,
          PolicySets,    \* sets of policy rules a caller may pass:
                         \* [id, tenant, priority, domains, cidr, class, egress]
          ClassRules,    \* classifier rules: [id, priority, domains, cidr, class]
          Logs,          \* what an observer may read: sets of lines
                         \* [kind, source, domain, ip]
          SourceCIDR,    \* PacketObservationOptions.SourceCIDRs
          AnyValue,      \* a match condition that is not set
          TableOf,       \* EgressRouteTarget: node -> routing table
          BaseRules,     \* Config.RouteRules of the base configuration
          DestOptions,   \* values of PolicyRoutePlanOptions.DestCIDR, AnyValue if empty
          PolicyMarkBase, PolicyPreferenceBase,
          MaxCalls,      \* bound: calls of Apply, ApplyWithRollback and Rollback
          MaxFaults      \* bound: commands that fail for a reason of their own

DefaultClass == 0                  \* policy.ClassDefault
NoDomain == 0
NoClass == -1
Unmarked == 0
NoTable == 0
Proxy == -1                        \* the transparent proxy port of the gateway itself
Nodes == DOMAIN TableOf

\* EgressRouteTarget.Validate; that TableOf is a function says that no node comes twice.
egressRouteTargetsByNode == \A n \in Nodes : TableOf[n] \in Nat \ {0}

Egresses == Nodes \union {r.egress : r \in Range(BaseRules)}
Tables == {TableOf[n] : n \in Nodes} \union {r.table : r \in Range(BaseRules)}

V6 == Addresses \ V4
Dests == {V4, V6} \union (DestOptions \ {AnyValue}) \union {r.dest : r \in Range(BaseRules)}
Slots == Tables \X Dests           \* where a route may be: a table and a destination

\* What the code leaves to its caller: a table has one egress, and the marks and
\* preferences of the base configuration lie below those of the plans.
DistinctTables ==
    /\ \A m, n \in Nodes : TableOf[m] = TableOf[n] => m = n
    /\ \A r \in Range(BaseRules), n \in Nodes : r.table = TableOf[n] => r.egress = n
    /\ \A r, s \in Range(BaseRules) : r.table = s.table => r.egress = s.egress
BaseBelowPlans ==
    \A r \in Range(BaseRules) : r.mark < PolicyMarkBase /\ r.preference < PolicyPreferenceBase

\* RouteRule.Validate: a positive mark and table.
RouteRules == [mark : Nat \ {0}, match : SUBSET Addresses, table : Tables \ {0},
               dest : Dests, egress : Egresses, preference : Nat]

\* normalizePolicyRoutePlanOptions
normalizePolicyRoutePlanOptions ==
    PolicyMarkBase \in Nat \ {0} /\ PolicyPreferenceBase \in Nat \ {0}

\* The destination of the planned routes: 0.0.0.0/0 by default, and ::/0 for an observed
\* IPv6 address.
DestCIDR(option) == IF option = AnyValue THEN V4 ELSE option
ObservedDestCIDR(option, ip) ==
    IF option = AnyValue /\ ip \notin V4 THEN V6 ELSE DestCIDR(option)

\* Rule.Validate: at least one condition; planning also needs the egress to be known.
ValidRule(r) ==
    /\ {r.domains, r.cidr, r.class} # {AnyValue} /\ r.egress \in Nodes
    /\ r.cidr = AnyValue \/ r.cidr \subseteq Addresses
    /\ r.priority \in Int /\ r.id \in Nat

ASSUME GatewayAssumption ==
    /\ egressRouteTargetsByNode /\ DistinctTables /\ BaseBelowPlans
    /\ normalizePolicyRoutePlanOptions
    /\ NoTable \notin Egresses /\ Proxy \notin Egresses /\ Addresses \subseteq Nat /\ V4 \subseteq Addresses
    /\ BaseRules \in Seq(RouteRules)
    /\ \A P \in PolicySets : IsFiniteSet(P) /\ \A r \in P : ValidRule(r)
    /\ \A log \in Logs : /\ IsFiniteSet(log)
                         /\ \A l \in log : l.ip \in Addresses /\ l.domain \in Nat
    /\ MaxCalls \in Nat /\ MaxFaults \in Nat

-----------------------------------------------------------------------------
(* Policy decisions.                                                       *)

Holds(condition, value) == condition = AnyValue \/ value \in condition

\* classificationRuleMatches; ruleMatches adds the class.
classificationRuleMatches(r, request) ==
    Holds(r.domains, request.domain) /\ Holds(r.cidr, request.ip)
ruleMatches(r, request) ==
    /\ classificationRuleMatches(r, request)
    /\ r.class = AnyValue \/ r.class = request.class

\* The order of NewEngine and NewClassifier: higher priority first, then smaller id.
Precedes(r, s) == r.priority > s.priority \/ (r.priority = s.priority /\ r.id < s.id)

First(rules) == CHOOSE r \in rules : \A s \in rules : ~Precedes(s, r)

\* Classifier.Classify
Classify(request) ==
    LET matching == {r \in ClassRules : classificationRuleMatches(r, request)}
    IN  IF request.class # NoClass THEN request.class
        ELSE IF matching = {} THEN DefaultClass ELSE First(matching).class

Matching(P, request) ==
    {r \in P : r.tenant = request.tenant /\ ruleMatches(r, request)}

\* Engine.Evaluate, for a request that some rule matches.
Evaluate(P, request) == First(Matching(P, request))

-----------------------------------------------------------------------------
(* Observations and plans.                                                 *)

\* ParseDNSMasqLogLine keeps replies, parseConntrackLineWithSources flows from the LAN.
Request(tenant, line) ==
    [tenant |-> tenant, domain |-> IF line.kind = "dns" THEN line.domain ELSE NoDomain,
     ip |-> line.ip, class |-> NoClass]

Observable(line) ==
    \/ line.kind = "dns" /\ line.domain # NoDomain
    \/ line.kind = "flow" /\ line.source \in SourceCIDR

Observations(tenant, lines) ==
    {Request(tenant, line) : line \in {l \in lines : Observable(l)}}

\* observedRequestSortKey, for the requests of one tenant
RequestBefore(q, r) == q.ip < r.ip \/ (q.ip = r.ip /\ q.domain < r.domain)

\* sort.Slice: S in a sequence, nothing before what precedes it.
Sorted(S, precedes) ==
    CHOOSE s \in [1 .. Cardinality(S) -> S] :
        /\ Range(s) = S
        /\ \A i, j \in DOMAIN s : i < j => <<s[j], s[i]>> \notin precedes

\* PlanPolicyRouteRules and NewEngine sort the same way.
SortedRules(P) == Sorted(P, {e \in P \X P : Precedes(e[1], e[2])})
SortedRequests(Q) == Sorted(Q, {e \in Q \X Q : RequestBefore(e[1], e[2])})

RouteRule(match, node, dest, index) ==
    [mark |-> PolicyMarkBase + index, match |-> match, table |-> TableOf[node],
     dest |-> dest, egress |-> node, preference |-> PolicyPreferenceBase + index]

\* PlanPolicyRouteRules: one route rule per policy rule, in the engine's order; a rule
\* without a CIDR gets a mark that nothing sets.
PlanPolicyRouteRules(P, option) ==
    LET ordered == SortedRules(P)
    IN  [i \in DOMAIN ordered |->
            RouteRule(IF ordered[i].cidr = AnyValue THEN {} ELSE ordered[i].cidr,
                      ordered[i].egress, DestCIDR(option), i - 1)]

Classified(request) == [request EXCEPT !.class = Classify(request)]

\* Mutant: the request is matched before it has been classified.
PlanObservedPolicyRouteRulesUnclassified(P, observations, option) ==
    LET decided == {q \in observations : Matching(P, q) # {}}
        ordered == SortedRequests(decided)
    IN  [i \in DOMAIN ordered |->
            RouteRule({ordered[i].ip}, Evaluate(P, ordered[i]).egress,
                      ObservedDestCIDR(option, ordered[i].ip), i - 1)]

\* PlanObservedPolicyRouteRules: one route rule per decided (rule, address), in the
\* order of the observations.
PlanObservedPolicyRouteRules(P, observations, option) ==
    LET decided == {q \in observations : Matching(P, Classified(q)) # {}}
        rule(q) == Evaluate(P, Classified(q))
        repeats(q) == \E p \in decided : /\ RequestBefore(p, q)
                                         /\ p.ip = q.ip /\ rule(p) = rule(q)
        ordered == SortedRequests({q \in decided : ~repeats(q)})
    IN  [i \in DOMAIN ordered |->
            RouteRule({ordered[i].ip}, rule(ordered[i]).egress,
                      ObservedDestCIDR(option, ordered[i].ip), i - 1)]

\* sortedRouteRules: among equal preferences, of the base configuration only, the names
\* decide.
sortedRouteRules(rules) ==
    Sorted(rules, {e \in rules \X rules : e[1].preference < e[2].preference})

-----------------------------------------------------------------------------
(* Commands.                                                               *)

Nft == [op |-> "nft -f"]
NftDelete == [op |-> "nft delete table"]
Reload == [op |-> "reload"]
RuleAdd(r) == [op |-> "rule add", rule |-> r]
RouteReplace(r) == [op |-> "route replace", rule |-> r]
RouteDel(r) == [op |-> "route del", rule |-> r]
RuleDel(r) == [op |-> "rule del", rule |-> r]

RenderIPRouteCommands(c) ==
    [k \in 1 .. 2 * Len(c) |->
        IF k % 2 = 1 THEN RuleAdd(c[(k + 1) \div 2]) ELSE RouteReplace(c[k \div 2])]

\* Mutant: only the rules are deleted, not their routes.
RenderIPRouteRollbackCommandsRules(c) ==
    [i \in DOMAIN c |-> RuleDel(Reverse(c)[i])]

\* In reverse order.
RenderIPRouteRollbackCommands(c) ==
    [k \in 1 .. 2 * Len(c) |->
        IF k % 2 = 1 THEN RouteDel(c[Len(c) + 1 - (k + 1) \div 2])
                     ELSE RuleDel(c[Len(c) + 1 - k \div 2])]

ApplyCommands(c) == <<Nft>> \o RenderIPRouteCommands(c) \o <<Reload>>

\* Mutant: the table is deleted last.
RenderRollbackCommandsNftLast(c) ==
    RenderIPRouteRollbackCommands(c) \o <<NftDelete, Reload>>

RenderRollbackCommands(c) ==
    <<NftDelete>> \o RenderIPRouteRollbackCommands(c) \o <<Reload>>

-----------------------------------------------------------------------------
(* State.                                                                  *)

VARIABLES chain,       \* nft: the rules of chain policy_mark, <<match, mark>>
          hasTable,    \* nft: table inet anixops exists, with its redirecting chain
          iprules,     \* ip rule, IPv4: sequence of [mark, table, preference]
          routes,      \* ip route: <<table, destination>> -> egress node or NoTable
          config,      \* the configuration of the running call
          policies, requests, destOption, \* what it was planned from
          pc,          \* "idle", "apply" or "rollback"
          todo,        \* commands still to run
          withRollback,
          result,      \* of the last call: "none", "ok", "failed", "rolled back",
                       \* "rollback failed"
          calls, faults,
          clean,       \* history: the kernel held nothing of ours when Apply began
          tableKept    \* history: deleting the nft table failed for a reason of its own

kernel == <<chain, hasTable, iprules, routes>>
call == <<config, policies, requests, destOption, withRollback>>
history == <<clean, tableKept>>
gatewayVars == <<kernel, call, pc, todo, result, calls, faults, history>>

GatewayInit ==
    /\ chain = <<>> /\ hasTable = FALSE /\ iprules = <<>>
    /\ routes = [s \in Slots |-> NoTable]
    /\ config = <<>> /\ policies = {} /\ requests = {} /\ destOption = AnyValue
    /\ pc = "idle" /\ todo = <<>> /\ withRollback = FALSE
    /\ result = "none" /\ calls = 0 /\ faults = 0
    /\ clean = TRUE /\ tableKept = FALSE

KernelIsClean == ~hasTable /\ iprules = <<>> /\ \A s \in Slots : routes[s] = NoTable

-----------------------------------------------------------------------------
(* Calls.                                                                  *)

\* apply: the files are written (a failed write ends the call before anything has
\* changed), then the commands are run.
Begin(P, observed, option, rules, undo) ==
    /\ pc = "idle" /\ calls < MaxCalls /\ calls' = calls + 1
    /\ config' = sortedRouteRules(Range(BaseRules) \union Range(rules))
    /\ policies' = P /\ requests' = observed /\ destOption' = option
    /\ withRollback' = undo
    /\ pc' = "apply" /\ todo' = ApplyCommands(config')
    /\ result' = "none" /\ clean' = KernelIsClean /\ tableKept' = FALSE
    /\ UNCHANGED <<kernel, faults>>

\* A configuration planned from policy rules, applied with or without rollback.
ApplyPolicyRoutes(P, option, undo) ==
    Begin(P, {}, option, PlanPolicyRouteRules(P, option), undo)

\* ApplyObservedPolicyRoutes, for the DNS log or the conntrack table.
ApplyObservedPolicyRoutes(P, tenant, option, lines) ==
    LET observed == Observations(tenant, lines)
    IN  Begin(P, observed, option, PlanObservedPolicyRouteRules(P, observed, option), TRUE)

\* Config.Rollback of the configuration applied last.
Rollback ==
    /\ pc = "idle" /\ calls < MaxCalls /\ calls' = calls + 1
    /\ pc' = "rollback" /\ todo' = RenderRollbackCommands(config)
    /\ result' = "none" /\ tableKept' = FALSE
    /\ UNCHANGED <<kernel, call, faults, clean>>

-----------------------------------------------------------------------------
(* The kernel: what each command does, and when it is refused.             *)

Same(r) == [mark |-> r.mark, table |-> r.table, preference |-> r.preference]
Slot(r) == <<r.table, r.dest>>

\* Chain policy_mark of a configuration; a rule without a CIDR marks nothing.
MarkRules(c) == [i \in DOMAIN c |-> <<c[i].match, c[i].mark>>]

\* ip rule keeps its rules by preference, and adds behind those of the same one.
InsertRule(r) ==
    LET above == {i \in DOMAIN iprules : iprules[i].preference > r.preference}
        place == IF above = {} THEN Len(iprules) + 1
                 ELSE CHOOSE i \in above : \A j \in above : i <= j
    IN  InsertAt(iprules, place, Same(r))

DeleteRule(r) == RemoveAt(iprules, CHOOSE i \in DOMAIN iprules : iprules[i] = Same(r))

Accepted(command) ==
    CASE command.op = "nft delete table" -> hasTable
      [] command.op = "rule add" -> Same(command.rule) \notin Range(iprules)
      [] command.op = "route del" -> routes[Slot(command.rule)] = command.rule.egress
      [] command.op = "rule del" -> Same(command.rule) \in Range(iprules)
      [] OTHER -> TRUE

\* nft -f adds to a table that exists.
Execute(command) ==
    /\ hasTable' = CASE command.op = "nft -f" -> TRUE
                     [] command.op = "nft delete table" -> FALSE
                     [] OTHER -> hasTable
    /\ chain' = CASE command.op = "nft -f" -> chain \o MarkRules(config)
                  [] command.op = "nft delete table" -> <<>>
                  [] OTHER -> chain
    /\ iprules' = CASE command.op = "rule add" -> InsertRule(command.rule)
                    [] command.op = "rule del" -> DeleteRule(command.rule)
                    [] OTHER -> iprules
    /\ routes' = CASE command.op = "route replace" ->
                          [routes EXCEPT ![Slot(command.rule)] = command.rule.egress]
                   [] command.op = "route del" ->
                          [routes EXCEPT ![Slot(command.rule)] = NoTable]
                   [] OTHER -> routes

RunCommand ==
    /\ todo # <<>> /\ Accepted(Head(todo))
    /\ Execute(Head(todo))
    /\ todo' = Tail(todo)
    /\ UNCHANGED <<call, pc, result, calls, faults, clean, tableKept>>

\* A command fails while applying: maybeRollback, unless nft -f itself failed.
ApplyFails ==
    LET undo == withRollback /\ Head(todo).op # "nft -f"
    IN  /\ pc' = IF undo THEN "rollback" ELSE "idle"
        /\ todo' = IF undo THEN RenderRollbackCommands(config) ELSE <<>>
        /\ result' = "failed"

\* Rollback stops at its first failing command.
RollbackFails ==
    /\ pc' = "idle" /\ todo' = <<>> /\ result' = "rollback failed"

CommandFails ==
    /\ todo # <<>>
    /\ \/ ~Accepted(Head(todo)) /\ UNCHANGED <<faults, tableKept>>
       \/ /\ Accepted(Head(todo)) /\ faults < MaxFaults /\ faults' = faults + 1
          /\ tableKept' = (Head(todo).op = "nft delete table")
    /\ IF pc = "apply" THEN ApplyFails ELSE RollbackFails
    /\ UNCHANGED <<kernel, call, calls, clean>>

Return ==
    /\ pc # "idle" /\ todo = <<>>
    /\ pc' = "idle"
    /\ result' = IF pc = "apply" THEN "ok" ELSE "rolled back"
    /\ UNCHANGED <<kernel, call, todo, calls, faults, history>>

GatewayNext ==
    \/ \E P \in PolicySets, option \in DestOptions, undo \in BOOLEAN :
           ApplyPolicyRoutes(P, option, undo)
    \/ \E P \in PolicySets, tenant \in PolicyTenants, option \in DestOptions,
          lines \in Logs : ApplyObservedPolicyRoutes(P, tenant, option, lines)
    \/ Rollback \/ RunCommand \/ CommandFails \/ Return

GatewaySpec == GatewayInit /\ [][GatewayNext]_gatewayVars

-----------------------------------------------------------------------------
(* Where the kernel sends a packet.                                        *)

\* meta mark set does not end the chain: the last rule that matches counts.
MarkOf(ip) ==
    LET matching == {i \in DOMAIN chain : ip \in chain[i][1]}
    IN  IF matching = {} THEN Unmarked
        ELSE chain[CHOOSE i \in matching : \A j \in matching : j <= i][2]

\* The destinations a table has routes for that hold the address.
Routed(table, ip) == {d \in Dests : ip \in d /\ routes[<<table, d>>] # NoTable}

\* The first rule for the mark whose table has a route.  Rules are kept for IPv4 only;
\* the routes of a table have one egress (DistinctTables), whichever is the longest.
EgressOf(ip) ==
    LET usable == {i \in DOMAIN iprules : /\ ip \in V4 /\ iprules[i].mark = MarkOf(ip)
                                          /\ Routed(iprules[i].table, ip) # {}}
        table == iprules[CHOOSE i \in usable : \A j \in usable : i <= j].table
    IN  IF usable = {} THEN NoTable
        ELSE routes[<<table, CHOOSE d \in Routed(table, ip) : TRUE>>]

Protocols == {"tcp", "udp", "icmp"}
Redirected == {"tcp", "udp"}

\* Chain prerouting of type nat, which comes after the marks and before the route.
SentTo(ip, protocol) ==
    IF hasTable /\ protocol \in Redirected THEN Proxy ELSE EgressOf(ip)

-----------------------------------------------------------------------------
(* Properties.                                                             *)

GatewayTypeOK ==
    /\ hasTable \in BOOLEAN /\ pc \in {"idle", "apply", "rollback"}
    /\ Range(iprules) \subseteq [mark : Nat, table : Tables, preference : Nat]
    /\ routes \in [Slots -> Egresses \union {NoTable}]
    /\ calls \in 0..MaxCalls /\ faults \in 0..MaxFaults

\* After a call that began on a clean kernel and returned no error, traffic of the LAN
\* to an observed IPv4 address inside DestCIDR goes to the gateway's proxy if it is TCP
\* or UDP, and otherwise leaves through the egress the policy engine decides for the
\* tenant, unless two observations of the address were decided differently: the path
\* goes from the nft mark over the ip rule and its table to the route.
ObservedRoutedAsDecided ==
    result = "ok" /\ clean =>
        \A q \in requests :
            LET rivals == {p \in requests : p.ip = q.ip}
                decide(p) == Evaluate(policies, Classified(p)).egress
            IN  /\ q.ip \in V4 /\ q.ip \in DestCIDR(destOption)
                /\ \A p \in rivals : /\ Matching(policies, Classified(p)) # {}
                                     /\ decide(p) = decide(q)
                => \A protocol \in Protocols :
                       SentTo(q.ip, protocol) =
                           IF protocol \in Redirected THEN Proxy ELSE decide(q)

\* A rollback that reports success has left nothing of its configuration in the
\* kernel: no mark, no rule and no route.
RolledBackIsGone ==
    result = "rolled back" =>
        /\ ~hasTable
        /\ \A i \in DOMAIN config :
               Same(config[i]) \notin Range(iprules) /\ routes[Slot(config[i])] # config[i].egress

\* An apply that failed and was rolled back marks no packet any more and redirects none,
\* whichever command of the rollback failed, refused or for a reason of its own, unless
\* it was the deletion of an nft table that is there.
FailedApplyMarksNothing ==
    (pc = "idle" /\ result = "rollback failed" /\ ~tableKept)
        => /\ \A ip \in Addresses : MarkOf(ip) = Unmarked
           /\ \A ip \in Addresses, protocol \in Protocols : SentTo(ip, protocol) # Proxy

=============================================================================
