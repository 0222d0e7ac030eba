---------------------------- MODULE ServiceChain ----------------------------
(***************************************************************************)
(* Signed delivery of service chains to one POP (internal/controlcontract, *)
(* internal/linuxgw/service_chain*.go).  The controller signs profiles in  *)
(* numbered envelopes; on the way to the POP an envelope is lost, repeated,*)
(* overtaken, kept beyond its expiry or altered.  The POP verifies it and  *)
(* compiles its routes into marks, rules and tables beside the ones it has.*)
(*                                                                         *)
(* PrepareSignedServiceChainDelivery neither persists nor applies: the     *)
(* caller that does (it saves the sequence, then installs) and the kernel  *)
(* that the plan's nft and ip commands program are external.  A digest is  *)
(* the payload it was made of and a signature the key and input it was     *)
(* made with; a CIDR is its family and the addresses it holds.             *)
(***************************************************************************)
EXTENDS Integers, Sequences, FiniteSets

CONSTANTS LocalPOP,       \* ServiceChainCompileOptions.LocalPOPID
          Profiles,       \* payloads a controller may be asked to sign
          Tenants,
          Targets,        \* transport targets, one per POP: [pop, gateway, table]
          Existing,       \* ExistingRouteRules: [mark, table, preference, match]
          MarkBase, PreferenceBase,
          MaxInt,         \* maximumServiceChainInt
          Flows,          \* traffic: [family, src, dst, protocol, port, ingress]
          Unset,          \* a selector or gateway that is not given
          Lifetime,       \* how long envelopes are valid
          MaxIssued,      \* bound: envelopes signed
          MaxTime,        \* bound: clock
          MaxRestarts     \* bound: restarts of the POP's process

ASSUME ChainAssumption ==
    /\ MarkBase \in Nat \ {0} /\ PreferenceBase \in Nat \ {0} /\ MaxInt \in Nat
    /\ Lifetime \in Nat \ {0} /\ MaxIssued \in Nat /\ MaxTime \in Nat /\ MaxRestarts \in Nat

\* A profile's routes are a slice, and a rule's mark is positive (RouteRule.Validate).
ASSUME InputAssumption ==
    /\ \A p \in Profiles : p.kind = "pop" =>
           Len(p.routes) \in Nat /\ DOMAIN p.routes = 1 .. Len(p.routes)
    /\ \A r \in Existing : r.mark \in Nat \ {0} /\ r.preference \in Nat

VARIABLES sent,          \* the envelopes signed so far: the i-th has sequence i
          clock,
          lastAccepted,  \* the caller's LastAcceptedSequence
          saved,         \* the sequence in the caller's file
          pending,       \* a prepared delivery that is not installed yet, or NoDelivery
          installed,     \* the delivery whose plan the kernel runs, or NoDelivery
          ctmark,        \* conntrack: the mark of each flow, NoMark if it has none
          met,           \* the flows conntrack knows (state established)
          hop,           \* where the latest packet of each flow went
          under,         \* history: the sequence installed at the flow's first packet since
                         \* it has its mark
          restarts

pop == <<lastAccepted, saved, pending>>
traffic == <<ctmark, met, hop, under>>
vars == <<sent, clock, pop, installed, traffic, restarts>>

NoMark == 0
NoDelivery == [seq |-> 0]
Direct == "direct"             \* the main table
Policy == "policy"             \* the table of an existing route rule

-----------------------------------------------------------------------------
(* Profiles.                                                               *)

Distinct(s) == \A i, j \in DOMAIN s : s[i] = s[j] => i = j

\* RouteSelector.Validate and PortRange.Validate
ValidSelector(s) ==
    /\ s.protocol \in {Unset, "tcp", "udp"}
    /\ s.ports # Unset => s.protocol # Unset /\ 0 < s.ports[1] /\ s.ports[1] <= s.ports[2]
    /\ \E field \in DOMAIN s : s[field] # Unset

\* RoutePolicy.Validate and ServiceChain.Validate
ValidRoute(r) ==
    /\ ~r.directFallback
    /\ ValidSelector(r.selector)
    /\ r.hops # <<>> /\ Distinct(r.hops) /\ Distinct(r.returnHops)

\* PopProfile.Validate
ValidPop(p) ==
    /\ p.routes # <<>>
    /\ \A i \in DOMAIN p.routes : ValidRoute(p.routes[i])
    /\ \A i, j \in DOMAIN p.routes : p.routes[i].id = p.routes[j].id => i = j

\* ClientProfile.Validate: the POPs a client may enter by.
ValidClient(p) == p.pops # <<>> /\ Distinct(p.pops)

\* Profile.Validate, within ParseProfile
ValidProfile(p) ==
    \/ p.kind = "pop" /\ ValidPop(p)
    \/ p.kind = "client" /\ ValidClient(p)

-----------------------------------------------------------------------------
(* Envelopes.                                                              *)

ValidateMetadata(e) ==
    e.kind \in {"client", "pop"} /\ e.seq > 0 /\ e.expiresAt > e.issuedAt

validateProfileBinding(e) ==
    ValidProfile(e.payload) /\ e.payload.kind = e.kind /\ e.payload.principal = e.target

\* SigningInputV1
SigningInput(e) == <<e.kind, e.tenant, e.target, e.seq, e.issuedAt, e.expiresAt, e.payload>>

\* Signer.Sign, for an envelope that is valid.
Signed(e, key) ==
    [kind |-> e.kind, tenant |-> e.tenant, target |-> e.target, seq |-> e.seq,
     issuedAt |-> e.issuedAt, expiresAt |-> e.expiresAt, payload |-> e.payload,
     digest |-> e.payload, signature |-> <<key, SigningInput(e)>>]

\* Mutant: the payload is only compared with its digest.
VerifyDigest(m, now) ==
    /\ ValidateMetadata(m) /\ m.digest = m.payload
    /\ m.signature[1] = "controller"
    /\ m.expiresAt > now
    /\ validateProfileBinding(m)

\* Signer.Verify and validateIntegrity
Verify(m, now) ==
    /\ ValidateMetadata(m) /\ m.digest = m.payload
    /\ m.signature = <<"controller", SigningInput(m)>>
    /\ m.expiresAt > now
    /\ validateProfileBinding(m)

-----------------------------------------------------------------------------
(* The compiler.                                                           *)

\* compileServiceChainSelector, validateServiceChainTargetFamily
Family(s) == IF s.src # Unset THEN s.src.family ELSE s.dst.family

compileServiceChainSelector(s) ==
    /\ s.domain = Unset /\ s.class = Unset
    /\ s.src # Unset \/ s.dst # Unset
    /\ s.src # Unset /\ s.dst # Unset => s.src.family = s.dst.family

\* normalizeServiceChainTransportTarget, serviceChainTargetsByPOPID
validTargets ==
    /\ \A t \in Targets : t.table > 0 /\ t.table \notin 253 .. 255
    /\ \A s, t \in Targets : s.pop = t.pop \/ s.table = t.table => s = t

target(p) == CHOOSE t \in Targets : t.pop = p

\* serviceChainSequenceValue
SequenceValue(base, index) == base + index
Overflows(base, index) == base > MaxInt - index

\* Mutant: the existing rules are not looked at.
ReservationIgnored(mark, preference, table) == TRUE

\* validateServiceChainRouteReservation
validateServiceChainRouteReservation(mark, preference, table) ==
    \A r \in Existing : mark # r.mark /\ preference # r.preference /\ table # r.table

CompiledRoute(r, index) ==
    [selector |-> r.selector, family |-> Family(r.selector), next |-> r.hops[1],
     mark |-> SequenceValue(MarkBase, index),
     preference |-> SequenceValue(PreferenceBase, index),
     table |-> target(r.hops[1]).table]

\* The conditions of CompileServiceChainPlan's loop for one route.
Compiles(r, index) ==
    /\ ~Overflows(MarkBase, index) /\ ~Overflows(PreferenceBase, index)
    /\ r.hops[1] # LocalPOP /\ \E t \in Targets : t.pop = r.hops[1]
    /\ validateServiceChainRouteReservation(MarkBase + index, PreferenceBase + index,
                                            target(r.hops[1]).table)
    /\ compileServiceChainSelector(r.selector)
    /\ target(r.hops[1]).gateway \in {Unset, Family(r.selector)}

CompileServiceChainPlan(p) ==
    [i \in DOMAIN p.routes |-> CompiledRoute(p.routes[i], i - 1)]

\* ServiceChainPlan.Validate: what it adds to the checks of the loop.
ValidPlan(plan) ==
    \A i, j \in DOMAIN plan :
        /\ plan[i].mark = plan[j].mark \/ plan[i].preference = plan[j].preference => i = j
        /\ plan[i].family = plan[j].family /\ plan[i].table = plan[j].table
               => plan[i].next = plan[j].next

CanCompile(p) ==
    /\ p.principal = LocalPOP /\ validTargets
    /\ \A i \in DOMAIN p.routes : Compiles(p.routes[i], i - 1)
    /\ ValidPlan(CompileServiceChainPlan(p))

-----------------------------------------------------------------------------
Init ==
    /\ sent = <<>> /\ clock = 0
    /\ lastAccepted = 0 /\ saved = 0 /\ pending = NoDelivery /\ installed = NoDelivery
    /\ ctmark = [f \in Flows |-> NoMark] /\ met = {}
    /\ hop = [f \in Flows |-> Direct] /\ under = [f \in Flows |-> 0]
    /\ restarts = 0

\* The controller signs its next envelope, to whom it is for.
Issue(p, tenant) ==
    LET e == [kind |-> p.kind, tenant |-> tenant, target |-> p.principal,
              seq |-> Len(sent) + 1, issuedAt |-> clock, expiresAt |-> clock + Lifetime,
              payload |-> p]
    IN  /\ Len(sent) < MaxIssued
        /\ ValidateMetadata(e) /\ validateProfileBinding(e)
        /\ sent' = Append(sent, Signed(e, "controller"))
        /\ UNCHANGED <<clock, pop, installed, traffic, restarts>>

Tick ==
    /\ clock < MaxTime /\ clock' = clock + 1
    /\ UNCHANGED <<sent, pop, installed, traffic, restarts>>

\* What an envelope may have become on its way: one field differs, or the payload and
\* its digest, or it was signed by somebody else.
Altered(m) ==
    {[m EXCEPT !.seq = s] : s \in 1 .. MaxIssued + 1}
        \cup {[m EXCEPT !.expiresAt = t] : t \in 1 .. MaxTime + Lifetime}
        \cup {[m EXCEPT !.target = LocalPOP], Signed(m, "somebody")}
        \cup {[m EXCEPT !.payload = p] : p \in Profiles}
        \cup {[m EXCEPT !.payload = p, !.digest = p] : p \in Profiles}

Delivery(m) ==
    [seq |-> m.seq, tenant |-> m.tenant, expiresAt |-> m.expiresAt,
     plan |-> CompileServiceChainPlan(m.payload), profile |-> m.payload, at |-> clock]

\* Mutant: the sequence is not compared.
PrepareAnySequence(m) ==
    /\ Verify(m, clock)
    /\ m.kind = "pop" /\ m.target = LocalPOP
    /\ CanCompile(m.payload)

\* PrepareSignedServiceChainDelivery returns a plan.
PrepareSignedServiceChainDelivery(m) ==
    /\ Verify(m, clock)
    /\ m.kind = "pop" /\ m.target = LocalPOP
    /\ m.seq > lastAccepted
    /\ CanCompile(m.payload)

\* The caller takes a prepared delivery; a refused envelope changes nothing.
Accept(m) ==
    /\ PrepareSignedServiceChainDelivery(m)
    /\ pending' = Delivery(m)
    /\ lastAccepted' = m.seq
    /\ UNCHANGED <<sent, clock, saved, installed, traffic, restarts>>

\* Any envelope may arrive at any time, any number of times, as it was or altered.
Deliver ==
    /\ pending = NoDelivery
    /\ \E i \in DOMAIN sent : \E m \in {sent[i]} \cup Altered(sent[i]) : Accept(m)

SaveSequence ==
    /\ pending # NoDelivery /\ saved # pending.seq
    /\ saved' = pending.seq
    /\ UNCHANGED <<sent, clock, lastAccepted, pending, installed, traffic, restarts>>

\* The plan's nft table and ip commands take the place of the earlier plan's.
Install ==
    /\ pending # NoDelivery /\ saved = pending.seq
    /\ installed' = pending
    /\ pending' = NoDelivery
    /\ UNCHANGED <<sent, clock, lastAccepted, saved, traffic, restarts>>

\* The POP's process restarts; the kernel keeps what it runs.
Restart ==
    /\ restarts < MaxRestarts /\ restarts' = restarts + 1
    /\ lastAccepted' = saved
    /\ pending' = NoDelivery
    /\ UNCHANGED <<sent, clock, saved, installed, traffic>>

-----------------------------------------------------------------------------
(* The kernel under RenderNftables and RenderIPRouteCommands.              *)

Plan == IF installed = NoDelivery THEN <<>> ELSE installed.plan

Within(cidr, family, address) ==
    cidr = Unset \/ (cidr.family = family /\ address \in cidr.addresses)

Selects(s, f) ==
    /\ f.ingress
    /\ Within(s.src, f.family, f.src) /\ Within(s.dst, f.family, f.dst)
    /\ s.protocol \in {Unset, f.protocol}
    /\ s.ports # Unset => f.port \in s.ports[1] .. s.ports[2]

\* The mark of the gateway's own chain, which runs before this one (mangle is -150).
PolicyMark(f) ==
    IF \E r \in Existing : f.dst \in r.match
    THEN (CHOOSE r \in Existing : f.dst \in r.match).mark ELSE NoMark

\* The rule that marks a packet: each asks for ct mark 0 and sets it, so the first.
FirstMatch(f) ==
    {i \in DOMAIN Plan : /\ ctmark[f] = NoMark /\ Selects(Plan[i].selector, f)
                         /\ \A j \in DOMAIN Plan : Selects(Plan[j].selector, f) => i <= j}

\* ct state established restores the connection's mark, whether it has one or not.
RestoredMark(f) == IF f \in met THEN ctmark[f] ELSE PolicyMark(f)

\* ip rule: the rule of the least preference with this mark, then its table.
RulesFor(mark, family) ==
    {[preference |-> Plan[i].preference, to |-> Plan[i].next] :
        i \in {j \in DOMAIN Plan : Plan[j].mark = mark /\ Plan[j].family = family}}
    \cup {[preference |-> r.preference, to |-> Policy] : r \in {s \in Existing : s.mark = mark}}

Lookup(mark, family) ==
    LET rules == RulesFor(mark, family)
    IN  IF rules = {} THEN Direct
        ELSE (CHOOSE r \in rules : \A s \in rules : r.preference <= s.preference).to

Packet(f) ==
    LET marking == FirstMatch(f)
        mark == IF marking = {} THEN RestoredMark(f) ELSE Plan[CHOOSE i \in marking : TRUE].mark
    IN  /\ hop' = [hop EXCEPT ![f] = Lookup(mark, f.family)]
        /\ ctmark' = [ctmark EXCEPT ![f] = IF marking = {} THEN @ ELSE mark]
        /\ met' = met \cup {f}
        /\ under' = [under EXCEPT ![f] = IF ctmark[f] = NoMark THEN installed.seq ELSE @]
        /\ UNCHANGED <<sent, clock, pop, installed, restarts>>

Next ==
    \/ \E p \in Profiles, tenant \in Tenants : Issue(p, tenant)
    \/ Tick
    \/ Deliver
    \/ SaveSequence \/ Install \/ Restart
    \/ \E f \in Flows : Packet(f)

Spec == Init /\ [][Next]_vars

-----------------------------------------------------------------------------
(* Properties.                                                             *)

\* Every variable has its type.
TypeOK ==
    /\ Len(sent) <= MaxIssued /\ clock \in 0 .. MaxTime /\ restarts \in 0 .. MaxRestarts
    /\ lastAccepted \in 0 .. MaxIssued /\ saved \in 0 .. MaxIssued
    /\ pending.seq \in 0 .. MaxIssued /\ installed.seq \in 0 .. MaxIssued
    /\ met \subseteq Flows /\ DOMAIN ctmark = Flows /\ DOMAIN hop = Flows

\* Repeated, overtaken and altered envelopes, and restarts between accepting, saving
\* and installing, never put an older profile in the place of a newer one, nor the
\* same one twice (the sequence check, with a caller that saves before it installs).
NeverOlder == [][installed' # installed => installed'.seq > installed.seq]_vars

\* What the kernel runs was compiled from a profile the controller signed for this POP
\* under this sequence, unaltered, and accepted before the envelope's expiry.
InstalledAsSigned ==
    installed # NoDelivery =>
        /\ installed.seq \in DOMAIN sent
        /\ LET e == sent[installed.seq]
           IN  /\ e.kind = "pop" /\ e.target = LocalPOP /\ e.tenant = installed.tenant
               /\ installed.profile = e.payload
               /\ installed.at < e.issuedAt + Lifetime

\* The first route of the signed profile that selects a flow.
SelectedBy(routes, f) ==
    {i \in DOMAIN routes : /\ Selects(routes[i].selector, f)
                           /\ \A j \in 1 .. i - 1 : ~Selects(routes[j].selector, f)}

\* A flow that has its mark from the plan now installed, or none, goes to the first
\* hop of the first route of the signed profile that selects it, with every packet, and
\* to no POP if no route does: through the nft marks, the connection mark, the ip rules
\* and the tables, beside the gateway's own rules.
SteersToFirstHop ==
    \A f \in met :
        (installed # NoDelivery /\ under[f] = installed.seq) =>
            LET selecting == SelectedBy(installed.profile.routes, f)
            IN  IF selecting = {} THEN hop[f] \in {Direct, Policy}
                ELSE \A i \in selecting : hop[f] = installed.profile.routes[i].hops[1]

=============================================================================
