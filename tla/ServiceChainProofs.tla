-------------------------- MODULE ServiceChainProofs --------------------------
(***************************************************************************)
(* Proofs about the Linux gateway.  First ServiceChain, for any profiles,  *)
(* tenants, routes, flows, rules, lifetimes and numbers of envelopes and   *)
(* restarts: what the POP accepts and installs, and where the kernel sends *)
(* each flow under it.  Then Gateway, for any policy sets, classifier      *)
(* rules, log lines, tables and base configuration and for any number of   *)
(* calls and faults: what an apply, a failed apply and a rollback leave in *)
(* the kernel.                                                             *)
(***************************************************************************)
EXTENDS ServiceChain, Gateway, FiniteSetTheorems, WellFoundedInduction, TLAPS

Kinds == {"client", "pop"}
Principals == {p.principal : p \in Profiles}
Inputs == Kinds \X Tenants \X Principals \X Nat \X Nat \X Nat \X Profiles

Envelopes ==
    [kind : Kinds, tenant : Tenants, target : Principals, seq : Nat, issuedAt : Nat,
     expiresAt : Nat, payload : Profiles, digest : Profiles,
     signature : {"controller"} \X Inputs]

\* What the controller has signed: the number, the lifetime and the signature of each.
SentOK ==
    /\ clock \in Nat /\ sent \in Seq(Envelopes)
    /\ \A i \in 1 .. Len(sent) :
           /\ sent[i].seq = i
           /\ sent[i].expiresAt = sent[i].issuedAt + Lifetime
           /\ sent[i].signature = <<"controller", SigningInput(sent[i])>>

\* A delivery holds what the controller signed for this POP under its number.
AsSigned(d) ==
    /\ d.seq \in 1 .. Len(sent)
    /\ LET e == sent[d.seq]
       IN  /\ e.kind = "pop" /\ e.target = LocalPOP /\ e.tenant = d.tenant
           /\ d.profile = e.payload
           /\ d.at < e.issuedAt + Lifetime

DeliveriesOK ==
    /\ pending # NoDelivery => AsSigned(pending)
    /\ installed # NoDelivery => AsSigned(installed)

\* The caller accepts, saves, then installs: the three numbers never overtake one
\* another, and what waits to be installed is newer than what runs.
SequencesOrdered ==
    /\ installed.seq \in Nat /\ saved \in Nat /\ lastAccepted \in Nat
    /\ installed.seq <= saved /\ saved <= lastAccepted
    /\ pending # NoDelivery => pending.seq = lastAccepted /\ installed.seq < pending.seq

IInv == SentOK /\ DeliveriesOK /\ SequencesOrdered

-----------------------------------------------------------------------------

\* The signature covers every field but the digest: an altered envelope that still
\* verifies is the one that was signed (Signer.Verify, SigningInputV1).
LEMMA VerifiedIsSigned ==
  ASSUME NEW e \in Envelopes, e.signature = <<"controller", SigningInput(e)>>,
         NEW m \in {e} \cup Altered(e), NEW now, Verify(m, now)
  PROVE  /\ m.kind = e.kind /\ m.tenant = e.tenant /\ m.target = e.target /\ m.seq = e.seq
         /\ m.expiresAt = e.expiresAt /\ m.payload = e.payload
<1>1. m.signature = <<"controller", SigningInput(m)>>
  BY DEF Verify
<1>2. m.signature = e.signature \/ m.signature[1] = "somebody"
  <2>1. CASE m = Signed(e, "somebody")
    BY <2>1 DEF Signed
  <2>2. CASE m = e \/ m = [e EXCEPT !.target = LocalPOP]
    BY <2>2 DEF Envelopes
  <2>3. ASSUME NEW s, m = [e EXCEPT !.seq = s] \/ m = [e EXCEPT !.expiresAt = s]
        PROVE  m.signature = e.signature
    BY <2>3 DEF Envelopes
  <2>4. ASSUME NEW p, m = [e EXCEPT !.payload = p] \/ m = [e EXCEPT !.payload = p, !.digest = p]
        PROVE  m.signature = e.signature
    BY <2>4 DEF Envelopes
  <2>. QED
    BY <2>1, <2>2, <2>3, <2>4 DEF Altered
<1>3. SigningInput(m) = SigningInput(e)
  BY <1>1, <1>2
<1>. QED
  BY <1>3 DEF SigningInput

\* It holds before anything is signed.
LEMMA InitIInv == Init => IInv
  BY DEF Init, IInv, SentOK, DeliveriesOK, SequencesOrdered, NoDelivery

\* Signing one more envelope leaves the earlier ones as they are.
LEMMA IssueStep ==
  ASSUME IInv, NEW p \in Profiles, NEW tenant \in Tenants, Issue(p, tenant)
  PROVE  IInv'
<1>. DEFINE e == [kind |-> p.kind, tenant |-> tenant, target |-> p.principal,
                  seq |-> Len(sent) + 1, issuedAt |-> clock, expiresAt |-> clock + Lifetime,
                  payload |-> p]
            n == Signed(e, "controller")
<1>1. /\ sent' = Append(sent, n) /\ p.kind \in Kinds
      /\ UNCHANGED <<clock, pop, installed>>
  BY DEF Issue, ValidateMetadata, Kinds
<1>2. /\ n \in Envelopes
      /\ n.seq = Len(sent) + 1 /\ n.expiresAt = n.issuedAt + Lifetime
      /\ n.signature = <<"controller", SigningInput(n)>>
  BY <1>1, ChainAssumption DEF IInv, SentOK, Signed, SigningInput, Envelopes, Inputs, Principals
<1>. HIDE DEF n
<1>3. /\ Len(sent') = Len(sent) + 1 /\ sent' \in Seq(Envelopes)
      /\ sent'[Len(sent) + 1] = n
      /\ \A i \in 1 .. Len(sent) : sent'[i] = sent[i]
  BY <1>1, <1>2 DEF IInv, SentOK
<1>4. SentOK'
  <2>. DEFINE Signs(m, i) == /\ m.seq = i /\ m.expiresAt = m.issuedAt + Lifetime
                             /\ m.signature = <<"controller", SigningInput(m)>>
  <2>1. /\ clock \in Nat /\ Len(sent) \in Nat /\ \A i \in 1 .. Len(sent) : Signs(sent[i], i)
    BY DEF IInv, SentOK
  <2>2. Signs(n, Len(sent) + 1)
    BY <1>2
  <2>. HIDE DEF Signs
  <2>3. \A i \in 1 .. Len(sent) + 1 : i \in 1 .. Len(sent) \/ i = Len(sent) + 1
    BY <2>1
  <2>4. \A i \in 1 .. Len(sent') : Signs(sent'[i], i)
    BY <1>3, <2>1, <2>2, <2>3
  <2>5. clock' \in Nat /\ sent' \in Seq(Envelopes)
    BY <1>1, <1>3, <2>1
  <2>. QED
    BY <2>4, <2>5 DEF SentOK, Signs, SigningInput
<1>5. DeliveriesOK'
  BY <1>1, <1>3 DEF IInv, SentOK, DeliveriesOK, AsSigned, pop
<1>6. SequencesOrdered'
  BY <1>1 DEF IInv, SequencesOrdered, pop
<1>. QED
  BY <1>4, <1>5, <1>6 DEF IInv

\* What passes Accept was signed, is in time and is newer than what was accepted.
LEMMA AcceptStep ==
  ASSUME IInv, NEW i \in 1 .. Len(sent), NEW m \in {sent[i]} \cup Altered(sent[i]), Accept(m)
  PROVE  IInv'
<1>1. /\ Verify(m, clock) /\ m.kind = "pop" /\ m.target = LocalPOP /\ m.seq > lastAccepted
      /\ pending' = Delivery(m) /\ lastAccepted' = m.seq
      /\ UNCHANGED <<sent, clock, saved, installed>>
  BY DEF Accept, PrepareSignedServiceChainDelivery
<1>2. /\ sent[i] \in Envelopes /\ sent[i].seq = i
      /\ sent[i].expiresAt = sent[i].issuedAt + Lifetime
      /\ sent[i].signature = <<"controller", SigningInput(sent[i])>>
  BY DEF IInv, SentOK
<1>3. /\ m.kind = sent[i].kind /\ m.tenant = sent[i].tenant /\ m.target = sent[i].target
      /\ m.seq = i /\ m.expiresAt = sent[i].expiresAt /\ m.payload = sent[i].payload
  BY <1>1, <1>2, VerifiedIsSigned
<1>4. clock < sent[i].issuedAt + Lifetime
  BY <1>1, <1>2, <1>3, ChainAssumption DEF Verify, IInv, SentOK, Envelopes
<1>5. AsSigned(pending)'
  BY <1>1, <1>3, <1>4 DEF AsSigned, Delivery
<1>6. DeliveriesOK'
  BY <1>1, <1>5 DEF IInv, DeliveriesOK, AsSigned
<1>7. SequencesOrdered'
  BY <1>1, <1>3 DEF IInv, SentOK, SequencesOrdered, Delivery
<1>. QED
  BY <1>1, <1>6, <1>7 DEF IInv, SentOK

LEMMA NextIInv == IInv /\ [Next]_vars => IInv'
<1>. SUFFICES ASSUME IInv, [Next]_vars PROVE IInv'
  OBVIOUS
<1>1. CASE Deliver
  <2>1. DOMAIN sent = 1 .. Len(sent)
    BY DEF IInv, SentOK
  <2>. QED
    BY <1>1, <2>1, AcceptStep DEF Deliver
<1>2. CASE Tick
  BY <1>2, ChainAssumption DEF Tick, IInv, SentOK, DeliveriesOK, AsSigned, SequencesOrdered, pop
<1>3. CASE SaveSequence
  BY <1>3 DEF SaveSequence, IInv, SentOK, DeliveriesOK, AsSigned, SequencesOrdered
<1>4. CASE Install
  BY <1>4 DEF Install, IInv, SentOK, DeliveriesOK, AsSigned, SequencesOrdered
<1>5. CASE Restart
  BY <1>5 DEF Restart, IInv, SentOK, DeliveriesOK, AsSigned, SequencesOrdered
<1>6. ASSUME NEW f \in Flows, Packet(f) PROVE IInv'
  BY <1>6 DEF Packet, IInv, SentOK, DeliveriesOK, AsSigned, SequencesOrdered, pop
<1>7. CASE UNCHANGED vars
  BY <1>7 DEF vars, IInv, SentOK, DeliveriesOK, AsSigned, SequencesOrdered, pop
<1>. QED
  BY <1>1, <1>2, <1>3, <1>4, <1>5, <1>6, <1>7, IssueStep DEF Next

LEMMA AlwaysIInv == Spec => []IInv
  BY InitIInv, NextIInv, PTL DEF Spec

-----------------------------------------------------------------------------

\* For any envelopes, alterations and restarts, what the kernel runs is the profile
\* the controller signed for this POP under that number, accepted before its expiry
\* (Signer.Verify over SigningInputV1, PrepareSignedServiceChainDelivery).
THEOREM RunsWhatWasSigned == Spec => []InstalledAsSigned
<1>1. IInv => InstalledAsSigned
  BY DEF IInv, SentOK, DeliveriesOK, AsSigned, InstalledAsSigned
<1>. QED
  BY <1>1, AlwaysIInv, PTL

\* For any envelopes, alterations and restarts, an installed plan is only ever
\* replaced by one with a larger sequence (the comparison with LastAcceptedSequence,
\* for a caller that saves the sequence before it installs).
THEOREM OnlyNewerInstalled == Spec => NeverOlder
<1>1. IInv /\ [Next]_vars => [installed' # installed => installed'.seq > installed.seq]_vars
  <2>. SUFFICES ASSUME IInv, Next, installed' # installed
                PROVE  installed'.seq > installed.seq
    BY DEF vars
  <2>1. Install
    BY DEF Next, Issue, Tick, Deliver, Accept, SaveSequence, Restart, Packet
  <2>. QED
    BY <2>1 DEF Install, IInv, SequencesOrdered
<1>. QED
  BY <1>1, AlwaysIInv, PTL DEF Spec, NeverOlder
-----------------------------------------------------------------------------
(* What the kernel does with the plan's marks and rules.                   *)

\* What is delivered was compiled from a profile that can be.
Compiled(d) ==
    /\ d.profile \in Profiles /\ d.profile.kind = "pop" /\ CanCompile(d.profile)
    /\ d.plan = CompileServiceChainPlan(d.profile)

CompiledInv ==
    /\ pending # NoDelivery => Compiled(pending)
    /\ installed # NoDelivery => Compiled(installed)

\* A flow that is settled under the installed plan has the connection mark of the
\* first route that selects it, and goes where that route does.
Settled(f) ==
    LET chosen == installed.profile.routes
        selecting == SelectedBy(chosen, f)
    IN  IF selecting = {}
        THEN ctmark[f] = NoMark /\ hop[f] \in {Direct, Policy}
        ELSE \A i \in selecting :
                 ctmark[f] = SequenceValue(MarkBase, i - 1) /\ hop[f] = chosen[i].hops[1]

\* A flow was settled under this plan or under an earlier one: a mark of an earlier
\* plan keeps its number, which is smaller.
TrafficInv ==
    /\ met \subseteq Flows
    /\ DOMAIN ctmark = Flows /\ DOMAIN hop = Flows /\ DOMAIN under = Flows
    /\ \A f \in Flows : under[f] \in Nat /\ under[f] <= installed.seq
    /\ \A f \in Flows : ctmark[f] # NoMark => f \in met
    /\ \A f \in met : installed # NoDelivery /\ under[f] = installed.seq => Settled(f)

SteerInv == IInv /\ CompiledInv /\ TrafficInv

\* A set of natural numbers has a least element.
LEMMA LeastNatural ==
  ASSUME NEW T \in SUBSET Nat, T # {}
  PROVE  \E x \in T : \A y \in T : x <= y
<1>. DEFINE R == {ss \in Nat \X Nat : ss[1] < ss[2]}
<1>1. OpToRel(<, Nat) = R
  BY Zenon DEF OpToRel
<1>2. IsWellFoundedOn(R, Nat)
  BY <1>1, NatLessThanWellFounded, Zenon
<1>3. \E x \in T : \A y \in T : ~(<<y, x>> \in R)
  <2>. HIDE DEF R
  <2>. QED
    BY <1>2, WFMin, Zenon
<1>4. ASSUME NEW x \in T, NEW y \in T, ~(<<y, x>> \in R)
      PROVE  x <= y
  BY <1>4
<1>. QED
  BY <1>3, <1>4

\* The plan has a rule for each route, with its selector and first hop, a mark that
\* no other rule of the plan or of the gateway has, and the family of its flows.
LEMMA PlanFacts ==
  ASSUME NEW p \in Profiles, p.kind = "pop", CanCompile(p)
  PROVE  LET plan == CompileServiceChainPlan(p)
         IN  /\ DOMAIN plan = DOMAIN p.routes /\ \E n \in Nat : DOMAIN p.routes = 1 .. n
             /\ \A i \in DOMAIN p.routes :
                    /\ plan[i].selector = p.routes[i].selector
                    /\ plan[i].next = p.routes[i].hops[1]
                    /\ plan[i].mark = MarkBase + (i - 1) /\ plan[i].mark # NoMark
                    /\ plan[i].preference = PreferenceBase + (i - 1)
                    /\ \A r \in Existing : plan[i].mark # r.mark
                    /\ \A f \in Flows : Selects(plan[i].selector, f) => plan[i].family = f.family
<1>. DEFINE plan == CompileServiceChainPlan(p)
<1>1. PICK n \in Nat : DOMAIN p.routes = 1 .. n
  BY InputAssumption
<1>2. DOMAIN plan = DOMAIN p.routes
  BY DEF CompileServiceChainPlan
<1>3. ASSUME NEW i \in DOMAIN p.routes
      PROVE  /\ plan[i].selector = p.routes[i].selector
             /\ plan[i].family = Family(p.routes[i].selector)
             /\ plan[i].next = p.routes[i].hops[1]
             /\ plan[i].mark = MarkBase + (i - 1)
             /\ plan[i].preference = PreferenceBase + (i - 1)
  BY <1>3 DEF CompileServiceChainPlan, CompiledRoute, SequenceValue
<1>4. ASSUME NEW i \in DOMAIN p.routes PROVE Compiles(p.routes[i], i - 1)
  BY <1>4 DEF CanCompile
<1>5. ASSUME NEW i \in DOMAIN p.routes, NEW r \in Existing
      PROVE  MarkBase + (i - 1) # r.mark
  BY <1>4, <1>5 DEF Compiles, validateServiceChainRouteReservation
<1>6. ASSUME NEW i \in DOMAIN p.routes PROVE MarkBase + (i - 1) # NoMark
  BY <1>1, <1>6, ChainAssumption DEF NoMark
<1>7. ASSUME NEW i \in DOMAIN p.routes, NEW f \in Flows, Selects(p.routes[i].selector, f)
      PROVE  Family(p.routes[i].selector) = f.family
  BY <1>4, <1>7 DEF Compiles, compileServiceChainSelector, Selects, Within, Family
<1>. HIDE DEF plan
<1>8. ASSUME NEW i \in DOMAIN p.routes
      PROVE  /\ plan[i].selector = p.routes[i].selector
             /\ plan[i].next = p.routes[i].hops[1]
             /\ plan[i].mark = MarkBase + (i - 1) /\ plan[i].mark # NoMark
             /\ plan[i].preference = PreferenceBase + (i - 1)
             /\ \A r \in Existing : plan[i].mark # r.mark
             /\ \A f \in Flows : Selects(plan[i].selector, f) => plan[i].family = f.family
  BY <1>3, <1>5, <1>6, <1>7, <1>8
<1>. QED
  BY <1>1, <1>2, <1>8 DEF plan

\* The least of a set of rules is chosen: it is one of them.
LEMMA LeastRule ==
  ASSUME NEW rules, rules # {}, \A r \in rules : r.preference \in Nat
  PROVE  (CHOOSE r \in rules : \A s \in rules : r.preference <= s.preference) \in rules
<1>. DEFINE T == {r.preference : r \in rules}
<1>1. PICK x \in T : \A y \in T : x <= y
  BY LeastNatural
<1>2. \E r \in rules : \A s \in rules : r.preference <= s.preference
  BY <1>1
<1>. QED
  BY <1>2

\* Under an installed plan, the mark of one of its rules leads to that rule's next hop,
\* for the flows of its family; a mark that none of them has leads to no POP.
LEMMA LookupFacts ==
  ASSUME installed # NoDelivery, Compiled(installed)
  PROVE  /\ \A i \in DOMAIN Plan : Lookup(Plan[i].mark, Plan[i].family) = Plan[i].next
         /\ \A mark, family :
                (\A i \in DOMAIN Plan : Plan[i].mark # mark)
                    => Lookup(mark, family) \in {Direct, Policy}
<1>. DEFINE p == installed.profile
<1>1. /\ Plan = CompileServiceChainPlan(p) /\ p \in Profiles /\ p.kind = "pop" /\ CanCompile(p)
  BY DEF Plan, Compiled
<1>2. /\ DOMAIN Plan = DOMAIN p.routes /\ \E n \in Nat : DOMAIN p.routes = 1 .. n
      /\ \A i \in DOMAIN Plan :
             /\ Plan[i].mark = MarkBase + (i - 1)
             /\ Plan[i].preference = PreferenceBase + (i - 1)
             /\ \A r \in Existing : Plan[i].mark # r.mark
  BY <1>1, PlanFacts
<1>3. DOMAIN Plan \subseteq Nat \ {0}
  BY <1>2
<1>4. ASSUME NEW i \in DOMAIN Plan
      PROVE  Lookup(Plan[i].mark, Plan[i].family) = Plan[i].next
  <2>. DEFINE rules == RulesFor(Plan[i].mark, Plan[i].family)
              it == [preference |-> Plan[i].preference, to |-> Plan[i].next]
  <2>1. \A j \in DOMAIN Plan : Plan[j].mark = Plan[i].mark => j = i
    BY <1>2, <1>3, <1>4, ChainAssumption
  <2>2. {s \in Existing : s.mark = Plan[i].mark} = {}
    BY <1>2, <1>4
  <2>3. {j \in DOMAIN Plan : Plan[j].mark = Plan[i].mark /\ Plan[j].family = Plan[i].family} = {i}
    BY <2>1, <1>4
  <2>4. rules = {it}
    BY <2>2, <2>3 DEF RulesFor
  <2>5. it.preference \in Nat /\ it.to = Plan[i].next
    BY <1>2, <1>3, <1>4, ChainAssumption
  <2>. HIDE DEF rules, it
  <2>6. (CHOOSE r \in rules : \A s \in rules : r.preference <= s.preference) \in rules
    BY <2>4, <2>5, LeastRule
  <2>. QED
    BY <2>4, <2>5, <2>6 DEF Lookup, rules
<1>5. ASSUME NEW mark, NEW family, \A i \in DOMAIN Plan : Plan[i].mark # mark
      PROVE  Lookup(mark, family) \in {Direct, Policy}
  <2>. DEFINE rules == RulesFor(mark, family)
  <2>1. {j \in DOMAIN Plan : Plan[j].mark = mark /\ Plan[j].family = family} = {}
    BY <1>5
  <2>2. \A r \in rules : r.preference \in Nat /\ r.to = Policy
    BY <2>1, InputAssumption DEF RulesFor
  <2>. HIDE DEF rules
  <2>3. rules # {} => (CHOOSE r \in rules : \A s \in rules : r.preference <= s.preference) \in rules
    BY <2>2, LeastRule
  <2>. QED
    BY <2>2, <2>3 DEF Lookup, rules
<1>. QED
  BY <1>4, <1>5

\* The rule that marks a flow without a connection mark is that of the first route
\* that selects it.
LEMMA FirstMatchIsSelected ==
  ASSUME installed # NoDelivery, Compiled(installed), NEW f \in Flows
  PROVE  /\ ctmark[f] = NoMark => FirstMatch(f) = SelectedBy(installed.profile.routes, f)
         /\ ctmark[f] # NoMark => FirstMatch(f) = {}
         /\ \A i, j \in SelectedBy(installed.profile.routes, f) : i = j
<1>. DEFINE p == installed.profile
<1>1. /\ Plan = CompileServiceChainPlan(p) /\ p \in Profiles /\ p.kind = "pop" /\ CanCompile(p)
  BY DEF Plan, Compiled
<1>2. /\ DOMAIN Plan = DOMAIN p.routes /\ \E n \in Nat : DOMAIN p.routes = 1 .. n
      /\ \A i \in DOMAIN Plan : Plan[i].selector = p.routes[i].selector
  BY <1>1, PlanFacts
<1>3. PICK n \in Nat : DOMAIN p.routes = 1 .. n
  BY <1>2
<1>4. ASSUME ctmark[f] = NoMark, NEW i \in 1 .. n
      PROVE  i \in FirstMatch(f) <=> i \in SelectedBy(p.routes, f)
  BY <1>2, <1>3, <1>4 DEF FirstMatch, SelectedBy
<1>5. FirstMatch(f) \subseteq 1 .. n /\ SelectedBy(p.routes, f) \subseteq 1 .. n
  BY <1>2, <1>3 DEF FirstMatch, SelectedBy
<1>6. ctmark[f] = NoMark => FirstMatch(f) = SelectedBy(p.routes, f)
  BY <1>4, <1>5
<1>7. ctmark[f] # NoMark => FirstMatch(f) = {}
  BY DEF FirstMatch
<1>8. ASSUME NEW i \in SelectedBy(p.routes, f), NEW j \in SelectedBy(p.routes, f) PROVE i = j
  BY <1>5, <1>8 DEF SelectedBy
<1>. QED
  BY <1>6, <1>7, <1>8

LEMMA PacketSettles ==
  ASSUME SteerInv, NEW f \in Flows, Packet(f), installed # NoDelivery,
         under'[f] = installed.seq
  PROVE  Settled(f)'
<1>. DEFINE chosen == installed.profile.routes
            selecting == SelectedBy(chosen, f)
            marking == FirstMatch(f)
            mark == IF marking = {} THEN RestoredMark(f) ELSE Plan[CHOOSE i \in marking : TRUE].mark
<1>1. /\ hop'[f] = Lookup(mark, f.family) /\ ctmark'[f] = IF marking = {} THEN ctmark[f] ELSE mark
      /\ under'[f] = IF ctmark[f] = NoMark THEN installed.seq ELSE under[f]
      /\ installed' = installed
  BY DEF Packet, SteerInv, TrafficInv
<1>2. /\ Compiled(installed) /\ Plan = CompileServiceChainPlan(installed.profile)
      /\ installed.profile \in Profiles /\ installed.profile.kind = "pop"
      /\ CanCompile(installed.profile)
  BY DEF SteerInv, CompiledInv, Compiled, Plan
<1>3. /\ DOMAIN Plan = DOMAIN chosen
      /\ \A i \in DOMAIN Plan :
             /\ Plan[i].selector = chosen[i].selector /\ Plan[i].next = chosen[i].hops[1]
             /\ Plan[i].mark = MarkBase + (i - 1) /\ Plan[i].mark # NoMark
             /\ \A r \in Existing : Plan[i].mark # r.mark
             /\ Selects(Plan[i].selector, f) => Plan[i].family = f.family
  BY <1>2, PlanFacts
<1>4. /\ ctmark[f] = NoMark => marking = selecting
      /\ ctmark[f] # NoMark => marking = {}
      /\ \A i, j \in selecting : i = j
  BY <1>2, FirstMatchIsSelected
<1>5. \A i \in selecting : i \in DOMAIN Plan /\ Selects(Plan[i].selector, f)
  BY <1>3 DEF SelectedBy
<1>6. \A i \in selecting : Lookup(Plan[i].mark, f.family) = chosen[i].hops[1]
  BY <1>2, <1>3, <1>5, LookupFacts
<1>7. Settled(f)' <=>
          IF selecting = {} THEN ctmark'[f] = NoMark /\ hop'[f] \in {Direct, Policy}
          ELSE \A i \in selecting :
                   ctmark'[f] = SequenceValue(MarkBase, i - 1) /\ hop'[f] = chosen[i].hops[1]
  BY <1>1 DEF Settled, SelectedBy
<1>. HIDE DEF chosen, selecting, marking, mark
<1>8. CASE ctmark[f] = NoMark /\ selecting = {}
  <2>1. mark = RestoredMark(f) /\ ctmark'[f] = NoMark
    BY <1>1, <1>4, <1>8 DEF mark
  <2>2. RestoredMark(f) = NoMark \/ \E r \in Existing : RestoredMark(f) = r.mark
    BY <1>8 DEF RestoredMark, PolicyMark
  <2>3. \A i \in DOMAIN Plan : Plan[i].mark # mark
    BY <1>3, <2>1, <2>2
  <2>. QED
    BY <1>1, <1>2, <1>7, <1>8, <2>1, <2>3, LookupFacts
<1>9. CASE ctmark[f] = NoMark /\ selecting # {}
  <2>1. PICK i \in selecting : mark = Plan[i].mark
    BY <1>4, <1>9 DEF mark
  <2>. QED
    BY <1>1, <1>3, <1>4, <1>5, <1>6, <1>7, <1>9, <2>1 DEF SequenceValue
<1>10. CASE ctmark[f] # NoMark
  <2>1. under[f] = installed.seq /\ f \in met /\ marking = {}
    BY <1>1, <1>4, <1>10 DEF SteerInv, TrafficInv
  <2>2. Settled(f)
    BY <2>1 DEF SteerInv, TrafficInv
  <2>3. selecting # {} /\ \A i \in selecting : ctmark[f] = MarkBase + (i - 1)
    BY <1>10, <2>2 DEF Settled, selecting, chosen, SequenceValue
  <2>4. mark = ctmark[f] /\ ctmark'[f] = ctmark[f]
    BY <1>1, <2>1 DEF mark, RestoredMark
  <2>. QED
    BY <1>1, <1>3, <1>5, <1>6, <1>7, <2>3, <2>4 DEF SequenceValue
<1>. QED
  BY <1>8, <1>9, <1>10

LEMMA PacketStep == ASSUME SteerInv, NEW f \in Flows, Packet(f) PROVE TrafficInv'
<1>1. /\ \A g \in Flows \ {f} :
             /\ ctmark'[g] = ctmark[g] /\ hop'[g] = hop[g] /\ under'[g] = under[g]
      /\ DOMAIN ctmark' = Flows /\ DOMAIN hop' = Flows /\ DOMAIN under' = Flows
      /\ met' = met \cup {f} /\ installed' = installed
      /\ under'[f] \in {under[f], installed.seq}
  BY DEF Packet, SteerInv, TrafficInv
<1>2. ASSUME NEW g \in met', installed # NoDelivery, under'[g] = installed.seq
      PROVE  Settled(g)'
  <2>1. CASE g = f
    BY <1>2, <2>1, PacketSettles
  <2>2. CASE g # f
    <3>1. Settled(g)
      BY <1>1, <1>2, <2>2 DEF SteerInv, TrafficInv
    <3>. QED
      BY <1>1, <1>2, <2>2, <3>1 DEF Settled, SelectedBy, SteerInv, TrafficInv
  <2>. QED
    BY <2>1, <2>2
<1>3. /\ met' \subseteq Flows
      /\ \A g \in Flows : under'[g] \in Nat /\ under'[g] <= installed.seq
      /\ \A g \in Flows : ctmark'[g] # NoMark => g \in met'
  BY <1>1 DEF SteerInv, TrafficInv, IInv, SequencesOrdered
<1>. QED
  BY <1>1, <1>2, <1>3 DEF TrafficInv

LEMMA NextSteerInv == SteerInv /\ [Next]_vars => SteerInv'
<1>. SUFFICES ASSUME SteerInv, [Next]_vars PROVE CompiledInv' /\ TrafficInv'
  BY NextIInv DEF SteerInv
<1>1. ASSUME NEW i \in 1 .. Len(sent), NEW m \in {sent[i]} \cup Altered(sent[i]), Accept(m)
      PROVE  CompiledInv'
  <2>1. Verify(m, clock) /\ m.kind = "pop" /\ CanCompile(m.payload) /\ pending' = Delivery(m)
        /\ installed' = installed
    BY <1>1 DEF Accept, PrepareSignedServiceChainDelivery
  <2>2. /\ sent[i] \in Envelopes
        /\ sent[i].signature = <<"controller", SigningInput(sent[i])>>
    BY DEF SteerInv, IInv, SentOK
  <2>3. m.payload \in Profiles
    BY <2>1, <2>2, VerifiedIsSigned DEF Envelopes
  <2>4. m.payload.kind = "pop"
    BY <2>1 DEF Verify, validateProfileBinding
  <2>5. Compiled(pending')
    BY <2>1, <2>3, <2>4 DEF Compiled, Delivery
  <2>. QED
    BY <2>1, <2>5 DEF CompiledInv, SteerInv
<1>2. CASE Deliver
  <2>1. DOMAIN sent = 1 .. Len(sent)
    BY DEF SteerInv, IInv, SentOK
  <2>2. CompiledInv'
    BY <1>1, <1>2, <2>1 DEF Deliver
  <2>3. UNCHANGED <<installed, traffic>>
    BY <1>2 DEF Deliver, Accept
  <2>. QED
    BY <2>2, <2>3 DEF SteerInv, TrafficInv, Settled, traffic
<1>3. CASE Install
  <2>1. installed' = pending /\ pending' = NoDelivery /\ UNCHANGED traffic
        /\ installed.seq < installed'.seq /\ installed'.seq \in Nat
    BY <1>3 DEF Install, SteerInv, IInv, SequencesOrdered
  <2>2. CompiledInv'
    BY <1>3, <2>1 DEF Install, SteerInv, CompiledInv
  <2>3. \A f \in Flows : under'[f] \in Nat /\ under'[f] < installed'.seq
    BY <2>1 DEF SteerInv, TrafficInv, IInv, SequencesOrdered, traffic
  <2>. QED
    BY <2>1, <2>2, <2>3 DEF SteerInv, TrafficInv, traffic
<1>4. ASSUME UNCHANGED <<installed, traffic>>, pending' \in {pending, NoDelivery}
      PROVE  CompiledInv' /\ TrafficInv'
  BY <1>4 DEF SteerInv, CompiledInv, TrafficInv, Settled, traffic
<1>5. ASSUME NEW f \in Flows, Packet(f) PROVE CompiledInv' /\ TrafficInv'
  BY <1>5, PacketStep DEF Packet, SteerInv, CompiledInv, pop
<1>. QED
  BY <1>2, <1>3, <1>4, <1>5 DEF Next, Issue, Tick, SaveSequence, Restart, vars, pop

\* For any profiles, gateway rules and flows, and any deliveries, restarts and packets
\* between them, a flow that has its mark from the plan now installed, or none, goes to
\* the first hop of the first route of the signed profile that selects it, and to no POP
\* if none does (CompileServiceChainPlan, validateServiceChainRouteReservation, and the
\* rules RenderNftables and RenderIPRouteCommands give the kernel).
THEOREM FlowsFollowProfile == Spec => []SteersToFirstHop
<1>1. Init => SteerInv
  BY InitIInv DEF Init, SteerInv, CompiledInv, TrafficInv, NoDelivery, NoMark
<1>2. SteerInv => SteersToFirstHop
  BY DEF SteerInv, TrafficInv, Settled, SteersToFirstHop
<1>. QED
  BY <1>1, <1>2, NextSteerInv, PTL DEF Spec

-----------------------------------------------------------------------------

\* What is numbered, counted and saved stays within the bounds of the behaviour.
WithinBounds ==
    /\ Len(sent) <= MaxIssued /\ clock <= MaxTime /\ restarts \in 0 .. MaxRestarts
    /\ lastAccepted <= Len(sent)

LEMMA NextWithinBounds ==
  ASSUME SteerInv, WithinBounds, [Next]_vars
  PROVE  WithinBounds'
<1>0. /\ clock \in Nat /\ Len(sent) \in Nat /\ DOMAIN sent = 1 .. Len(sent)
      /\ saved \in Nat /\ saved <= lastAccepted /\ lastAccepted \in Nat
      /\ sent \in Seq(Envelopes)
  BY DEF SteerInv, IInv, SentOK, SequencesOrdered
<1>1. ASSUME NEW p \in Profiles, NEW tenant \in Tenants, Issue(p, tenant) PROVE WithinBounds'
  <2>1. PICK e : sent' = Append(sent, e)
    BY <1>1 DEF Issue
  <2>2. Len(sent') = Len(sent) + 1 /\ Len(sent) < MaxIssued
    BY <1>0, <1>1, <2>1 DEF Issue
  <2>3. UNCHANGED <<clock, restarts, lastAccepted>>
    BY <1>1 DEF Issue, pop
  <2>. QED
    BY <1>0, <2>2, <2>3, ChainAssumption DEF WithinBounds
<1>2. CASE Tick
  BY <1>0, <1>2, ChainAssumption DEF Tick, WithinBounds, pop
<1>3. CASE Deliver
  <2>1. PICK i \in 1 .. Len(sent) : \E m \in {sent[i]} \cup Altered(sent[i]) : Accept(m)
    BY <1>0, <1>3 DEF Deliver
  <2>2. PICK m \in {sent[i]} \cup Altered(sent[i]) : Accept(m)
    BY <2>1
  <2>3. Verify(m, clock) /\ lastAccepted' = m.seq /\ UNCHANGED <<sent, clock, restarts>>
    BY <2>2 DEF Accept, PrepareSignedServiceChainDelivery
  <2>4. sent[i] \in Envelopes /\ sent[i].seq = i
        /\ sent[i].signature = <<"controller", SigningInput(sent[i])>>
    BY DEF SteerInv, IInv, SentOK
  <2>5. m.seq = i
    BY <2>3, <2>4, VerifiedIsSigned
  <2>. QED
    BY <1>0, <2>3, <2>5 DEF WithinBounds
<1>4. CASE Restart
  BY <1>0, <1>4, ChainAssumption DEF Restart, WithinBounds
<1>5. ASSUME UNCHANGED <<sent, clock, restarts, lastAccepted>> PROVE WithinBounds'
  BY <1>5 DEF WithinBounds
<1>. QED
  BY <1>1, <1>2, <1>3, <1>4, <1>5 DEF Next, SaveSequence, Install, Packet, vars, pop

\* For any profiles, tenants, flows and bounds every variable has its type: no number
\* that is accepted, saved or installed is one the controller has not signed yet, and
\* conntrack and the routes know exactly the flows there are.
THEOREM ChainTypes == Spec => []TypeOK
<1>1. Init => SteerInv /\ WithinBounds
  BY InitIInv, ChainAssumption
     DEF Init, SteerInv, CompiledInv, TrafficInv, NoDelivery, NoMark, WithinBounds
<1>2. SteerInv /\ WithinBounds /\ [Next]_vars => (SteerInv /\ WithinBounds)'
  BY NextSteerInv, NextWithinBounds
<1>3. SteerInv /\ WithinBounds => TypeOK
  <2>. SUFFICES ASSUME SteerInv, WithinBounds PROVE TypeOK
    OBVIOUS
  <2>1. /\ clock \in Nat /\ Len(sent) \in Nat /\ Len(sent) <= MaxIssued
        /\ lastAccepted \in Nat /\ saved \in Nat /\ installed.seq \in Nat
        /\ installed.seq <= saved /\ saved <= lastAccepted /\ lastAccepted <= Len(sent)
    BY DEF SteerInv, IInv, SentOK, SequencesOrdered, WithinBounds
  <2>2. pending.seq \in Nat /\ pending.seq <= Len(sent)
    <3>1. CASE pending = NoDelivery
      BY <2>1, <3>1 DEF NoDelivery
    <3>2. CASE pending # NoDelivery
      BY <2>1, <3>2 DEF SteerInv, IInv, SequencesOrdered
    <3>. QED
      BY <3>1, <3>2
  <2>. QED
    BY <2>1, <2>2, ChainAssumption DEF TypeOK, WithinBounds, SteerInv, TrafficInv
<1>. QED
  BY <1>1, <1>2, <1>3, PTL DEF Spec

-----------------------------------------------------------------------------
(***************************************************************************)
(* Gateway.  Numbers and orders first: the sort of the plans gives a list  *)
(* of every element once, in an order that the rules or requests have.     *)
(***************************************************************************)

\* A set that holds 0 and, with a number below n, the next one holds all up to n.
LEMMA CountUp ==
  ASSUME NEW n \in Nat, NEW S, 0 \in S, \A i \in 0 .. n - 1 : i \in S => i + 1 \in S
  PROVE  \A i \in 0 .. n : i \in S
<1>. DEFINE T == {i \in 0 .. n : i \notin S}
<1>. SUFFICES ASSUME T # {} PROVE FALSE
  OBVIOUS
<1>1. PICK x \in T : \A y \in T : x <= y
  <2>1. T \in SUBSET Nat
    OBVIOUS
  <2>. HIDE DEF T
  <2>. QED
    BY <2>1, LeastNatural
<1>2. x \in 1 .. n /\ x - 1 \in 0 .. n - 1 /\ x - 1 \notin T
  BY <1>1
<1>3. x - 1 \in S
  BY <1>2
<1>. QED
  BY <1>2, <1>3

\* Below a bound, a set of numbers that is not empty has a greatest one.
LEMMA GreatestNatural ==
  ASSUME NEW n \in Nat, NEW S \in SUBSET (1 .. n), S # {}
  PROVE  \E x \in S : \A y \in S : y <= x
<1>. DEFINE T == {n - y : y \in S}
<1>1. T \in SUBSET Nat /\ T # {}
  <2>1. \A y \in S : n - y \in Nat
    OBVIOUS
  <2>2. PICK y \in S : TRUE
    OBVIOUS
  <2>. QED
    BY <2>1, <2>2
<1>2. PICK t \in T : \A u \in T : t <= u
  <2>. HIDE DEF T
  <2>. QED
    BY <1>1, LeastNatural
<1>3. PICK x \in S : t = n - x
  BY <1>2
<1>4. ASSUME NEW y \in S PROVE y <= x
  <2>1. n - y \in T
    OBVIOUS
  <2>2. t <= n - y
    BY <1>2, <2>1
  <2>. QED
    BY <1>3, <2>2
<1>. QED
  BY <1>4

\* The sequence s holds the n elements of T, none before what precedes it.
Listed(s, T, n, R) ==
    /\ s \in [1 .. n -> T]
    /\ \A x \in T : \E i \in 1 .. n : s[i] = x
    /\ \A i, j \in 1 .. n : i < j => <<s[j], s[i]>> \notin R

\* The order of keys: what stands before another is not behind it, and a third element
\* is behind the one or before the other.
WeakOrder(R, S) ==
    /\ \A x, y \in S : <<x, y>> \in R => <<y, x>> \notin R
    /\ \A x, y, z \in S : <<x, z>> \in R => <<x, y>> \in R \/ <<y, z>> \in R

\* One more element finds its place.
LEMMA Inserted ==
  ASSUME NEW S, NEW R, WeakOrder(R, S), NEW T \in SUBSET S, NEW x \in S, x \notin T,
         NEW n \in Nat, NEW s, Listed(s, T, n, R)
  PROVE  \E t : Listed(t, T \cup {x}, n + 1, R)
<1>. DEFINE A == {k \in 1 .. n : <<x, s[k]>> \in R}
<1>1. PICK m \in 1 .. n + 1 : /\ \A k \in 1 .. n : k < m => <<x, s[k]>> \notin R
                              /\ m <= n => <<x, s[m]>> \in R
  <2>1. CASE A = {}
    <3>1. n + 1 \in 1 .. n + 1 /\ ~(n + 1 <= n)
      OBVIOUS
    <3>. QED
      BY <2>1, <3>1
  <2>2. CASE A # {}
    <3>1. A \in SUBSET Nat
      OBVIOUS
    <3>2. PICK m \in A : \A k \in A : m <= k
      <4>. HIDE DEF A
      <4>. QED
        BY <2>2, <3>1, LeastNatural
    <3>. QED
      BY <3>2
  <2>. QED
    BY <2>1, <2>2
<1>. DEFINE t == [k \in 1 .. n + 1 |-> IF k < m THEN s[k] ELSE IF k = m THEN x ELSE s[k - 1]]
<1>2. /\ \A k \in 1 .. n : k < m => t[k] = s[k]
      /\ t[m] = x
      /\ \A k \in m + 1 .. n + 1 : t[k] = s[k - 1] /\ k - 1 \in 1 .. n
  OBVIOUS
<1>3. /\ s \in [1 .. n -> T]
      /\ \A y \in T : \E i \in 1 .. n : s[i] = y
      /\ \A i, j \in 1 .. n : i < j => <<s[j], s[i]>> \notin R
  BY DEF Listed
<1>4. t \in [1 .. n + 1 -> T \cup {x}]
  <2>1. ASSUME NEW k \in 1 .. n + 1 PROVE t[k] \in T \cup {x}
    BY <1>3, <2>1
  <2>. QED
    BY <2>1
<1>. HIDE DEF t
<1>5. ASSUME NEW y \in T \cup {x} PROVE \E i \in 1 .. n + 1 : t[i] = y
  <2>1. CASE y = x
    BY <1>2, <2>1
  <2>2. CASE y \in T
    <3>1. PICK i \in 1 .. n : s[i] = y
      BY <1>3, <2>2
    <3>2. CASE i < m
      BY <1>2, <3>1, <3>2
    <3>3. CASE i >= m
      <4>1. i + 1 \in m + 1 .. n + 1 /\ i + 1 \in 1 .. n + 1 /\ (i + 1) - 1 = i
        BY <3>3
      <4>2. t[i + 1] = s[(i + 1) - 1]
        BY <1>2, <4>1
      <4>. QED
        BY <3>1, <4>1, <4>2
    <3>. QED
      BY <3>2, <3>3
  <2>. QED
    BY <2>1, <2>2
<1>6. ASSUME NEW i \in 1 .. n + 1, NEW j \in 1 .. n + 1, i < j PROVE <<t[j], t[i]>> \notin R
  <2>1. CASE j < m
    <3>1. i \in 1 .. n /\ j \in 1 .. n /\ i < m
      BY <1>6, <2>1
    <3>. QED
      BY <1>2, <1>3, <1>6, <2>1, <3>1
  <2>2. CASE j = m
    <3>1. i \in 1 .. n /\ i < m
      BY <1>6, <2>2
    <3>. QED
      BY <1>1, <1>2, <2>2, <3>1
  <2>3. CASE i = m
    <3>. DEFINE l == j - 1
    <3>1. l \in 1 .. n /\ l >= m /\ t[j] = s[l] /\ t[i] = x /\ m \in 1 .. n /\ m <= n
      BY <1>2, <1>6, <2>3
    <3>2. <<x, s[m]>> \in R /\ s[m] \in S /\ s[l] \in S
      BY <1>1, <1>3, <3>1
    <3>3. <<s[m], x>> \notin R
      BY <3>2 DEF WeakOrder
    <3>4. CASE l = m
      BY <3>1, <3>3, <3>4
    <3>5. CASE l > m
      <4>1. <<s[l], s[m]>> \notin R
        BY <1>3, <3>1, <3>5
      <4>2. <<s[l], x>> \notin R
        BY <3>2, <3>3, <4>1 DEF WeakOrder
      <4>. QED
        BY <3>1, <4>2
    <3>. QED
      BY <3>1, <3>4, <3>5
  <2>4. CASE i < m /\ j > m
    <3>1. i \in 1 .. n /\ j - 1 \in 1 .. n /\ i < j - 1 /\ t[i] = s[i] /\ t[j] = s[j - 1]
      BY <1>2, <1>6, <2>4
    <3>. QED
      BY <1>3, <3>1
  <2>5. CASE i > m
    <3>1. /\ i - 1 \in 1 .. n /\ j - 1 \in 1 .. n /\ i - 1 < j - 1
          /\ t[i] = s[i - 1] /\ t[j] = s[j - 1]
      BY <1>2, <1>6, <2>5
    <3>. QED
      BY <1>3, <3>1
  <2>. QED
    BY <1>6, <2>1, <2>2, <2>3, <2>4, <2>5
<1>7. Listed(t, T \cup {x}, n + 1, R)
  BY <1>4, <1>5, <1>6 DEF Listed
<1>. QED
  BY <1>7

\* A finite set can be listed in any order of keys.
LEMMA CanBeListed ==
  ASSUME NEW S, IsFiniteSet(S), NEW R, WeakOrder(R, S)
  PROVE  \E s : Listed(s, S, Cardinality(S), R)
<1>. DEFINE N == {n \in Nat : \A T \in SUBSET S : Cardinality(T) = n => \E s : Listed(s, T, n, R)}
<1>0. \A T \in SUBSET S : IsFiniteSet(T) /\ Cardinality(T) \in Nat
  BY FS_Subset, FS_CardinalityType
<1>1. 0 \in N
  <2>1. ASSUME NEW T \in SUBSET S, Cardinality(T) = 0 PROVE \E s : Listed(s, T, 0, R)
    <3>1. T = {}
      BY <1>0, <2>1, FS_EmptySet
    <3>. DEFINE s == [i \in 1 .. 0 |-> i]
    <3>2. Listed(s, T, 0, R)
      BY <3>1 DEF Listed
    <3>. QED
      BY <3>2
  <2>. QED
    BY <2>1
<1>2. ASSUME NEW n \in Nat, n \in N PROVE n + 1 \in N
  <2>1. ASSUME NEW T \in SUBSET S, Cardinality(T) = n + 1 PROVE \E s : Listed(s, T, n + 1, R)
    <3>1. T # {}
      BY <2>1, FS_EmptySet
    <3>2. PICK x \in T : TRUE
      BY <3>1
    <3>. DEFINE U == T \ {x}
    <3>3. Cardinality(U) = n
      BY <1>0, <2>1, <3>2, FS_RemoveElement
    <3>4. U \in SUBSET S /\ x \in S /\ x \notin U /\ U \cup {x} = T
      BY <3>2
    <3>. HIDE DEF U
    <3>5. PICK s : Listed(s, U, n, R)
      BY <1>2, <3>3, <3>4
    <3>. QED
      BY <3>4, <3>5, Inserted
  <2>. QED
    BY <2>1
<1>3. Cardinality(S) \in N
  <2>1. Cardinality(S) \in Nat
    BY <1>0
  <2>. HIDE DEF N
  <2>. QED
    BY <1>1, <1>2, <2>1, CountUp
<1>. QED
  BY <1>3

\* The instance's copies of the FiniteSets operators are the operators themselves.
LEMMA SameFiniteSets ==
  ASSUME NEW S
  PROVE  Cardinality(S) = Cardinality(S) /\ (IsFiniteSet(S) <=> IsFiniteSet(S))
BY DEF Cardinality, Cardinality, IsFiniteSet, IsFiniteSet

\* What the sort of the model gives.
LEMMA SortedFacts ==
  ASSUME NEW S, IsFiniteSet(S), NEW R, WeakOrder(R, S)
  PROVE  Listed(Sorted(S, R), S, Cardinality(S), R)
<1>. DEFINE n == Cardinality(S)
            Good(s) == /\ Range(s) = S
                       /\ \A i, j \in DOMAIN s : i < j => <<s[j], s[i]>> \notin R
<1>0. n = Cardinality(S)
  BY SameFiniteSets
<1>1. PICK s : Listed(s, S, Cardinality(S), R)
  BY CanBeListed
<1>2. s \in [1 .. n -> S] /\ Good(s)
  <2>. HIDE DEF n
  <2>. QED
    BY <1>0, <1>1 DEF Listed, Range
<1>3. Sorted(S, R) = CHOOSE t \in [1 .. n -> S] : Good(t)
  BY Zenon DEF Sorted
<1>4. Sorted(S, R) \in [1 .. n -> S] /\ Good(Sorted(S, R))
  <2>. HIDE DEF Good, n
  <2>. QED
    BY <1>2, <1>3, Zenon
<1>. HIDE DEF n
<1>. QED
  BY <1>0, <1>4 DEF Listed, Range

\* The image of a finite set is finite.
LEMMA ImageIsFinite ==
  ASSUME NEW S, IsFiniteSet(S), NEW f, DOMAIN f = S
  PROVE  IsFiniteSet({f[x] : x \in S})
<1>. DEFINE T == {f[x] : x \in S}
            g == [x \in S |-> f[x]]
<1>1. g \in Surjection(S, T)
  BY DEF Surjection
<1>. QED
  BY <1>1, FS_Surjection

\* The order of the engine and the classifier is one of keys.
LEMMA PrecedesIsOrder ==
  ASSUME NEW M, \A r \in M : r.priority \in Int /\ r.id \in Nat
  PROVE  WeakOrder({e \in M \X M : Precedes(e[1], e[2])}, M)
BY DEF WeakOrder, Precedes

\* So is the order of the observations,
LEMMA RequestsAreOrdered ==
  ASSUME NEW M, \A q \in M : q.ip \in Nat /\ q.domain \in Nat
  PROVE  WeakOrder({e \in M \X M : RequestBefore(e[1], e[2])}, M)
BY DEF WeakOrder, RequestBefore

\* and that of the preferences.
LEMMA PreferencesAreOrdered ==
  ASSUME NEW M, \A r \in M : r.preference \in Nat
  PROVE  WeakOrder({e \in M \X M : e[1].preference < e[2].preference}, M)
BY DEF WeakOrder

\* The engine's first rule is one of the rules that match.
LEMMA FirstIsOne ==
  ASSUME NEW M, IsFiniteSet(M), M # {}, \A r \in M : r.priority \in Int /\ r.id \in Nat
  PROVE  First(M) \in M
<1>. DEFINE R == {e \in M \X M : Precedes(e[1], e[2])}
            n == Cardinality(M)
<1>1. PICK s : Listed(s, M, n, R)
  BY PrecedesIsOrder, CanBeListed
<1>2. n \in Nat /\ n > 0 /\ 1 \in 1 .. n
  BY FS_CardinalityType, FS_EmptySet
<1>3. s[1] \in M /\ \A r \in M : <<r, s[1]>> \notin R
  <2>. HIDE DEF n
  <2>1. s[1] \in M
    BY <1>1, <1>2 DEF Listed
  <2>2. ASSUME NEW r \in M PROVE <<r, s[1]>> \notin R
    <3>1. PICK i \in 1 .. n : s[i] = r
      BY <1>1 DEF Listed
    <3>2. CASE i = 1
      BY <2>1, <3>1, <3>2 DEF Precedes
    <3>3. CASE i > 1
      BY <1>1, <1>2, <3>1, <3>3 DEF Listed
    <3>. QED
      BY <3>1, <3>2, <3>3
  <2>. QED
    BY <2>1, <2>2
<1>4. \A r \in M : ~Precedes(r, s[1])
  BY <1>3
<1>. QED
  BY <1>3, <1>4, Zenon DEF First

\* A rule that a plan may hold leads to a node through the node's own table.
PlannedRules == {r \in RouteRules : r.egress \in Nodes /\ r.table = TableOf[r.egress]}

\* What RouteRule makes.
LEMMA PlannedRule ==
  ASSUME NEW m \in SUBSET Addresses, NEW node \in Nodes, NEW d \in Dests, NEW x \in Nat
  PROVE  LET r == RouteRule(m, node, d, x)
         IN  /\ r \in PlannedRules
             /\ r.mark = PolicyMarkBase + x /\ r.preference = PolicyPreferenceBase + x
             /\ r.match = m /\ r.dest = d
             /\ r.table = TableOf[node] /\ r.egress = node
<1>1. PolicyMarkBase \in Nat \ {0} /\ PolicyPreferenceBase \in Nat \ {0}
  BY GatewayAssumption DEF normalizePolicyRoutePlanOptions
<1>2. TableOf[node] \in Tables \ {0} /\ node \in Egresses
  BY GatewayAssumption DEF Tables, Egresses, egressRouteTargetsByNode
<1>. QED
  BY <1>1, <1>2 DEF RouteRule, RouteRules, PlannedRules

\* Planned routes have a destination of the configuration.
LEMMA PlannedDest ==
  ASSUME NEW option \in DestOptions
  PROVE  /\ DestCIDR(option) \in Dests
         /\ \A ip : ObservedDestCIDR(option, ip) \in Dests
         /\ \A ip \in V4 : ObservedDestCIDR(option, ip) = DestCIDR(option)
BY DEF DestCIDR, ObservedDestCIDR, Dests

\* The plan from policy rules is a list of planned rules.
LEMMA PolicyPlan ==
  ASSUME NEW P \in PolicySets, NEW option \in DestOptions
  PROVE  \E n \in Nat : PlanPolicyRouteRules(P, option) \in [1 .. n -> PlannedRules]
<1>. DEFINE ordered == SortedRules(P)
            n == Cardinality(P)
            M(i) == IF ordered[i].cidr = AnyValue THEN {} ELSE ordered[i].cidr
            plan == [i \in DOMAIN ordered |->
                        RouteRule(M(i), ordered[i].egress, DestCIDR(option), i - 1)]
<1>1. IsFiniteSet(P) /\ \A r \in P : ValidRule(r)
  BY SameFiniteSets, GatewayAssumption
<1>2. \A r \in P : r.priority \in Int /\ r.id \in Nat
  BY <1>1 DEF ValidRule
<1>3. ordered \in [1 .. n -> P] /\ n \in Nat
  BY <1>1, <1>2, PrecedesIsOrder, SortedFacts, FS_CardinalityType DEF Listed, SortedRules
<1>4. plan = PlanPolicyRouteRules(P, option)
  BY DEF PlanPolicyRouteRules
<1>. HIDE DEF ordered, n
<1>5. ASSUME NEW i \in 1 .. n PROVE plan[i] \in PlannedRules
  <2>1. ordered[i] \in P
    BY <1>3
  <2>2. ordered[i].egress \in Nodes /\ M(i) \in SUBSET Addresses
    BY <1>1, <2>1 DEF ValidRule
  <2>. QED
    BY <1>3, <2>2, PlannedRule, PlannedDest
<1>6. plan \in [1 .. n -> PlannedRules]
  BY <1>3, <1>5
<1>. QED
  BY <1>3, <1>4, <1>6

\* A request that some rule of P matches once it is classified, and the rule that decides.
Decided(P, q) == Matching(P, Classified(q)) # {}
RuleFor(P, q) == Evaluate(P, Classified(q))

\* The rule that decides is one of the policy, and its egress a known node.
LEMMA RuleForIsValid ==
  ASSUME NEW P \in PolicySets, NEW q, Decided(P, q)
  PROVE  RuleFor(P, q) \in P /\ RuleFor(P, q).egress \in Nodes
<1>. DEFINE M == Matching(P, Classified(q))
<1>1. IsFiniteSet(P) /\ \A r \in P : ValidRule(r)
  BY SameFiniteSets, GatewayAssumption
<1>2. M \in SUBSET P /\ M # {}
  BY DEF Decided, Matching
<1>3. IsFiniteSet(M)
  BY <1>1, <1>2, FS_Subset
<1>4. \A r \in M : r.priority \in Int /\ r.id \in Nat
  BY <1>1, <1>2 DEF ValidRule
<1>5. First(M) \in M /\ RuleFor(P, q) = First(M)
  <2>1. RuleFor(P, q) = First(M)
    BY DEF RuleFor, Evaluate
  <2>. HIDE DEF M
  <2>. QED
    BY <1>2, <1>3, <1>4, <2>1, FirstIsOne
<1>. QED
  BY <1>1, <1>2, <1>5 DEF ValidRule

\* What is observed is finite and has an address and a domain.
LEMMA ObservationsTyped ==
  ASSUME NEW tenant, NEW lines \in Logs
  PROVE  /\ IsFiniteSet(Observations(tenant, lines))
         /\ \A q \in Observations(tenant, lines) :
                q.ip \in Addresses /\ q.ip \in Nat /\ q.domain \in Nat
<1>. DEFINE L == {l \in lines : Observable(l)}
            f == [l \in L |-> Request(tenant, l)]
<1>1. IsFiniteSet(L)
  <2>1. IsFiniteSet(lines)
    BY SameFiniteSets, GatewayAssumption
  <2>2. L \in SUBSET lines
    OBVIOUS
  <2>. QED
    BY <2>1, <2>2, FS_Subset
<1>2. Observations(tenant, lines) = {f[l] : l \in L}
  BY DEF Observations
<1>3. ASSUME NEW l \in L
      PROVE  /\ Request(tenant, l).ip \in Addresses /\ Request(tenant, l).ip \in Nat
             /\ Request(tenant, l).domain \in Nat
  <2>1. l.ip \in Addresses /\ l.domain \in Nat /\ l.ip \in Nat
    BY GatewayAssumption
  <2>. QED
    BY <2>1 DEF Request, NoDomain
<1>4. DOMAIN f = L /\ \A l \in L : f[l] = Request(tenant, l)
  OBVIOUS
<1>. HIDE DEF L, f
<1>5. IsFiniteSet({f[l] : l \in L})
  BY <1>1, <1>4, ImageIsFinite, Zenon
<1>. QED
  BY <1>2, <1>3, <1>4, <1>5

\* The rules planned from observations: one for each request of a sequence of n decided
\* ones, and every decided request shares its address with one of them.
PlannedFor(P, O, option, rules, n, ordered) ==
    /\ ordered \in [1 .. n -> O]
    /\ rules = [i \in 1 .. n |->
                  RouteRule({ordered[i].ip}, RuleFor(P, ordered[i]).egress,
                            ObservedDestCIDR(option, ordered[i].ip), i - 1)]
    /\ \A i \in 1 .. n : Decided(P, ordered[i])
    /\ \A q \in O : Decided(P, q) => \E i \in 1 .. n : ordered[i].ip = q.ip

LEMMA ObservedPlan ==
  ASSUME NEW P \in PolicySets, NEW tenant, NEW option, NEW lines \in Logs
  PROVE  LET O == Observations(tenant, lines)
         IN  \E n \in Nat : \E ordered :
               PlannedFor(P, O, option, PlanObservedPolicyRouteRules(P, O, option), n, ordered)
<1>. DEFINE O == Observations(tenant, lines)
            decided == {q \in O : Matching(P, Classified(q)) # {}}
            repeats(q) == \E p \in decided : /\ RequestBefore(p, q)
                                             /\ p.ip = q.ip /\ RuleFor(P, p) = RuleFor(P, q)
            kept == {q \in decided : ~repeats(q)}
            ordered == SortedRequests(kept)
            n == Cardinality(kept)
<1>1. IsFiniteSet(O) /\ \A q \in O : q.ip \in Nat /\ q.domain \in Nat
  BY ObservationsTyped
<1>2. kept \in SUBSET O /\ decided \in SUBSET O
  OBVIOUS
<1>3. PlanObservedPolicyRouteRules(P, O, option) =
        [i \in DOMAIN ordered |->
            RouteRule({ordered[i].ip}, RuleFor(P, ordered[i]).egress,
                      ObservedDestCIDR(option, ordered[i].ip), i - 1)]
  BY Zenon DEF PlanObservedPolicyRouteRules, RuleFor
<1>4. /\ n \in Nat /\ ordered \in [1 .. n -> kept]
      /\ \A q \in kept : \E i \in 1 .. n : ordered[i] = q
  <2>. HIDE DEF kept
  <2>1. IsFiniteSet(kept)
    BY <1>1, <1>2, FS_Subset
  <2>2. \A q \in kept : q.ip \in Nat /\ q.domain \in Nat
    BY <1>1, <1>2
  <2>. DEFINE R == {e \in kept \X kept : RequestBefore(e[1], e[2])}
  <2>3. WeakOrder(R, kept)
    BY <2>2, RequestsAreOrdered, Zenon
  <2>4. ordered = Sorted(kept, R)
    BY DEF SortedRequests
  <2>. HIDE DEF R, ordered
  <2>5. Listed(ordered, kept, Cardinality(kept), R)
    BY <2>1, <2>3, <2>4, SortedFacts, Zenon
  <2>6. Cardinality(kept) \in Nat
    BY <2>1, FS_CardinalityType
  <2>. QED
    BY <2>5, <2>6 DEF Listed
<1>5. ASSUME NEW q \in O, Decided(P, q) PROVE \E p \in kept : p.ip = q.ip
  <2>. DEFINE D == {d \in Nat : \E p \in decided :
                        p.domain = d /\ p.ip = q.ip /\ RuleFor(P, p) = RuleFor(P, q)}
  <2>1. q \in decided
    BY <1>5 DEF Decided
  <2>2. q.domain \in D
    BY <1>1, <2>1
  <2>3. PICK d \in D : \A e \in D : d <= e
    <3>1. D \in SUBSET Nat /\ D # {}
      BY <2>2
    <3>. HIDE DEF D
    <3>. QED
      BY <3>1, LeastNatural
  <2>4. PICK p \in decided : p.domain = d /\ p.ip = q.ip /\ RuleFor(P, p) = RuleFor(P, q)
    BY <2>3
  <2>5. ASSUME NEW o \in decided, RequestBefore(o, p), o.ip = p.ip, RuleFor(P, o) = RuleFor(P, p)
        PROVE  FALSE
    <3>1. o.domain \in D
      BY <1>1, <1>2, <2>4, <2>5
    <3>2. o.domain < p.domain
      <4>1. o.ip \in Nat /\ p.ip \in Nat
        BY <1>1, <1>2
      <4>. HIDE DEF decided, D
      <4>. QED
        BY <2>5, <4>1 DEF RequestBefore
    <3>. QED
      BY <2>3, <2>4, <3>1, <3>2
  <2>6. p \in kept
    BY <2>5
  <2>. QED
    BY <2>4, <2>6
<1>6. \A i \in 1 .. n : Decided(P, ordered[i])
  <2>1. \A q \in kept : Decided(P, q)
    BY DEF Decided
  <2>. HIDE DEF kept, ordered, n
  <2>. QED
    BY <1>4, <2>1
<1>7. ordered \in [1 .. n -> O] /\ DOMAIN ordered = 1 .. n
  <2>. HIDE DEF kept, ordered, n
  <2>. QED
    BY <1>2, <1>4
<1>8. \A q \in O : Decided(P, q) => \E i \in 1 .. n : ordered[i].ip = q.ip
  <2>. HIDE DEF kept, ordered, n
  <2>. QED
    BY <1>4, <1>5
<1>. HIDE DEF O, decided, kept, ordered, n
<1>9. PlanObservedPolicyRouteRules(P, O, option) =
        [i \in 1 .. n |->
            RouteRule({ordered[i].ip}, RuleFor(P, ordered[i]).egress,
                      ObservedDestCIDR(option, ordered[i].ip), i - 1)]
  BY <1>3, <1>7
<1>10. PlannedFor(P, O, option, PlanObservedPolicyRouteRules(P, O, option), n, ordered)
  BY <1>6, <1>7, <1>8, <1>9 DEF PlannedFor
<1>. QED
  BY <1>4, <1>10, Zenon DEF O

-----------------------------------------------------------------------------
(***************************************************************************)
(* The list of ip rules.                                                   *)
(***************************************************************************)

IpRules == {Same(r) : r \in RouteRules}

\* What is in a sequence, and that it is there once.
InList(s, x) == \E i \in 1 .. Len(s) : s[i] = x
NoRepeats(s) == \A i, j \in 1 .. Len(s) : s[i] = s[j] => i = j

\* An insertion adds its element and nothing else.
LEMMA InsertFacts ==
  ASSUME NEW S, NEW s \in Seq(S), NEW x \in S, NEW p \in 1 .. Len(s) + 1,
         NoRepeats(s), ~InList(s, x)
  PROVE  LET t == InsertAt(s, p, x)
         IN  t \in Seq(S) /\ NoRepeats(t) /\ \A y : InList(t, y) <=> InList(s, y) \/ y = x
<1>. DEFINE t == InsertAt(s, p, x)
<1>1. t = SubSeq(s, 1, p - 1) \o <<x>> \o SubSeq(s, p, Len(s))
  BY DEF InsertAt
<1>2. /\ t \in Seq(S) /\ Len(t) = Len(s) + 1 /\ Len(s) \in Nat
      /\ \A k \in 1 .. Len(s) : k < p => t[k] = s[k]
      /\ t[p] = x
      /\ \A k \in 1 .. Len(s) : k >= p => t[k + 1] = s[k]
  <2>. HIDE DEF t
  <2>1. /\ SubSeq(s, 1, p - 1) \in Seq(S) /\ Len(SubSeq(s, 1, p - 1)) = p - 1
        /\ \A k \in 1 .. p - 1 : SubSeq(s, 1, p - 1)[k] = s[k]
    OBVIOUS
  <2>2. /\ SubSeq(s, p, Len(s)) \in Seq(S) /\ Len(SubSeq(s, p, Len(s))) = Len(s) + 1 - p
        /\ \A k \in 1 .. Len(s) + 1 - p : SubSeq(s, p, Len(s))[k] = s[p + k - 1]
    OBVIOUS
  <2>. DEFINE u == SubSeq(s, 1, p - 1) \o <<x>>
  <2>3. /\ u \in Seq(S) /\ Len(u) = p /\ u[p] = x /\ \A k \in 1 .. p - 1 : u[k] = s[k]
    BY <2>1
  <2>4. t = u \o SubSeq(s, p, Len(s))
    BY <1>1
  <2>. HIDE DEF u
  <2>5. t \in Seq(S) /\ Len(t) = Len(s) + 1
    BY <2>2, <2>3, <2>4
  <2>6. \A k \in 1 .. p : t[k] = u[k]
    BY <2>2, <2>3, <2>4
  <2>7. ASSUME NEW k \in 1 .. Len(s), k >= p PROVE t[k + 1] = s[k]
    <3>1. t[k + 1] = SubSeq(s, p, Len(s))[k + 1 - p]
      BY <2>2, <2>3, <2>4, <2>7
    <3>. QED
      BY <2>2, <2>7, <3>1
  <2>. QED
    BY <2>3, <2>5, <2>6, <2>7
<1>. HIDE DEF t
<1>3. ASSUME NEW k \in 1 .. Len(t)
      PROVE  \/ k = p
             \/ k < p /\ k \in 1 .. Len(s) /\ t[k] = s[k]
             \/ k > p /\ k - 1 \in 1 .. Len(s) /\ t[k] = s[k - 1]
  <2>1. CASE k < p
    BY <1>2, <2>1
  <2>2. CASE k > p
    <3>1. k - 1 \in 1 .. Len(s) /\ k - 1 >= p /\ (k - 1) + 1 = k
      BY <1>2, <2>2
    <3>. QED
      BY <1>2, <2>2, <3>1
  <2>. QED
    BY <1>2, <2>1, <2>2
<1>4. NoRepeats(t)
  <2>. SUFFICES ASSUME NEW i \in 1 .. Len(t), NEW j \in 1 .. Len(t), t[i] = t[j] PROVE i = j
    BY DEF NoRepeats
  <2>1. \A k \in 1 .. Len(s) : s[k] # x
    BY DEF InList
  <2>2. CASE i = p \/ j = p
    BY <1>2, <1>3, <2>1, <2>2
  <2>3. CASE i < p /\ j < p
    BY <1>3, <2>3 DEF NoRepeats
  <2>4. CASE i > p /\ j > p
    BY <1>3, <2>4 DEF NoRepeats
  <2>5. CASE i < p /\ j > p
    BY <1>3, <2>5 DEF NoRepeats
  <2>6. CASE i > p /\ j < p
    BY <1>3, <2>6 DEF NoRepeats
  <2>. QED
    BY <1>2, <2>2, <2>3, <2>4, <2>5, <2>6
<1>5. ASSUME NEW y PROVE InList(t, y) <=> InList(s, y) \/ y = x
  <2>1. ASSUME InList(t, y) PROVE InList(s, y) \/ y = x
    BY <1>2, <1>3, <2>1 DEF InList
  <2>2. ASSUME y = x PROVE InList(t, y)
    BY <1>2, <2>2 DEF InList
  <2>3. ASSUME InList(s, y) PROVE InList(t, y)
    <3>1. PICK k \in 1 .. Len(s) : s[k] = y
      BY <2>3 DEF InList
    <3>2. k \in 1 .. Len(t) /\ k + 1 \in 1 .. Len(t)
      BY <1>2
    <3>3. t[k] = y \/ t[k + 1] = y
      BY <1>2, <3>1
    <3>. QED
      BY <3>2, <3>3 DEF InList
  <2>. QED
    BY <2>1, <2>2, <2>3
<1>. QED
  BY <1>2, <1>4, <1>5 DEF t

\* A removal takes out its element, which was there once.
LEMMA RemoveFacts ==
  ASSUME NEW S, NEW s \in Seq(S), NEW p \in 1 .. Len(s), NoRepeats(s)
  PROVE  LET t == RemoveAt(s, p)
         IN  t \in Seq(S) /\ NoRepeats(t) /\ ~InList(t, s[p]) /\ \A y : InList(t, y) => InList(s, y)
<1>. DEFINE t == RemoveAt(s, p)
<1>1. t = SubSeq(s, 1, p - 1) \o SubSeq(s, p + 1, Len(s))
  BY DEF RemoveAt
<1>2. /\ t \in Seq(S) /\ Len(t) = Len(s) - 1 /\ Len(s) \in Nat
      /\ \A k \in 1 .. Len(s) - 1 : k < p => t[k] = s[k]
      /\ \A k \in 1 .. Len(s) - 1 : k >= p => t[k] = s[k + 1]
  <2>. HIDE DEF t
  <2>. DEFINE a == SubSeq(s, 1, p - 1)
              b == SubSeq(s, p + 1, Len(s))
  <2>1. a \in Seq(S) /\ Len(a) = p - 1 /\ \A k \in 1 .. p - 1 : a[k] = s[k]
    OBVIOUS
  <2>2. b \in Seq(S) /\ Len(b) = Len(s) - p /\ \A k \in 1 .. Len(s) - p : b[k] = s[p + k]
    OBVIOUS
  <2>3. t = a \o b
    BY <1>1
  <2>. HIDE DEF a, b
  <2>4. t \in Seq(S) /\ Len(t) = Len(s) - 1
    BY <2>1, <2>2, <2>3
  <2>5. \A k \in 1 .. Len(s) - 1 : k < p => t[k] = s[k]
    BY <2>1, <2>2, <2>3
  <2>6. ASSUME NEW k \in 1 .. Len(s) - 1, k >= p PROVE t[k] = s[k + 1]
    <3>. DEFINE j == k - (p - 1)
    <3>1. t[k] = b[j]
      BY <2>1, <2>2, <2>3, <2>6
    <3>2. j \in 1 .. Len(s) - p /\ p + j = k + 1
      BY <2>6
    <3>. HIDE DEF j
    <3>. QED
      BY <2>2, <3>1, <3>2
  <2>. QED
    BY <2>4, <2>5, <2>6
<1>. HIDE DEF t
<1>3. ASSUME NEW k \in 1 .. Len(t)
      PROVE  \/ k < p /\ k \in 1 .. Len(s) /\ t[k] = s[k]
             \/ k >= p /\ k + 1 \in 1 .. Len(s) /\ t[k] = s[k + 1]
  BY <1>2
<1>4. NoRepeats(t)
  <2>. SUFFICES ASSUME NEW i \in 1 .. Len(t), NEW j \in 1 .. Len(t), t[i] = t[j] PROVE i = j
    BY DEF NoRepeats
  <2>1. CASE i < p /\ j < p
    BY <1>3, <2>1 DEF NoRepeats
  <2>2. CASE i >= p /\ j >= p
    BY <1>3, <2>2 DEF NoRepeats
  <2>3. CASE i < p /\ j >= p
    BY <1>3, <2>3 DEF NoRepeats
  <2>4. CASE i >= p /\ j < p
    BY <1>3, <2>4 DEF NoRepeats
  <2>. QED
    BY <1>2, <2>1, <2>2, <2>3, <2>4
<1>5. ~InList(t, s[p])
  BY <1>2, <1>3 DEF InList, NoRepeats
<1>6. \A y : InList(t, y) => InList(s, y)
  BY <1>3 DEF InList
<1>. QED
  BY <1>2, <1>4, <1>5, <1>6 DEF t

-----------------------------------------------------------------------------
(***************************************************************************)
(* Configurations and their commands.                                      *)
(***************************************************************************)

BaseSet == Range(BaseRules)

\* A configuration: sorted by preference, and one egress per table.
ConfigOK(c) ==
    /\ c \in Seq(RouteRules)
    /\ \A i, j \in 1 .. Len(c) : i < j => c[i].preference <= c[j].preference
    /\ \A i, j \in 1 .. Len(c) : c[i].table = c[j].table => c[i].egress = c[j].egress

\* Base and planned rules, sorted: what Config.RouteRules holds after a plan.
LEMMA ConfigFacts ==
  ASSUME NEW n \in Nat, NEW rules \in [1 .. n -> PlannedRules]
  PROVE  LET c == sortedRouteRules(Range(BaseRules) \union Range(rules))
         IN  /\ ConfigOK(c)
             /\ \A i \in 1 .. Len(c) : c[i] \in BaseSet \/ \E x \in 1 .. n : c[i] = rules[x]
             /\ \A x \in 1 .. n : \E i \in 1 .. Len(c) : c[i] = rules[x]
<1>. DEFINE S == Range(BaseRules) \union Range(rules)
            R == {e \in S \X S : e[1].preference < e[2].preference}
            c == sortedRouteRules(S)
            N == Cardinality(S)
<1>0. /\ BaseRules \in Seq(RouteRules) /\ DistinctTables
  BY GatewayAssumption
<1>1. IsFiniteSet(S)
  <2>1. Range(BaseRules) = {BaseRules[x] : x \in 1 .. Len(BaseRules)} /\ Len(BaseRules) \in Nat
        /\ DOMAIN BaseRules = 1 .. Len(BaseRules)
    BY <1>0 DEF Range
  <2>2. Range(rules) = {rules[x] : x \in 1 .. n} /\ DOMAIN rules = 1 .. n
    BY DEF Range
  <2>3. IsFiniteSet(1 .. n) /\ IsFiniteSet(1 .. Len(BaseRules))
    BY <2>1, FS_Interval
  <2>4. IsFiniteSet({rules[x] : x \in 1 .. n})
    BY <2>2, <2>3, ImageIsFinite, Zenon
  <2>5. IsFiniteSet({BaseRules[x] : x \in 1 .. Len(BaseRules)})
    BY <2>1, <2>3, ImageIsFinite, Zenon
  <2>. QED
    BY <2>1, <2>2, <2>4, <2>5, FS_Union
<1>2. /\ S \in SUBSET RouteRules
      /\ \A r \in S : r \in BaseSet \/ \E x \in 1 .. n : r = rules[x]
      /\ \A x \in 1 .. n : rules[x] \in S
  BY <1>0 DEF Range, BaseSet, PlannedRules
<1>3. \A r, s \in S : r.table = s.table => r.egress = s.egress
  <2>1. \A r \in S : r \in BaseSet \/ r \in PlannedRules
    BY <1>2
  <2>2. \A r \in PlannedRules : r.egress \in Nodes /\ r.table = TableOf[r.egress]
    BY DEF PlannedRules
  <2>. HIDE DEF S
  <2>. QED
    BY <1>0, <2>1, <2>2 DEF DistinctTables, BaseSet
<1>4. \A r \in S : r.preference \in Nat
  BY <1>2 DEF RouteRules
<1>5. c = Sorted(S, R)
  BY DEF sortedRouteRules
<1>6. N \in Nat /\ WeakOrder(R, S)
  <2>. HIDE DEF S
  <2>. QED
    BY <1>1, <1>4, PreferencesAreOrdered, FS_CardinalityType
<1>. HIDE DEF S, c
<1>7. Listed(c, S, N, R)
  <2>. HIDE DEF R
  <2>. QED
    BY <1>1, <1>5, <1>6, SortedFacts
<1>8. /\ c \in [1 .. N -> S] /\ (\A x \in S : \E i \in 1 .. N : c[i] = x)
      /\ \A i, j \in 1 .. N : i < j => <<c[j], c[i]>> \notin R
  BY <1>7 DEF Listed
<1>. HIDE DEF N
<1>9. c \in Seq(RouteRules) /\ Len(c) = N
  BY <1>2, <1>6, <1>8
<1>10. ASSUME NEW i \in 1 .. N, NEW j \in 1 .. N, i < j PROVE c[i].preference <= c[j].preference
  <2>1. c[i] \in S /\ c[j] \in S /\ ~(c[j].preference < c[i].preference)
    BY <1>8, <1>10
  <2>. QED
    BY <1>4, <2>1
<1>11. ConfigOK(c)
  BY <1>3, <1>8, <1>9, <1>10 DEF ConfigOK
<1>. QED
  BY <1>2, <1>8, <1>9, <1>11 DEF c, S

ApplyKinds(c) ==
    {Nft, Reload} \cup {RuleAdd(c[i]) : i \in 1 .. Len(c)}
        \cup {RouteReplace(c[i]) : i \in 1 .. Len(c)}

UndoKinds(c) ==
    {NftDelete, Reload} \cup {RuleDel(c[i]) : i \in 1 .. Len(c)}
        \cup {RouteDel(c[i]) : i \in 1 .. Len(c)}

\* A command is told by its name and its rule.
LEMMA CommandFacts ==
  /\ Nft.op = "nft -f" /\ NftDelete.op = "nft delete table" /\ Reload.op = "reload"
  /\ \A r : RuleAdd(r).op = "rule add" /\ RuleAdd(r).rule = r
  /\ \A r : RouteReplace(r).op = "route replace" /\ RouteReplace(r).rule = r
  /\ \A r : RuleDel(r).op = "rule del" /\ RuleDel(r).rule = r
  /\ \A r : RouteDel(r).op = "route del" /\ RouteDel(r).rule = r
BY DEF Nft, NftDelete, Reload, RuleAdd, RouteReplace, RuleDel, RouteDel

\* Commands of different names differ, and so do those of one name with different rules.
LEMMA CommandsDiffer ==
  ASSUME NEW r, NEW s
  PROVE  /\ RuleAdd(r) # Nft /\ RouteReplace(r) # Nft
         /\ RuleAdd(r) # RouteReplace(s) /\ (RuleAdd(r) = RuleAdd(s) => r = s)
         /\ (RouteReplace(r) = RouteReplace(s) => r = s)
         /\ RuleDel(r) # NftDelete /\ RouteDel(r) # NftDelete
         /\ RuleDel(r) # RouteDel(s) /\ (RuleDel(r) = RuleDel(s) => r = s)
         /\ (RouteDel(r) = RouteDel(s) => r = s)
<1>1. /\ RuleAdd(r) # Nft /\ RouteReplace(r) # Nft
      /\ RuleAdd(r) # RouteReplace(s)
      /\ RuleDel(r) # NftDelete /\ RouteDel(r) # NftDelete
      /\ RuleDel(r) # RouteDel(s)
  BY CommandFacts
<1>2. /\ RuleAdd(r).rule = r /\ RouteReplace(r).rule = r
      /\ RuleDel(r).rule = r /\ RouteDel(r).rule = r
      /\ RuleAdd(s).rule = s /\ RouteReplace(s).rule = s
      /\ RuleDel(s).rule = s /\ RouteDel(s).rule = s
  BY CommandFacts
<1>. QED
  BY <1>1, <1>2

\* A list of commands between a first and a last one.
LEMMA Framed ==
  ASSUME NEW S, NEW a \in S, NEW z \in S, NEW s \in Seq(S)
  PROVE  LET t == <<a>> \o s \o <<z>>
         IN  /\ t \in Seq(S) /\ Len(t) = Len(s) + 2 /\ t[1] = a
             /\ \A k \in 1 .. Len(s) : t[k + 1] = s[k]
             /\ t[Len(s) + 2] = z
<1>. DEFINE u == <<a>> \o s
<1>1. u \in Seq(S) /\ Len(u) = Len(s) + 1 /\ u[1] = a /\ \A k \in 1 .. Len(s) : u[k + 1] = s[k]
  OBVIOUS
<1>. HIDE DEF u
<1>2. LET t == u \o <<z>>
      IN  /\ t \in Seq(S) /\ Len(t) = Len(s) + 2 /\ t[1] = a
          /\ \A k \in 1 .. Len(s) : t[k + 1] = s[k]
          /\ t[Len(s) + 2] = z
  BY <1>1
<1>. QED
  BY <1>2 DEF u

\* The commands of an apply: nft first and only once, then every rule and route.
LEMMA ApplyList ==
  ASSUME NEW c \in Seq(RouteRules)
  PROVE  LET t == ApplyCommands(c)
         IN  /\ t \in Seq(ApplyKinds(c)) /\ t # <<>> /\ t[1] = Nft
             /\ \A k \in 2 .. Len(t) : t[k] # Nft
             /\ \A i \in 1 .. Len(c) : InList(t, RuleAdd(c[i])) /\ InList(t, RouteReplace(c[i]))
<1>. DEFINE n == Len(c)
            s == RenderIPRouteCommands(c)
            t == ApplyCommands(c)
            S == ApplyKinds(c)
<1>1. n \in Nat
  OBVIOUS
<1>2. s = [k \in 1 .. 2 * n |-> IF k % 2 = 1 THEN RuleAdd(c[(k + 1) \div 2])
                                             ELSE RouteReplace(c[k \div 2])]
  BY DEF RenderIPRouteCommands
<1>3. ASSUME NEW k \in 1 .. 2 * n PROVE s[k] \in S /\ s[k] # Nft
  <2>1. CASE k % 2 = 1
    <3>1. (k + 1) \div 2 \in 1 .. n
      BY <1>1, <2>1
    <3>2. s[k] = RuleAdd(c[(k + 1) \div 2])
      BY <1>2, <2>1
    <3>3. s[k] \in S
      BY <3>1, <3>2 DEF ApplyKinds
    <3>4. s[k] # Nft
      <4>. HIDE DEF s
      <4>. QED
        BY <3>2, CommandsDiffer
    <3>. QED
      BY <3>3, <3>4
  <2>2. CASE k % 2 # 1
    <3>1. k \div 2 \in 1 .. n
      BY <1>1, <2>2
    <3>2. s[k] = RouteReplace(c[k \div 2])
      BY <1>2, <2>2
    <3>3. s[k] \in S
      BY <3>1, <3>2 DEF ApplyKinds
    <3>4. s[k] # Nft
      <4>. HIDE DEF s
      <4>. QED
        BY <3>2, CommandsDiffer
    <3>. QED
      BY <3>3, <3>4
  <2>. QED
    BY <2>1, <2>2
<1>4. ASSUME NEW i \in 1 .. n
      PROVE  /\ 2 * i - 1 \in 1 .. 2 * n /\ s[2 * i - 1] = RuleAdd(c[i])
             /\ 2 * i \in 1 .. 2 * n /\ s[2 * i] = RouteReplace(c[i])
  <2>1. /\ 2 * i - 1 \in 1 .. 2 * n /\ (2 * i - 1) % 2 = 1 /\ ((2 * i - 1) + 1) \div 2 = i
        /\ 2 * i \in 1 .. 2 * n /\ (2 * i) % 2 # 1 /\ (2 * i) \div 2 = i
    BY <1>1
  <2>. QED
    BY <1>2, <2>1
<1>5. s \in Seq(S) /\ Len(s) = 2 * n
  <2>1. 2 * n \in Nat /\ s \in [1 .. 2 * n -> S]
    BY <1>1, <1>2, <1>3
  <2>. HIDE DEF s, n, S
  <2>. QED
    BY <2>1
<1>6. Nft \in S /\ Reload \in S /\ Reload # Nft
  BY DEF ApplyKinds, Nft, Reload
<1>7. t = <<Nft>> \o s \o <<Reload>>
  BY DEF ApplyCommands
<1>. HIDE DEF s, n, S, t
<1>8. /\ t \in Seq(S) /\ Len(t) = 2 * n + 2 /\ t[1] = Nft
      /\ \A k \in 1 .. 2 * n : t[k + 1] = s[k]
      /\ t[2 * n + 2] = Reload
  BY <1>5, <1>6, <1>7, Framed
<1>9. ASSUME NEW k \in 2 .. Len(t) PROVE t[k] # Nft
  <2>1. CASE k = 2 * n + 2
    BY <1>6, <1>8, <2>1
  <2>2. CASE k # 2 * n + 2
    <3>1. k - 1 \in 1 .. 2 * n /\ (k - 1) + 1 = k
      BY <1>1, <1>8, <2>2
    <3>2. t[k] = s[k - 1]
      BY <1>8, <3>1
    <3>. QED
      BY <1>3, <3>1, <3>2
  <2>. QED
    BY <2>1, <2>2
<1>10. ASSUME NEW k \in 1 .. 2 * n PROVE InList(t, s[k])
  <2>1. k + 1 \in 1 .. Len(t) /\ t[k + 1] = s[k]
    BY <1>1, <1>8
  <2>. QED
    BY <2>1 DEF InList
<1>. QED
  BY <1>1, <1>4, <1>8, <1>9, <1>10 DEF n, t, S

\* The commands of a rollback: the nft table first, then every rule and route.
LEMMA UndoList ==
  ASSUME NEW c \in Seq(RouteRules)
  PROVE  LET t == RenderRollbackCommands(c)
         IN  /\ t \in Seq(UndoKinds(c)) /\ t # <<>> /\ t[1] = NftDelete
             /\ \A i \in 1 .. Len(c) : InList(t, RuleDel(c[i])) /\ InList(t, RouteDel(c[i]))
<1>. DEFINE n == Len(c)
            s == RenderIPRouteRollbackCommands(c)
            t == RenderRollbackCommands(c)
            S == UndoKinds(c)
<1>1. n \in Nat
  OBVIOUS
<1>2. s = [k \in 1 .. 2 * n |-> IF k % 2 = 1 THEN RouteDel(c[n + 1 - (k + 1) \div 2])
                                             ELSE RuleDel(c[n + 1 - k \div 2])]
  BY DEF RenderIPRouteRollbackCommands
<1>3. ASSUME NEW k \in 1 .. 2 * n PROVE s[k] \in S
  <2>1. CASE k % 2 = 1
    <3>1. n + 1 - (k + 1) \div 2 \in 1 .. n
      BY <1>1, <2>1
    <3>2. s[k] = RouteDel(c[n + 1 - (k + 1) \div 2])
      BY <1>2, <2>1
    <3>. QED
      BY <3>1, <3>2 DEF UndoKinds
  <2>2. CASE k % 2 # 1
    <3>1. n + 1 - k \div 2 \in 1 .. n
      BY <1>1, <2>2
    <3>2. s[k] = RuleDel(c[n + 1 - k \div 2])
      BY <1>2, <2>2
    <3>. QED
      BY <3>1, <3>2 DEF UndoKinds
  <2>. QED
    BY <2>1, <2>2
<1>4. ASSUME NEW i \in 1 .. n
      PROVE  \E k \in 1 .. 2 * n, l \in 1 .. 2 * n :
                 s[k] = RouteDel(c[i]) /\ s[l] = RuleDel(c[i])
  <2>. DEFINE j == n + 1 - i
  <2>1. /\ 2 * j - 1 \in 1 .. 2 * n /\ (2 * j - 1) % 2 = 1 /\ n + 1 - ((2 * j - 1) + 1) \div 2 = i
        /\ 2 * j \in 1 .. 2 * n /\ (2 * j) % 2 # 1 /\ n + 1 - (2 * j) \div 2 = i
    BY <1>1
  <2>2. s[2 * j - 1] = RouteDel(c[i]) /\ s[2 * j] = RuleDel(c[i])
    <3>. HIDE DEF j
    <3>. QED
      BY <1>2, <2>1
  <2>. QED
    BY <2>1, <2>2
<1>5. s \in Seq(S) /\ Len(s) = 2 * n
  <2>1. 2 * n \in Nat /\ s \in [1 .. 2 * n -> S]
    BY <1>1, <1>2, <1>3
  <2>. HIDE DEF s, n, S
  <2>. QED
    BY <2>1
<1>6. NftDelete \in S /\ Reload \in S
  BY DEF UndoKinds
<1>7. t = <<NftDelete>> \o s \o <<Reload>>
  BY DEF RenderRollbackCommands
<1>. HIDE DEF s, n, S, t
<1>8. /\ t \in Seq(S) /\ Len(t) = 2 * n + 2 /\ t[1] = NftDelete
      /\ \A k \in 1 .. 2 * n : t[k + 1] = s[k]
  BY <1>5, <1>6, <1>7, Framed
<1>9. ASSUME NEW k \in 1 .. 2 * n PROVE InList(t, s[k])
  <2>1. k + 1 \in 1 .. Len(t) /\ t[k + 1] = s[k]
    BY <1>1, <1>8
  <2>. QED
    BY <2>1 DEF InList
<1>. QED
  BY <1>1, <1>4, <1>8, <1>9 DEF n, t, S

-----------------------------------------------------------------------------
(***************************************************************************)
(* The configuration made from observed traffic.                           *)
(***************************************************************************)

\* What the configuration promises a decided request: the last rule that matches its
\* address is a planned one with a mark of its own, for a request of the same address,
\* and its route holds the address if it is an IPv4 one inside DestCIDR.
Steers(c, P, O, option) ==
    \A q \in O : Decided(P, q) =>
        \E k \in 1 .. Len(c) :
            /\ q.ip \in c[k].match
            /\ \A j \in 1 .. Len(c) : q.ip \in c[j].match => j <= k
            /\ \A j \in 1 .. Len(c) : c[j].mark = c[k].mark => c[j] = c[k]
            /\ c[k].mark \in Nat /\ c[k].egress \in Egresses
            /\ q.ip \in V4 => c[k].dest = DestCIDR(option)
            /\ \E p \in O : Decided(P, p) /\ p.ip = q.ip /\ c[k].egress = RuleFor(P, p).egress

\* Planning from observed traffic gives a configuration that keeps the promise.
LEMMA ObservedConfig ==
  ASSUME NEW P \in PolicySets, NEW tenant, NEW option \in DestOptions, NEW lines \in Logs
  PROVE  LET O == Observations(tenant, lines)
             c == sortedRouteRules(Range(BaseRules)
                      \union Range(PlanObservedPolicyRouteRules(P, O, option)))
         IN  ConfigOK(c) /\ Steers(c, P, O, option)
<1>. DEFINE O == Observations(tenant, lines)
            rules == PlanObservedPolicyRouteRules(P, O, option)
            c == sortedRouteRules(Range(BaseRules) \union Range(rules))
<1>0. PICK n \in Nat : \E ordered : PlannedFor(P, O, option, rules, n, ordered)
  BY ObservedPlan, Zenon
<1>1. PICK ordered \in [1 .. n -> O] :
        /\ rules = [i \in 1 .. n |->
                      RouteRule({ordered[i].ip}, RuleFor(P, ordered[i]).egress,
                                ObservedDestCIDR(option, ordered[i].ip), i - 1)]
        /\ \A i \in 1 .. n : Decided(P, ordered[i])
        /\ \A q \in O : Decided(P, q) => \E i \in 1 .. n : ordered[i].ip = q.ip
  BY <1>0, Zenon DEF PlannedFor
<1>2. \A q \in O : q.ip \in Addresses
  BY ObservationsTyped
<1>3. /\ PolicyMarkBase \in Nat \ {0} /\ PolicyPreferenceBase \in Nat \ {0} /\ BaseBelowPlans
      /\ BaseRules \in Seq(RouteRules)
  BY GatewayAssumption DEF normalizePolicyRoutePlanOptions
<1>. HIDE DEF O, rules
<1>4. ASSUME NEW i \in 1 .. n
      PROVE  /\ rules[i] \in PlannedRules
             /\ rules[i].mark = PolicyMarkBase + (i - 1)
             /\ rules[i].preference = PolicyPreferenceBase + (i - 1)
             /\ rules[i].match = {ordered[i].ip} /\ rules[i].egress = RuleFor(P, ordered[i]).egress
             /\ rules[i].dest = ObservedDestCIDR(option, ordered[i].ip)
  <2>1. rules[i] = RouteRule({ordered[i].ip}, RuleFor(P, ordered[i]).egress,
                             ObservedDestCIDR(option, ordered[i].ip), i - 1)
    BY <1>1
  <2>2. {ordered[i].ip} \in SUBSET Addresses /\ i - 1 \in Nat
    BY <1>1, <1>2
  <2>3. RuleFor(P, ordered[i]).egress \in Nodes
    BY <1>1, RuleForIsValid
  <2>. QED
    BY <2>1, <2>2, <2>3, PlannedRule, PlannedDest
<1>5. rules \in [1 .. n -> PlannedRules]
  BY <1>1, <1>4
<1>6. /\ ConfigOK(c)
      /\ \A i \in 1 .. Len(c) : c[i] \in BaseSet \/ \E x \in 1 .. n : c[i] = rules[x]
      /\ \A x \in 1 .. n : \E i \in 1 .. Len(c) : c[i] = rules[x]
  BY <1>5, ConfigFacts
<1>. HIDE DEF c
<1>7. /\ c \in Seq(RouteRules) /\ Len(c) \in Nat
      /\ \A i, j \in 1 .. Len(c) : i < j => c[i].preference <= c[j].preference
  <2>1. ConfigOK(c)
    BY <1>6
  <2>. QED
    BY <2>1 DEF ConfigOK
<1>8. \A r \in BaseSet : r.mark \in Nat /\ r.preference \in Nat
                         /\ r.mark < PolicyMarkBase /\ r.preference < PolicyPreferenceBase
  <2>1. \A r \in BaseSet : r \in RouteRules
    BY <1>3 DEF BaseSet, Range
  <2>2. \A r \in RouteRules : r.mark \in Nat /\ r.preference \in Nat
    BY DEF RouteRules
  <2>. QED
    BY <1>3, <2>1, <2>2 DEF BaseBelowPlans, BaseSet
<1>9. ASSUME NEW q \in O, Decided(P, q)
      PROVE  \E k \in 1 .. Len(c) :
               /\ q.ip \in c[k].match
               /\ \A j \in 1 .. Len(c) : q.ip \in c[j].match => j <= k
               /\ \A j \in 1 .. Len(c) : c[j].mark = c[k].mark => c[j] = c[k]
               /\ c[k].mark \in Nat /\ c[k].egress \in Egresses
               /\ q.ip \in V4 => c[k].dest = DestCIDR(option)
               /\ \E p \in O : Decided(P, p) /\ p.ip = q.ip /\ c[k].egress = RuleFor(P, p).egress
  <2>. DEFINE M == {j \in 1 .. Len(c) : q.ip \in c[j].match}
  <2>1. PICK x \in 1 .. n : ordered[x].ip = q.ip
    BY <1>1, <1>9
  <2>2. PICK i \in 1 .. Len(c) : c[i] = rules[x]
    BY <1>6
  <2>3. i \in M /\ c[i].preference >= PolicyPreferenceBase
    BY <1>3, <1>4, <2>1, <2>2
  <2>4. PICK k \in M : \A j \in M : j <= k
    <3>1. M \in SUBSET (1 .. Len(c)) /\ M # {}
      BY <2>3
    <3>. HIDE DEF M
    <3>. QED
      BY <1>7, <3>1, GreatestNatural
  <2>5. c[k].preference >= PolicyPreferenceBase
    <3>1. c[i].preference \in Nat /\ c[k].preference \in Nat
      <4>1. c[i] \in RouteRules /\ c[k] \in RouteRules
        BY <1>7, <2>3, <2>4
      <4>. QED
        BY <4>1 DEF RouteRules
    <3>2. i <= k
      BY <2>3, <2>4
    <3>. QED
      BY <1>3, <1>7, <2>3, <2>4, <3>1, <3>2
  <2>6. PICK y \in 1 .. n : c[k] = rules[y]
    BY <1>3, <1>6, <1>8, <2>4, <2>5
  <2>7. ASSUME NEW j \in 1 .. Len(c), c[j].mark = c[k].mark PROVE c[j] = c[k]
    <3>1. c[k].mark = PolicyMarkBase + (y - 1) /\ c[k].mark >= PolicyMarkBase
      BY <1>3, <1>4, <2>6
    <3>2. PICK z \in 1 .. n : c[j] = rules[z]
      <4>1. c[j] \notin BaseSet
        BY <1>3, <1>8, <2>7, <3>1
      <4>. QED
        BY <1>6, <4>1
    <3>3. z = y
      BY <1>3, <1>4, <2>7, <3>1, <3>2
    <3>. QED
      BY <2>6, <3>2, <3>3
  <2>8. ordered[y].ip = q.ip /\ ordered[y] \in O /\ Decided(P, ordered[y])
        /\ c[k].egress = RuleFor(P, ordered[y]).egress
    BY <1>1, <1>4, <2>4, <2>6
  <2>d. q.ip \in V4 => c[k].dest = DestCIDR(option)
    BY <1>4, <2>6, <2>8, PlannedDest
  <2>9. c[k].mark \in Nat /\ c[k].egress \in Egresses
    <3>1. c[k] \in RouteRules
      BY <1>7, <2>4
    <3>. QED
      BY <3>1 DEF RouteRules
  <2>. QED
    BY <2>4, <2>7, <2>8, <2>d, <2>9
<1>. QED
  BY <1>6, <1>9 DEF Steers, c, rules, O

\* Planning from policy rules gives a configuration.
LEMMA PolicyConfig ==
  ASSUME NEW P \in PolicySets, NEW option \in DestOptions
  PROVE  ConfigOK(sortedRouteRules(Range(BaseRules)
                      \union Range(PlanPolicyRouteRules(P, option))))
<1>1. PICK n \in Nat : PlanPolicyRouteRules(P, option) \in [1 .. n -> PlannedRules]
  BY PolicyPlan
<1>. QED
  BY <1>1, ConfigFacts

-----------------------------------------------------------------------------
(***************************************************************************)
(* What a command does.                                                    *)
(***************************************************************************)

KernelTypes ==
    /\ hasTable \in BOOLEAN /\ (~hasTable => chain = <<>>)
    /\ iprules \in Seq(IpRules) /\ NoRepeats(iprules)
    /\ routes \in [Slots -> Egresses \cup {NoTable}]

\* nft -f adds the mark rules to the chain.
LEMMA NftRuns ==
  ASSUME Execute(Nft)
  PROVE  /\ hasTable' = TRUE /\ chain' = chain \o MarkRules(config)
         /\ iprules' = iprules /\ routes' = routes
BY CommandFacts DEF Execute

\* nft delete table takes the chain with it.
LEMMA NftDeleteRuns ==
  ASSUME Execute(NftDelete)
  PROVE  hasTable' = FALSE /\ chain' = <<>> /\ iprules' = iprules /\ routes' = routes
BY CommandFacts DEF Execute

\* A reload changes nothing here.
LEMMA ReloadRuns ==
  ASSUME Execute(Reload)
  PROVE  hasTable' = hasTable /\ chain' = chain /\ iprules' = iprules /\ routes' = routes
BY CommandFacts DEF Execute

\* ip rule add, when it is accepted, adds its rule once.
LEMMA RuleAddRuns ==
  ASSUME NEW r \in RouteRules, KernelTypes, Accepted(RuleAdd(r)), Execute(RuleAdd(r))
  PROVE  /\ hasTable' = hasTable /\ chain' = chain /\ routes' = routes
         /\ iprules' \in Seq(IpRules) /\ NoRepeats(iprules')
         /\ \A y : InList(iprules', y) <=> InList(iprules, y) \/ y = Same(r)
<1>1. /\ hasTable' = hasTable /\ chain' = chain /\ routes' = routes
      /\ iprules' = InsertRule(r)
  BY CommandFacts DEF Execute
<1>2. ~InList(iprules, Same(r)) /\ Same(r) \in IpRules /\ iprules \in Seq(IpRules)
  <2>1. Same(r) \notin Range(iprules)
    BY CommandFacts DEF Accepted
  <2>. QED
    BY <2>1 DEF InList, Range, IpRules, KernelTypes
<1>. DEFINE above == {i \in DOMAIN iprules : iprules[i].preference > r.preference}
            place == IF above = {} THEN Len(iprules) + 1
                     ELSE CHOOSE i \in above : \A j \in above : i <= j
<1>3. InsertRule(r) = InsertAt(iprules, place, Same(r))
  BY Zenon DEF InsertRule
<1>4. place \in 1 .. Len(iprules) + 1
  <2>1. above \in SUBSET Nat /\ above \in SUBSET (1 .. Len(iprules)) /\ Len(iprules) \in Nat
    BY <1>2
  <2>2. CASE above = {}
    BY <2>1, <2>2
  <2>3. CASE above # {}
    <3>. HIDE DEF above
    <3>1. place \in above
      <4>1. \E i \in above : \A j \in above : i <= j
        BY <2>1, <2>3, LeastNatural
      <4>2. place = CHOOSE i \in above : \A j \in above : i <= j
        BY <2>3
      <4>. QED
        BY <4>1, <4>2, Zenon
    <3>. HIDE DEF place
    <3>. QED
      BY <2>1, <3>1
  <2>. QED
    BY <2>2, <2>3
<1>. HIDE DEF place
<1>. QED
  BY <1>1, <1>2, <1>3, <1>4, InsertFacts DEF KernelTypes

\* ip rule del leaves no rule of that kind.
LEMMA RuleDelRuns ==
  ASSUME NEW r \in RouteRules, KernelTypes, Accepted(RuleDel(r)), Execute(RuleDel(r))
  PROVE  /\ hasTable' = hasTable /\ chain' = chain /\ routes' = routes
         /\ iprules' \in Seq(IpRules) /\ NoRepeats(iprules')
         /\ ~InList(iprules', Same(r)) /\ \A y : InList(iprules', y) => InList(iprules, y)
<1>1. /\ hasTable' = hasTable /\ chain' = chain /\ routes' = routes
      /\ iprules' = DeleteRule(r)
  BY CommandFacts DEF Execute
<1>. DEFINE place == CHOOSE i \in DOMAIN iprules : iprules[i] = Same(r)
<1>2. place \in 1 .. Len(iprules) /\ iprules[place] = Same(r)
  <2>1. Same(r) \in Range(iprules)
    BY CommandFacts DEF Accepted
  <2>2. DOMAIN iprules = 1 .. Len(iprules)
    BY DEF KernelTypes
  <2>. QED
    BY <2>1, <2>2 DEF Range
<1>3. iprules' = RemoveAt(iprules, place)
  BY <1>1 DEF DeleteRule
<1>. HIDE DEF place
<1>4. iprules \in Seq(IpRules) /\ NoRepeats(iprules)
  BY DEF KernelTypes
<1>. QED
  BY <1>1, <1>2, <1>3, <1>4, RemoveFacts

\* ip route replace sets the route of one table and destination,
LEMMA RouteReplaceRuns ==
  ASSUME NEW r, Execute(RouteReplace(r))
  PROVE  /\ hasTable' = hasTable /\ chain' = chain /\ iprules' = iprules
         /\ routes' = [routes EXCEPT ![Slot(r)] = r.egress]
BY CommandFacts DEF Execute

\* and ip route del clears it.
LEMMA RouteDelRuns ==
  ASSUME NEW r, Execute(RouteDel(r))
  PROVE  /\ hasTable' = hasTable /\ chain' = chain /\ iprules' = iprules
         /\ routes' = [routes EXCEPT ![Slot(r)] = NoTable]
BY CommandFacts DEF Execute

-----------------------------------------------------------------------------
(***************************************************************************)
(* The inductive invariant: while a call runs, each part of the kernel     *)
(* state is as the call will leave it, or the command for it still waits.  *)
(***************************************************************************)

\* What waits after the first command has been taken.
LEMMA TailFacts ==
  ASSUME NEW S, NEW s \in Seq(S), s # <<>>
  PROVE  /\ Head(s) \in S /\ Tail(s) \in Seq(S) /\ Head(s) = s[1] /\ Len(s) >= 1
         /\ Len(Tail(s)) = Len(s) - 1 /\ \A k \in 1 .. Len(Tail(s)) : Tail(s)[k] = s[k + 1]
         /\ \A x : InList(s, x) => x = Head(s) \/ InList(Tail(s), x)
<1>1. /\ Head(s) \in S /\ Tail(s) \in Seq(S) /\ Head(s) = s[1] /\ Len(s) >= 1 /\ Len(s) \in Nat
      /\ Len(Tail(s)) = Len(s) - 1 /\ \A k \in 1 .. Len(Tail(s)) : Tail(s)[k] = s[k + 1]
  OBVIOUS
<1>2. ASSUME NEW x, InList(s, x), x # Head(s) PROVE InList(Tail(s), x)
  <2>1. PICK k \in 1 .. Len(s) : s[k] = x
    BY <1>2 DEF InList
  <2>2. k - 1 \in 1 .. Len(Tail(s)) /\ Tail(s)[k - 1] = s[(k - 1) + 1] /\ (k - 1) + 1 = k
    BY <1>1, <1>2, <2>1
  <2>. QED
    BY <2>1, <2>2 DEF InList
<1>. QED
  BY <1>1, <1>2

\* The empty list holds nothing.
LEMMA NothingHeld == \A x : ~InList(<<>>, x)
BY DEF InList

\* The commands that wait belong to the running call; only an apply runs nft -f, first.
TodoOK ==
    /\ pc = "idle" => todo = <<>>
    /\ pc = "apply" => /\ todo \in Seq(ApplyKinds(config))
                       /\ \A k \in 2 .. Len(todo) : todo[k] # Nft
    /\ pc = "rollback" => todo \in Seq(UndoKinds(config))
    /\ pc # "idle" => result \in {"none", "failed"}

TypeInv ==
    /\ ConfigOK(config) /\ KernelTypes /\ TodoOK
    /\ pc \in {"idle", "apply", "rollback"}

\* A rollback begins with the table; a rule or a route of the configuration is gone, or
\* its command still waits.
Undoing ==
    /\ (todo # <<>> /\ Head(todo) = NftDelete) \/ ~hasTable
    /\ \A i \in 1 .. Len(config) :
           /\ InList(todo, RuleDel(config[i])) \/ ~InList(iprules, Same(config[i]))
           /\ InList(todo, RouteDel(config[i])) \/ routes[Slot(config[i])] = NoTable

Undone ==
    /\ ~hasTable
    /\ \A i \in 1 .. Len(config) :
           ~InList(iprules, Same(config[i])) /\ routes[Slot(config[i])] = NoTable

UndoInv ==
    /\ pc = "rollback" => Undoing
    /\ result = "rolled back" => Undone
    /\ result = "rollback failed" /\ ~tableKept => ~hasTable

\* Every route leads where the configuration's rule for its table does.
OwnRoutes ==
    \A s \in Slots : routes[s] # NoTable =>
        \E i \in 1 .. Len(config) : s[1] = config[i].table /\ routes[s] = config[i].egress

\* An apply on a clean kernel: each mark, rule and route is there, or its command waits.
Applying ==
    /\ IF todo # <<>> /\ Head(todo) = Nft THEN chain = <<>> ELSE chain = MarkRules(config)
    /\ \A y : InList(iprules, y) => \E i \in 1 .. Len(config) : y = Same(config[i])
    /\ OwnRoutes
    /\ \A i \in 1 .. Len(config) :
           /\ InList(todo, RuleAdd(config[i])) \/ InList(iprules, Same(config[i]))
           /\ \/ InList(todo, RouteReplace(config[i]))
              \/ routes[Slot(config[i])] = config[i].egress

Applied ==
    /\ chain = MarkRules(config)
    /\ \A y : InList(iprules, y) => \E i \in 1 .. Len(config) : y = Same(config[i])
    /\ OwnRoutes
    /\ \A i \in 1 .. Len(config) : /\ InList(iprules, Same(config[i]))
                                   /\ routes[Slot(config[i])] = config[i].egress

InstalledInv ==
    /\ requests = {} \/ Steers(config, policies, requests, destOption)
    /\ pc = "apply" /\ clean => Applying
    /\ result = "ok" /\ clean => Applied
    /\ pc = "apply" => hasTable \/ (todo # <<>> /\ Head(todo) = Nft)
    /\ result = "ok" => hasTable

GatewayInv == TypeInv /\ UndoInv /\ InstalledInv

\* It holds in a kernel that has nothing of ours.
LEMMA InitGatewayInv == ASSUME GatewayInit PROVE GatewayInv
<1>. USE DEF GatewayInit
<1>1. ConfigOK(config)
  BY DEF ConfigOK
<1>2. KernelTypes
  <2>1. /\ hasTable \in BOOLEAN /\ chain = <<>>
        /\ routes \in [Slots -> Egresses \cup {NoTable}]
    OBVIOUS
  <2>2. iprules \in Seq(IpRules) /\ NoRepeats(iprules)
    BY DEF NoRepeats
  <2>. QED
    BY <2>1, <2>2, Zenon DEF KernelTypes
<1>. QED
  BY <1>1, <1>2 DEF GatewayInv, TypeInv, UndoInv, InstalledInv, TodoOK

\* A new call of Apply.
LEMMA BeginStep ==
  ASSUME GatewayInv, NEW P, NEW O, NEW option, NEW rules, NEW undo,
         Begin(P, O, option, rules, undo),
         LET c == sortedRouteRules(Range(BaseRules) \union Range(rules))
         IN  ConfigOK(c) /\ (O = {} \/ Steers(c, P, O, option))
  PROVE  GatewayInv'
<1>1. /\ ConfigOK(config') /\ (requests' = {} \/ Steers(config', policies', requests', destOption'))
      /\ pc' = "apply" /\ todo' = ApplyCommands(config')
      /\ result' = "none" /\ clean' = KernelIsClean
      /\ UNCHANGED <<chain, hasTable, iprules, routes>>
  BY DEF Begin, kernel
<1>2. config' \in Seq(RouteRules)
  BY <1>1 DEF ConfigOK
<1>3. /\ todo' \in Seq(ApplyKinds(config')) /\ todo' # <<>> /\ todo'[1] = Nft
      /\ \A k \in 2 .. Len(todo') : todo'[k] # Nft
      /\ \A i \in 1 .. Len(config') :
             InList(todo', RuleAdd(config'[i])) /\ InList(todo', RouteReplace(config'[i]))
  BY <1>1, <1>2, ApplyList
<1>4. TypeInv'
  BY <1>1, <1>3 DEF GatewayInv, TypeInv, KernelTypes, TodoOK
<1>5. UndoInv'
  BY <1>1 DEF UndoInv
<1>6. ASSUME clean' PROVE Applying'
  <2>1. chain' = <<>> /\ iprules' = <<>>
    BY <1>1, <1>6 DEF KernelIsClean, GatewayInv, TypeInv, KernelTypes
  <2>2. Head(todo') = Nft
    BY <1>3
  <2>3. OwnRoutes'
    BY <1>1, <1>6 DEF KernelIsClean, OwnRoutes
  <2>. QED
    BY <1>3, <2>1, <2>2, <2>3, NothingHeld DEF Applying
<1>7. Head(todo') = Nft
  BY <1>3
<1>. QED
  BY <1>1, <1>3, <1>4, <1>5, <1>6, <1>7 DEF GatewayInv, InstalledInv

\* A rollback begins, from an apply that failed or by itself.
LEMMA UndoBegins ==
  ASSUME GatewayInv, pc' = "rollback", todo' = RenderRollbackCommands(config),
         result' \in {"none", "failed"},
         UNCHANGED <<chain, hasTable, iprules, routes, config, policies, requests, destOption>>
  PROVE  GatewayInv'
<1>1. config \in Seq(RouteRules)
  BY DEF GatewayInv, TypeInv, ConfigOK
<1>2. /\ todo' \in Seq(UndoKinds(config)) /\ todo' # <<>> /\ todo'[1] = NftDelete
      /\ \A i \in 1 .. Len(config) :
             InList(todo', RuleDel(config[i])) /\ InList(todo', RouteDel(config[i]))
  BY <1>1, UndoList
<1>3. Head(todo') = NftDelete
  BY <1>2
<1>4. TypeInv'
  BY <1>2 DEF GatewayInv, TypeInv, KernelTypes, TodoOK
<1>5. UndoInv'
  BY <1>2, <1>3 DEF UndoInv, Undoing
<1>. QED
  BY <1>4, <1>5 DEF GatewayInv, InstalledInv

\* The call ends, or its commands fail, without a change to the kernel.
LEMMA ReturnStep ==
  ASSUME GatewayInv, Return
  PROVE  GatewayInv'
<1>1. /\ pc # "idle" /\ todo = <<>> /\ pc' = "idle" /\ todo' = <<>>
      /\ result' = (IF pc = "apply" THEN "ok" ELSE "rolled back")
      /\ UNCHANGED <<chain, hasTable, iprules, routes, config, policies, requests, destOption>>
      /\ UNCHANGED <<clean, tableKept>>
  BY DEF Return, kernel, call, history
<1>2. TypeInv'
  BY <1>1 DEF GatewayInv, TypeInv, KernelTypes, TodoOK
<1>3. pc = "rollback" => Undone
  BY <1>1, NothingHeld DEF GatewayInv, UndoInv, Undoing, Undone
<1>4. pc = "apply" /\ clean => Applied
  BY <1>1, NothingHeld DEF GatewayInv, InstalledInv, Applying, Applied
<1>5. pc = "apply" \/ pc = "rollback"
  BY <1>1 DEF GatewayInv, TypeInv
<1>6. Undone' = Undone /\ Applied' = Applied
  BY <1>1 DEF Undone, Applied, OwnRoutes
<1>. QED
  BY <1>1, <1>2, <1>3, <1>4, <1>5, <1>6 DEF GatewayInv, UndoInv, InstalledInv

\* A command fails, by refusal or by a fault.
LEMMA FailStep ==
  ASSUME GatewayInv, CommandFails
  PROVE  GatewayInv'
<1>1. /\ todo # <<>>
      /\ UNCHANGED <<chain, hasTable, iprules, routes, config, policies, requests, destOption, clean>>
      /\ IF pc = "apply" THEN ApplyFails ELSE RollbackFails
  BY DEF CommandFails, kernel, call
<1>2. pc = "apply" \/ pc = "rollback"
  BY <1>1 DEF GatewayInv, TypeInv, TodoOK
<1>3. CASE pc = "apply" /\ pc' = "rollback"
  <2>1. todo' = RenderRollbackCommands(config) /\ result' = "failed"
    BY <1>1, <1>3 DEF ApplyFails
  <2>. QED
    BY <1>1, <1>3, <2>1, UndoBegins
<1>4. CASE pc = "apply" /\ pc' # "rollback"
  <2>1. pc' = "idle" /\ todo' = <<>> /\ result' = "failed"
    BY <1>1, <1>4 DEF ApplyFails
  <2>2. TypeInv'
    BY <1>1, <2>1 DEF GatewayInv, TypeInv, KernelTypes, TodoOK
  <2>. QED
    BY <1>1, <2>1, <2>2 DEF GatewayInv, UndoInv, InstalledInv
<1>5. CASE pc = "rollback"
  <2>1. pc' = "idle" /\ todo' = <<>> /\ result' = "rollback failed"
    BY <1>1, <1>5 DEF RollbackFails
  <2>2. TypeInv'
    BY <1>1, <2>1 DEF GatewayInv, TypeInv, KernelTypes, TodoOK
  <2>3. ASSUME ~tableKept' PROVE ~hasTable
    <3>1. CASE Head(todo) = NftDelete
      <4>1. Head(todo).op = "nft delete table" /\ (Accepted(Head(todo)) <=> hasTable)
        BY <3>1, CommandFacts DEF Accepted
      <4>2. Accepted(Head(todo)) => tableKept' = (Head(todo).op = "nft delete table")
        BY Zenon DEF CommandFails
      <4>. QED
        BY <2>3, <4>1, <4>2
    <3>2. CASE Head(todo) # NftDelete
      BY <1>5, <3>2 DEF GatewayInv, UndoInv, Undoing
    <3>. QED
      BY <3>1, <3>2
  <2>. QED
    BY <1>1, <2>1, <2>2, <2>3 DEF GatewayInv, UndoInv, InstalledInv
<1>. QED
  BY <1>2, <1>3, <1>4, <1>5

\* One command of an apply.
LEMMA ApplyRuns ==
  ASSUME GatewayInv, RunCommand, pc = "apply"
  PROVE  GatewayInv'
<1>. DEFINE c == config
            h == Head(todo)
<1>1. /\ todo # <<>> /\ Accepted(h) /\ Execute(h) /\ todo' = Tail(todo)
      /\ UNCHANGED <<config, policies, requests, destOption, pc, result, clean, tableKept>>
  BY DEF RunCommand, call
<1>2. /\ c \in Seq(RouteRules)
      /\ \A i, j \in 1 .. Len(c) : c[i].table = c[j].table => c[i].egress = c[j].egress
  BY DEF GatewayInv, TypeInv, ConfigOK
<1>3. /\ todo \in Seq(ApplyKinds(c)) /\ \A k \in 2 .. Len(todo) : todo[k] # Nft
  BY DEF GatewayInv, TypeInv, TodoOK
<1>4. /\ h \in ApplyKinds(c) /\ todo' \in Seq(ApplyKinds(c))
      /\ \A k \in 1 .. Len(todo') : todo'[k] # Nft
      /\ \A x : InList(todo, x) => x = h \/ InList(todo', x)
  BY <1>1, <1>3, TailFacts
<1>5. TodoOK' /\ (todo' # <<>> => Head(todo') # Nft)
  <2>1. todo' # <<>> => Head(todo') # Nft
    BY <1>4
  <2>2. result \in {"none", "failed"}
    BY DEF GatewayInv, TypeInv, TodoOK
  <2>. QED
    BY <1>1, <1>4, <2>1, <2>2 DEF TodoOK
<1>6. KernelTypes /\ (clean => Applying)
  BY DEF GatewayInv, TypeInv, InstalledInv
<1>. HIDE DEF h
<1>7. \A i \in 1 .. Len(c) :
          c[i] \in RouteRules /\ Slot(c[i]) \in Slots /\ c[i].egress \in Egresses
  <2>1. \A i \in 1 .. Len(c) : c[i] \in RouteRules
    BY <1>2
  <2>2. \A i \in 1 .. Len(c) : c[i].table \in Tables /\ c[i].dest \in Dests /\ c[i].egress \in Egresses
    BY <2>1 DEF RouteRules
  <2>. QED
    BY <2>1, <2>2 DEF Slot, Slots
<1>8. KernelTypes' /\ (clean => Applying')
  <2>1. CASE h = Nft
    <3>1. /\ hasTable' = TRUE /\ chain' = chain \o MarkRules(config)
          /\ iprules' = iprules /\ routes' = routes
      BY <1>1, <2>1, NftRuns
    <3>2. KernelTypes'
      BY <1>6, <3>1 DEF KernelTypes
    <3>3. ASSUME clean PROVE chain' = MarkRules(config)
      <4>1. chain = <<>>
        BY <1>1, <1>6, <2>1, <3>3 DEF Applying, h
      <4>2. MarkRules(config) \in Seq((SUBSET Addresses) \X Nat)
        <5>1. /\ Len(c) \in Nat /\ DOMAIN c = 1 .. Len(c)
              /\ \A i \in 1 .. Len(c) : c[i].match \in SUBSET Addresses /\ c[i].mark \in Nat
          BY <1>2, <1>7 DEF RouteRules
        <5>2. MarkRules(config) \in [1 .. Len(c) -> (SUBSET Addresses) \X Nat]
          BY <5>1 DEF MarkRules
        <5>. QED
          BY <5>1, <5>2
      <4>. HIDE DEF c
      <4>. QED
        BY <3>1, <4>1, <4>2
    <3>4. ASSUME clean PROVE Applying'
      <4>1. ASSUME NEW x PROVE InList(todo, x) /\ x.op # "nft -f" => InList(todo', x)
        BY <1>4, <2>1, CommandFacts
      <4>2. \A r : /\ InList(todo, RuleAdd(r)) => InList(todo', RuleAdd(r))
                   /\ InList(todo, RouteReplace(r)) => InList(todo', RouteReplace(r))
        BY <4>1, CommandFacts
      <4>. QED
        BY <1>1, <1>5, <1>6, <3>1, <3>3, <3>4, <4>2 DEF Applying, OwnRoutes
    <3>. QED
      BY <3>2, <3>4
  <2>2. CASE h = Reload
    <3>1. hasTable' = hasTable /\ chain' = chain /\ iprules' = iprules /\ routes' = routes
      BY <1>1, <2>2, ReloadRuns
    <3>2. h # Nft /\ \A r : h # RuleAdd(r) /\ h # RouteReplace(r)
      BY <2>2, CommandFacts
    <3>3. KernelTypes'
      BY <1>6, <3>1 DEF KernelTypes
    <3>. QED
      BY <1>1, <1>4, <1>5, <1>6, <3>1, <3>2, <3>3 DEF Applying, OwnRoutes, h
  <2>3. CASE \E i \in 1 .. Len(c) : h = RuleAdd(c[i])
    <3>1. PICK i \in 1 .. Len(c) : h = RuleAdd(c[i])
      BY <2>3
    <3>2. /\ hasTable' = hasTable /\ chain' = chain /\ routes' = routes
          /\ iprules' \in Seq(IpRules) /\ NoRepeats(iprules')
          /\ \A y : InList(iprules', y) <=> InList(iprules, y) \/ y = Same(c[i])
      BY <1>1, <1>6, <1>7, <3>1, RuleAddRuns
    <3>3. KernelTypes'
      BY <1>6, <3>2 DEF KernelTypes
    <3>4. h # Nft /\ \A r : h # RouteReplace(r) /\ (h = RuleAdd(r) => r = c[i])
      BY <3>1, CommandsDiffer
    <3>5. ASSUME clean PROVE Applying'
      <4>1. chain' = MarkRules(config')
        BY <1>1, <1>6, <3>2, <3>4, <3>5 DEF Applying, h
      <4>2. \A y : InList(iprules', y) => \E k \in 1 .. Len(config') : y = Same(config'[k])
        BY <1>1, <1>6, <3>2, <3>5 DEF Applying
      <4>3. \A k \in 1 .. Len(config') :
              InList(todo', RuleAdd(config'[k])) \/ InList(iprules', Same(config'[k]))
        BY <1>1, <1>4, <1>6, <3>2, <3>4, <3>5 DEF Applying
      <4>4. \A k \in 1 .. Len(config') :
              InList(todo', RouteReplace(config'[k])) \/ routes'[Slot(config'[k])] = config'[k].egress
        BY <1>1, <1>4, <1>6, <3>2, <3>4, <3>5 DEF Applying
      <4>5. OwnRoutes'
        BY <1>1, <1>6, <3>2, <3>5 DEF Applying, OwnRoutes
      <4>. QED
        BY <1>5, <4>1, <4>2, <4>3, <4>4, <4>5 DEF Applying
    <3>. QED
      BY <3>3, <3>5
  <2>4. CASE \E i \in 1 .. Len(c) : h = RouteReplace(c[i])
    <3>1. PICK i \in 1 .. Len(c) : h = RouteReplace(c[i])
      BY <2>4
    <3>2. /\ hasTable' = hasTable /\ chain' = chain /\ iprules' = iprules
          /\ routes' = [routes EXCEPT ![Slot(c[i])] = c[i].egress]
      BY <1>1, <3>1, RouteReplaceRuns
    <3>3. KernelTypes'
      <4>1. routes' \in [Slots -> Egresses \cup {NoTable}]
        BY <1>6, <1>7, <3>2 DEF KernelTypes
      <4>. QED
        BY <1>6, <3>2, <4>1 DEF KernelTypes
    <3>4. h # Nft /\ \A r : h # RuleAdd(r) /\ (h = RouteReplace(r) => r = c[i])
      BY <3>1, CommandsDiffer
    <3>5. ASSUME clean PROVE Applying'
      <4>1. chain' = MarkRules(config')
        BY <1>1, <1>6, <3>2, <3>4, <3>5 DEF Applying, h
      <4>2. ASSUME NEW k \in 1 .. Len(c)
            PROVE  InList(todo', RouteReplace(c[k])) \/ routes'[Slot(c[k])] = c[k].egress
        <5>1. routes \in [Slots -> Egresses \cup {NoTable}] /\ Slot(c[k]) \in Slots
          BY <1>6, <1>7 DEF KernelTypes
        <5>2. CASE Slot(c[k]) = Slot(c[i])
          <6>1. c[k].table = c[i].table
            BY <5>2 DEF Slot
          <6>2. c[k].egress = c[i].egress
            BY <1>2, <6>1
          <6>. QED
            BY <3>2, <5>1, <5>2, <6>2
        <5>3. CASE Slot(c[k]) # Slot(c[i])
          <6>1. routes'[Slot(c[k])] = routes[Slot(c[k])]
            BY <3>2, <5>1, <5>3
          <6>2. c[k] # c[i]
            BY <5>3
          <6>. QED
            BY <1>4, <1>6, <3>4, <3>5, <6>1, <6>2 DEF Applying
        <5>. QED
          BY <5>2, <5>3
      <4>3. \A k \in 1 .. Len(c) :
              InList(todo', RuleAdd(c[k])) \/ InList(iprules', Same(c[k]))
        BY <1>4, <1>6, <3>2, <3>4, <3>5 DEF Applying
      <4>4. ASSUME NEW s \in Slots, routes'[s] # NoTable
            PROVE  \E k \in 1 .. Len(c) : s[1] = c[k].table /\ routes'[s] = c[k].egress
        <5>1. routes \in [Slots -> Egresses \cup {NoTable}] /\ Slot(c[i])[1] = c[i].table
          BY <1>6 DEF KernelTypes, Slot
        <5>2. CASE s = Slot(c[i])
          BY <3>2, <5>1, <5>2
        <5>3. CASE s # Slot(c[i])
          <6>1. routes'[s] = routes[s]
            BY <3>2, <5>1, <5>3
          <6>. QED
            BY <1>6, <3>5, <4>4, <6>1 DEF Applying, OwnRoutes
        <5>. QED
          BY <5>2, <5>3
      <4>5. OwnRoutes'
        BY <1>1, <4>4 DEF OwnRoutes
      <4>. QED
        BY <1>1, <1>5, <1>6, <3>2, <3>5, <4>1, <4>2, <4>3, <4>5 DEF Applying
    <3>. QED
      BY <3>3, <3>5
  <2>. QED
    BY <1>4, <2>1, <2>2, <2>3, <2>4 DEF ApplyKinds
<1>9. result \in {"none", "failed"}
  BY DEF GatewayInv, TypeInv, TodoOK
<1>10. TypeInv'
  BY <1>1, <1>5, <1>8 DEF GatewayInv, TypeInv
<1>11. hasTable'
  <2>1. CASE h = Nft
    BY <1>1, <2>1, NftRuns
  <2>2. CASE h # Nft
    <3>1. hasTable
      BY <2>2 DEF GatewayInv, InstalledInv, h
    <3>2. CASE h = Reload
      BY <1>1, <3>1, <3>2, ReloadRuns
    <3>3. ASSUME NEW i \in 1 .. Len(c), h = RuleAdd(c[i]) PROVE hasTable'
      BY <1>1, <1>6, <1>7, <3>1, <3>3, RuleAddRuns
    <3>4. ASSUME NEW i \in 1 .. Len(c), h = RouteReplace(c[i]) PROVE hasTable'
      BY <1>1, <3>1, <3>4, RouteReplaceRuns
    <3>. QED
      BY <1>4, <2>2, <3>2, <3>3, <3>4 DEF ApplyKinds
  <2>. QED
    BY <2>1, <2>2
<1>. QED
  BY <1>1, <1>8, <1>9, <1>10, <1>11 DEF GatewayInv, UndoInv, InstalledInv

\* One command of a rollback.
LEMMA UndoRuns ==
  ASSUME GatewayInv, RunCommand, pc = "rollback"
  PROVE  GatewayInv'
<1>. DEFINE c == config
            h == Head(todo)
<1>1. /\ todo # <<>> /\ Accepted(h) /\ Execute(h) /\ todo' = Tail(todo)
      /\ UNCHANGED <<config, policies, requests, destOption, pc, result, clean, tableKept>>
  BY DEF RunCommand, call
<1>2. c \in Seq(RouteRules) /\ todo \in Seq(UndoKinds(c)) /\ result \in {"none", "failed"}
  BY DEF GatewayInv, TypeInv, ConfigOK, TodoOK
<1>3. /\ h \in UndoKinds(c) /\ todo' \in Seq(UndoKinds(c))
      /\ \A x : InList(todo, x) => x = h \/ InList(todo', x)
  BY <1>1, <1>2, TailFacts
<1>4. TodoOK'
  BY <1>1, <1>2, <1>3 DEF TodoOK
<1>5. KernelTypes /\ Undoing
  BY DEF GatewayInv, TypeInv, UndoInv
<1>. HIDE DEF h
<1>6. \A i \in 1 .. Len(c) : c[i] \in RouteRules /\ Slot(c[i]) \in Slots
  <2>1. \A i \in 1 .. Len(c) : c[i] \in RouteRules
    BY <1>2
  <2>2. \A i \in 1 .. Len(c) : c[i].table \in Tables /\ c[i].dest \in Dests
    BY <2>1 DEF RouteRules
  <2>. QED
    BY <2>1, <2>2 DEF Slot, Slots
<1>7. KernelTypes' /\ Undoing'
  <2>1. CASE h = NftDelete
    <3>1. hasTable' = FALSE /\ chain' = <<>> /\ iprules' = iprules /\ routes' = routes
      BY <1>1, <2>1, NftDeleteRuns
    <3>2. \A r : h # RuleDel(r) /\ h # RouteDel(r)
      BY <2>1, CommandFacts
    <3>3. KernelTypes'
      BY <1>5, <3>1 DEF KernelTypes
    <3>4. Undoing'
      BY <1>1, <1>3, <1>5, <3>1, <3>2 DEF Undoing
    <3>. QED
      BY <3>3, <3>4
  <2>2. CASE h = Reload
    <3>1. hasTable' = hasTable /\ chain' = chain /\ iprules' = iprules /\ routes' = routes
      BY <1>1, <2>2, ReloadRuns
    <3>2. h # NftDelete /\ \A r : h # RuleDel(r) /\ h # RouteDel(r)
      BY <2>2, CommandFacts
    <3>3. KernelTypes'
      BY <1>5, <3>1 DEF KernelTypes
    <3>4. Undoing'
      BY <1>1, <1>3, <1>5, <3>1, <3>2 DEF Undoing, h
    <3>. QED
      BY <3>3, <3>4
  <2>3. CASE \E i \in 1 .. Len(c) : h = RuleDel(c[i])
    <3>1. PICK i \in 1 .. Len(c) : h = RuleDel(c[i])
      BY <2>3
    <3>2. /\ hasTable' = hasTable /\ chain' = chain /\ routes' = routes
          /\ iprules' \in Seq(IpRules) /\ NoRepeats(iprules')
          /\ ~InList(iprules', Same(c[i])) /\ \A y : InList(iprules', y) => InList(iprules, y)
      BY <1>1, <1>5, <1>6, <3>1, RuleDelRuns
    <3>3. KernelTypes'
      BY <1>5, <3>2 DEF KernelTypes
    <3>4. h # NftDelete /\ \A r : h # RouteDel(r) /\ (h = RuleDel(r) => r = c[i])
      BY <3>1, CommandsDiffer
    <3>5. ~hasTable'
      BY <1>5, <3>2, <3>4 DEF Undoing, h
    <3>6. ASSUME NEW k \in 1 .. Len(c)
          PROVE  /\ InList(todo', RuleDel(c[k])) \/ ~InList(iprules', Same(c[k]))
                 /\ InList(todo', RouteDel(c[k])) \/ routes'[Slot(c[k])] = NoTable
      BY <1>3, <1>5, <3>2, <3>4 DEF Undoing
    <3>7. Undoing'
      BY <1>1, <3>5, <3>6 DEF Undoing
    <3>. QED
      BY <3>3, <3>7
  <2>4. CASE \E i \in 1 .. Len(c) : h = RouteDel(c[i])
    <3>1. PICK i \in 1 .. Len(c) : h = RouteDel(c[i])
      BY <2>4
    <3>2. /\ hasTable' = hasTable /\ chain' = chain /\ iprules' = iprules
          /\ routes' = [routes EXCEPT ![Slot(c[i])] = NoTable]
      BY <1>1, <3>1, RouteDelRuns
    <3>3. KernelTypes'
      BY <1>5, <3>2 DEF KernelTypes
    <3>4. h # NftDelete /\ \A r : h # RuleDel(r) /\ (h = RouteDel(r) => r = c[i])
      BY <3>1, CommandsDiffer
    <3>5. ~hasTable'
      BY <1>5, <3>2, <3>4 DEF Undoing, h
    <3>6. ASSUME NEW k \in 1 .. Len(c)
          PROVE  /\ InList(todo', RuleDel(c[k])) \/ ~InList(iprules', Same(c[k]))
                 /\ InList(todo', RouteDel(c[k])) \/ routes'[Slot(c[k])] = NoTable
      <4>1. Slot(c[k]) \in Slots /\ routes \in [Slots -> Egresses \cup {NoTable}]
        BY <1>5, <1>6 DEF KernelTypes
      <4>. QED
        BY <1>3, <1>5, <3>2, <3>4, <4>1 DEF Undoing
    <3>7. Undoing'
      BY <1>1, <3>5, <3>6 DEF Undoing
    <3>. QED
      BY <3>3, <3>7
  <2>. QED
    BY <1>3, <2>1, <2>2, <2>3, <2>4 DEF UndoKinds
<1>8. TypeInv'
  BY <1>1, <1>4, <1>7 DEF GatewayInv, TypeInv
<1>. QED
  BY <1>1, <1>2, <1>7, <1>8 DEF GatewayInv, UndoInv, InstalledInv

\* Every step keeps it.
LEMMA NextGatewayInv ==
  ASSUME GatewayInv, [GatewayNext]_gatewayVars
  PROVE  GatewayInv'
<1>1. CASE \E P \in PolicySets, option \in DestOptions, undo \in BOOLEAN :
             ApplyPolicyRoutes(P, option, undo)
  <2>1. PICK P \in PolicySets, option \in DestOptions, undo \in BOOLEAN :
             ApplyPolicyRoutes(P, option, undo)
    BY <1>1
  <2>. QED
    BY <2>1, PolicyConfig, BeginStep DEF ApplyPolicyRoutes
<1>2. CASE \E P \in PolicySets, tenant \in PolicyTenants, option \in DestOptions, lines \in Logs :
             ApplyObservedPolicyRoutes(P, tenant, option, lines)
  <2>1. PICK P \in PolicySets, tenant \in PolicyTenants, option \in DestOptions, lines \in Logs :
             ApplyObservedPolicyRoutes(P, tenant, option, lines)
    BY <1>2
  <2>. DEFINE O == Observations(tenant, lines)
              rules == PlanObservedPolicyRouteRules(P, O, option)
  <2>2. LET c == sortedRouteRules(Range(BaseRules) \union Range(rules))
        IN  ConfigOK(c) /\ Steers(c, P, O, option)
    BY ObservedConfig
  <2>3. Begin(P, O, option, rules, TRUE)
    BY <2>1, Zenon DEF ApplyObservedPolicyRoutes
  <2>. HIDE DEF O, rules
  <2>. QED
    BY <2>2, <2>3, BeginStep
<1>3. CASE Rollback
  BY <1>3, UndoBegins DEF Rollback, kernel, call
<1>4. CASE RunCommand
  <2>1. pc = "apply" \/ pc = "rollback"
    BY <1>4 DEF GatewayInv, TypeInv, TodoOK, RunCommand
  <2>. QED
    BY <1>4, <2>1, ApplyRuns, UndoRuns
<1>5. CASE CommandFails
  BY <1>5, FailStep
<1>6. CASE Return
  BY <1>6, ReturnStep
<1>7. CASE UNCHANGED gatewayVars
  <2>1. UNCHANGED <<chain, hasTable, iprules, routes, config, policies, requests, destOption, pc, todo,
                    result, clean, tableKept>>
    BY <1>7 DEF gatewayVars, kernel, call, history
  <2>2. TypeInv'
    BY <2>1 DEF GatewayInv, TypeInv, KernelTypes, TodoOK
  <2>3. UndoInv'
    BY <2>1 DEF GatewayInv, UndoInv, Undoing, Undone
  <2>4. InstalledInv'
    BY <2>1 DEF GatewayInv, InstalledInv, Applying, Applied, OwnRoutes
  <2>. QED
    BY <2>2, <2>3, <2>4 DEF GatewayInv
<1>. QED
  BY <1>1, <1>2, <1>3, <1>4, <1>5, <1>6, <1>7 DEF GatewayNext

\* So it always holds.
LEMMA AlwaysGatewayInv == GatewaySpec => []GatewayInv
<1>1. GatewayInit => GatewayInv
  BY InitGatewayInv
<1>2. GatewayInv /\ [GatewayNext]_gatewayVars => GatewayInv'
  BY NextGatewayInv
<1>. QED
  BY <1>1, <1>2, PTL DEF GatewaySpec

\* The bounded counters of a behaviour.
CountsWithin == calls \in 0 .. MaxCalls /\ faults \in 0 .. MaxFaults

LEMMA NextCountsWithin ==
  ASSUME CountsWithin, [GatewayNext]_gatewayVars
  PROVE  CountsWithin'
<1>. USE GatewayAssumption DEF CountsWithin
<1>1. ASSUME calls < MaxCalls, calls' = calls + 1, faults' = faults PROVE CountsWithin'
  BY <1>1
<1>2. CASE Rollback
  BY <1>1, <1>2 DEF Rollback
<1>3. CASE CommandFails
  <2>1. calls' = calls /\ (faults' = faults \/ (faults < MaxFaults /\ faults' = faults + 1))
    BY <1>3, Zenon DEF CommandFails
  <2>. QED
    BY <2>1
<1>4. ASSUME NEW P, NEW O, NEW option, NEW rules, NEW undo, Begin(P, O, option, rules, undo)
      PROVE  CountsWithin'
  BY <1>1, <1>4 DEF Begin
<1>5. ASSUME UNCHANGED <<calls, faults>> PROVE CountsWithin'
  BY <1>5
<1>6. CASE RunCommand \/ Return \/ UNCHANGED gatewayVars
  <2>1. UNCHANGED <<calls, faults>>
    BY <1>6, Zenon DEF RunCommand, Return, gatewayVars
  <2>. QED
    BY <1>5, <2>1
<1>. QED
  BY <1>2, <1>3, <1>4, <1>6, Zenon DEF GatewayNext, ApplyPolicyRoutes, ApplyObservedPolicyRoutes

\* For any policies, observations, tables and base configuration, and after any calls
\* and failed commands, every variable has its type: ip rule and ip route hold nothing
\* but rules and egresses of a configuration.
THEOREM GatewayTypes == GatewaySpec => []GatewayTypeOK
<1>1. GatewayInit => CountsWithin
  BY GatewayAssumption DEF GatewayInit, CountsWithin
<1>2. CountsWithin /\ [GatewayNext]_gatewayVars => CountsWithin'
  BY NextCountsWithin
<1>3. ASSUME GatewayInv, CountsWithin PROVE GatewayTypeOK
  <2>1. KernelTypes /\ pc \in {"idle", "apply", "rollback"}
    BY <1>3 DEF GatewayInv, TypeInv
  <2>2. IpRules \subseteq [mark : Nat, table : Tables, preference : Nat]
    BY DEF IpRules, RouteRules, Same
  <2>3. Range(iprules) \subseteq IpRules
    BY <2>1 DEF KernelTypes, Range
  <2>. QED
    BY <1>3, <2>1, <2>2, <2>3, Zenon DEF KernelTypes, CountsWithin, GatewayTypeOK
<1>4. GatewayInv /\ CountsWithin => GatewayTypeOK
  BY <1>3
<1>. QED
  BY <1>1, <1>2, <1>4, AlwaysGatewayInv, PTL DEF GatewaySpec

\* A rollback that reports success (Config.Rollback, or maybeRollback after a failed
\* apply) has left no mark, no rule and no route of its configuration, whatever ran
\* before it: each was deleted by a command that the kernel accepted.
THEOREM RollbackIsComplete == GatewaySpec => []RolledBackIsGone
<1>1. ASSUME GatewayInv, Undone
      PROVE  /\ ~hasTable
             /\ \A i \in DOMAIN config : /\ Same(config[i]) \notin Range(iprules)
                                         /\ routes[Slot(config[i])] # config[i].egress
  <2>1. config \in Seq(RouteRules) /\ iprules \in Seq(IpRules)
    BY <1>1, Zenon DEF GatewayInv, TypeInv, ConfigOK, KernelTypes
  <2>2. DOMAIN config = 1 .. Len(config) /\ DOMAIN iprules = 1 .. Len(iprules)
    BY <2>1
  <2>3. NoTable \notin Egresses
    BY GatewayAssumption
  <2>4. \A i \in DOMAIN config : config[i].egress \in Egresses
    <3>1. \A i \in DOMAIN config : config[i] \in RouteRules
      BY <2>1
    <3>. QED
      BY <3>1 DEF RouteRules
  <2>5. \A x : ~InList(iprules, x) => x \notin Range(iprules)
    BY <2>2 DEF InList, Range
  <2>. QED
    BY <1>1, <2>2, <2>3, <2>4, <2>5 DEF Undone
<1>2. GatewayInv => RolledBackIsGone
  BY <1>1, Zenon DEF GatewayInv, UndoInv, RolledBackIsGone
<1>. QED
  BY <1>2, AlwaysGatewayInv, PTL

\* The kernel sends a packet nowhere but through an egress of its routes.
LEMMA EgressTyped ==
  ASSUME KernelTypes, NEW ip
  PROVE  EgressOf(ip) \in Egresses \cup {NoTable}
<1>. DEFINE usable == {i \in DOMAIN iprules : /\ ip \in V4 /\ iprules[i].mark = MarkOf(ip)
                                              /\ Routed(iprules[i].table, ip) # {}}
            first == CHOOSE i \in usable : \A j \in usable : i <= j
            table == iprules[first].table
            dest == CHOOSE d \in Routed(table, ip) : TRUE
<1>1. EgressOf(ip) = IF usable = {} THEN NoTable ELSE routes[<<table, dest>>]
  BY Zenon DEF EgressOf
<1>2. ASSUME usable # {} PROVE routes[<<table, dest>>] \in Egresses \cup {NoTable}
  <2>1. usable \in SUBSET Nat
    BY DEF KernelTypes
  <2>2. first \in usable
    <3>. HIDE DEF usable
    <3>1. \E i \in usable : \A j \in usable : i <= j
      BY <1>2, <2>1, LeastNatural
    <3>. QED
      BY <3>1, Zenon
  <2>. HIDE DEF first
  <2>3. first \in 1 .. Len(iprules) /\ Routed(table, ip) # {}
    BY <2>2 DEF KernelTypes
  <2>4. iprules[first] \in IpRules
    BY <2>3 DEF KernelTypes
  <2>5. PICK r \in RouteRules : iprules[first] = Same(r)
    BY <2>4 DEF IpRules
  <2>6. table = r.table /\ r.table \in Tables
    BY <2>5 DEF Same, RouteRules
  <2>7. dest \in Routed(table, ip)
    BY <2>3, Zenon
  <2>. HIDE DEF table, dest
  <2>8. dest \in Dests
    BY <2>7 DEF Routed
  <2>9. <<table, dest>> \in Slots
    BY <2>6, <2>8 DEF Slots
  <2>. QED
    BY <2>9 DEF KernelTypes
<1>. HIDE DEF usable, table, dest
<1>. QED
  BY <1>1, <1>2

\* Once a rollback has failed part-way, at whichever command and for whatever reason,
\* the kernel marks no packet and redirects none, unless it was the deletion of an nft
\* table that is there: that goes first, and it is refused only if there is no table.
THEOREM FailedApplyIsHarmless == GatewaySpec => []FailedApplyMarksNothing
<1>1. ASSUME chain = <<>>, NEW ip PROVE MarkOf(ip) = Unmarked
  <2>. DEFINE matching == {i \in DOMAIN chain : ip \in chain[i][1]}
  <2>1. matching = {}
    BY <1>1
  <2>2. MarkOf(ip) = IF matching = {} THEN Unmarked
                        ELSE chain[CHOOSE i \in matching : \A j \in matching : j <= i][2]
    BY Zenon DEF MarkOf
  <2>. HIDE DEF matching
  <2>. QED
    BY <2>1, <2>2
<1>2. ASSUME GatewayInv, ~hasTable, NEW ip \in Addresses, NEW protocol \in Protocols
      PROVE  SentTo(ip, protocol) # Proxy
  <2>1. EgressOf(ip) \in Egresses \cup {NoTable}
    BY <1>2, EgressTyped DEF GatewayInv, TypeInv
  <2>2. Proxy \notin Egresses /\ Proxy # NoTable
    BY GatewayAssumption DEF Proxy, NoTable
  <2>3. SentTo(ip, protocol) = EgressOf(ip)
    BY <1>2 DEF SentTo
  <2>. QED
    BY <2>1, <2>2, <2>3
<1>3. ASSUME GatewayInv PROVE FailedApplyMarksNothing
  <2>. SUFFICES ASSUME result = "rollback failed", ~tableKept
                PROVE  /\ \A ip \in Addresses : MarkOf(ip) = Unmarked
                       /\ \A ip \in Addresses, protocol \in Protocols :
                              SentTo(ip, protocol) # Proxy
    BY Zenon DEF FailedApplyMarksNothing
  <2>1. ~hasTable /\ chain = <<>>
    BY <1>3, Zenon DEF GatewayInv, TypeInv, KernelTypes, UndoInv
  <2>. QED
    BY <1>1, <1>2, <1>3, <2>1, Zenon
<1>4. GatewayInv => FailedApplyMarksNothing
  BY <1>3
<1>. QED
  BY <1>4, AlwaysGatewayInv, PTL

\* Where the kernel sends an address once the configuration is in place.
LEMMA EgressFollowsLast ==
  ASSUME TypeInv, Applied, NEW ip, NEW k \in 1 .. Len(config),
         ip \in V4, ip \in config[k].dest,
         ip \in config[k].match, \A j \in 1 .. Len(config) : ip \in config[j].match => j <= k,
         \A j \in 1 .. Len(config) : config[j].mark = config[k].mark => config[j] = config[k]
  PROVE  EgressOf(ip) = config[k].egress
<1>. DEFINE r == config[k]
            matching == {i \in DOMAIN chain : ip \in chain[i][1]}
            usable == {i \in DOMAIN iprules : /\ ip \in V4 /\ iprules[i].mark = MarkOf(ip)
                                              /\ Routed(iprules[i].table, ip) # {}}
            first == CHOOSE i \in usable : \A j \in usable : i <= j
<1>1. /\ config \in Seq(RouteRules) /\ Len(config) \in Nat /\ DOMAIN config = 1 .. Len(config)
      /\ iprules \in Seq(IpRules) /\ DOMAIN iprules = 1 .. Len(iprules) /\ Len(iprules) \in Nat
  BY DEF TypeInv, ConfigOK, KernelTypes
<1>2. DOMAIN chain = 1 .. Len(config)
      /\ \A i \in 1 .. Len(config) : chain[i][1] = config[i].match /\ chain[i][2] = config[i].mark
  BY <1>1 DEF Applied, MarkRules
<1>3. MarkOf(ip) = r.mark
  <2>1. k \in matching /\ \A j \in matching : j <= k
    BY <1>2
  <2>2. matching \in SUBSET Nat
    BY <1>2
  <2>3. MarkOf(ip) = IF matching = {} THEN Unmarked
                        ELSE chain[CHOOSE i \in matching : \A j \in matching : j <= i][2]
    BY Zenon DEF MarkOf
  <2>. HIDE DEF matching
  <2>4. (CHOOSE i \in matching : \A j \in matching : j <= i) = k
    <3>. DEFINE x == CHOOSE i \in matching : \A j \in matching : j <= i
    <3>1. x \in matching /\ \A j \in matching : j <= x
      BY <2>1, Zenon
    <3>. HIDE DEF x
    <3>2. x <= k /\ k <= x /\ x \in Nat /\ k \in Nat
      BY <2>1, <2>2, <3>1
    <3>3. x = k
      BY <3>2
    <3>. QED
      BY <3>3 DEF x
  <2>. QED
    BY <1>2, <2>1, <2>3, <2>4
<1>4. /\ r.egress \in Egresses /\ r.egress # NoTable /\ r.table \in Tables
      /\ r.dest \in Dests /\ routes[<<r.table, r.dest>>] = r.egress
  <2>1. r \in RouteRules
    BY <1>1
  <2>2. r.egress \in Egresses /\ r.table \in Tables /\ r.dest \in Dests
    BY <2>1 DEF RouteRules
  <2>. QED
    BY <2>2, GatewayAssumption DEF Applied, Slot
<1>5. ASSUME NEW i \in usable PROVE iprules[i].table = r.table
  <2>1. InList(iprules, iprules[i]) /\ iprules[i].mark = r.mark
    BY <1>1, <1>3 DEF InList
  <2>2. PICK j \in 1 .. Len(config) : iprules[i] = Same(config[j])
    BY <2>1 DEF Applied
  <2>3. config[j].mark = r.mark /\ iprules[i].table = config[j].table
    BY <2>1, <2>2 DEF Same
  <2>4. config[j] = r
    BY <2>3
  <2>. QED
    BY <2>3, <2>4
<1>6. r.dest \in Routed(r.table, ip)
  BY <1>4 DEF Routed
<1>7. ASSUME NEW d \in Routed(r.table, ip) PROVE routes[<<r.table, d>>] = r.egress
  <2>1. <<r.table, d>> \in Slots /\ routes[<<r.table, d>>] # NoTable
    BY <1>4 DEF Routed, Slots
  <2>2. PICK j \in 1 .. Len(config) :
            r.table = config[j].table /\ routes[<<r.table, d>>] = config[j].egress
    BY <2>1 DEF Applied, OwnRoutes
  <2>. QED
    BY <2>2 DEF TypeInv, ConfigOK
<1>8. usable # {}
  <2>1. InList(iprules, Same(r))
    BY DEF Applied
  <2>2. PICK i \in 1 .. Len(iprules) : iprules[i] = Same(r)
    BY <2>1 DEF InList
  <2>3. iprules[i].mark = r.mark /\ iprules[i].table = r.table
    BY <2>2 DEF Same
  <2>4. i \in usable
    BY <1>1, <1>3, <1>6, <2>3
  <2>. QED
    BY <2>4
<1>9. EgressOf(ip) =
        IF usable = {} THEN NoTable
        ELSE routes[<<iprules[first].table, CHOOSE d \in Routed(iprules[first].table, ip) : TRUE>>]
  BY Zenon DEF EgressOf
<1>10. first \in usable
  <2>1. usable \in SUBSET Nat
    BY <1>1
  <2>. HIDE DEF usable
  <2>2. \E i \in usable : \A j \in usable : i <= j
    BY <1>8, <2>1, LeastNatural
  <2>. QED
    BY <2>2, Zenon
<1>. HIDE DEF usable, first
<1>11. iprules[first].table = r.table
  BY <1>5, <1>10
<1>12. (CHOOSE d \in Routed(r.table, ip) : TRUE) \in Routed(r.table, ip)
  BY <1>6, Zenon
<1>. QED
  BY <1>7, <1>8, <1>9, <1>11, <1>12

\* For any classifier, policies and observations of any tenant, any DestCIDR, any base
\* configuration whose marks and preferences lie below those of the plans, and tables of
\* one egress each: after an apply from observed traffic that began on a clean kernel
\* and returned no error, TCP and UDP of the LAN go to the gateway's proxy, and any
\* other packet to an observed IPv4 address inside DestCIDR leaves through the egress
\* that the policy engine decides: the last mark set is a planned one, its ip rule is
\* the only one for that mark, and every route of that rule's table leads to the egress.
THEOREM ObservedTrafficFollowsPolicy == GatewaySpec => []ObservedRoutedAsDecided
<1>1. ASSUME GatewayInv PROVE ObservedRoutedAsDecided
  <2>. SUFFICES ASSUME result = "ok", clean, NEW q \in requests,
                       q.ip \in V4, q.ip \in DestCIDR(destOption),
                       \A p \in requests : p.ip = q.ip =>
                           /\ Decided(policies, p)
                           /\ RuleFor(policies, p).egress = RuleFor(policies, q).egress,
                       NEW protocol \in Protocols
                PROVE  SentTo(q.ip, protocol) =
                           IF protocol \in Redirected THEN Proxy ELSE RuleFor(policies, q).egress
    BY DEF ObservedRoutedAsDecided, Decided, RuleFor
  <2>1. /\ TypeInv /\ Applied /\ Steers(config, policies, requests, destOption)
        /\ Decided(policies, q) /\ hasTable
    BY <1>1 DEF GatewayInv, InstalledInv
  <2>2. PICK k \in 1 .. Len(config) :
            /\ q.ip \in config[k].match
            /\ \A j \in 1 .. Len(config) : q.ip \in config[j].match => j <= k
            /\ \A j \in 1 .. Len(config) : config[j].mark = config[k].mark => config[j] = config[k]
            /\ q.ip \in V4 => config[k].dest = DestCIDR(destOption)
            /\ \E p \in requests : /\ Decided(policies, p) /\ p.ip = q.ip
                                   /\ config[k].egress = RuleFor(policies, p).egress
    BY <2>1 DEF Steers
  <2>3. EgressOf(q.ip) = config[k].egress
    BY <2>1, <2>2, EgressFollowsLast
  <2>4. EgressOf(q.ip) = RuleFor(policies, q).egress
    BY <2>2, <2>3
  <2>. QED
    BY <2>1, <2>4 DEF SentTo
<1>2. GatewayInv => ObservedRoutedAsDecided
  BY <1>1
<1>. QED
  BY <1>2, AlwaysGatewayInv, PTL

=============================================================================
