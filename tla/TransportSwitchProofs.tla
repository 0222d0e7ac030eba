----------------------- MODULE TransportSwitchProofs -----------------------
(***************************************************************************)
(* Theorems about TransportSwitch, for every set of protocols and specs,   *)
(* and about TransportSelector, for every number of targets.               *)
(***************************************************************************)
EXTENDS TransportSwitch, TransportSelector, TLAPS

\* The effect of one activation on the host and on the supervisor's record.
LEMMA ActivateEffect ==
    ASSUME TypeOK, NEW p \in Protocols, NEW ok \in BOOLEAN, Activate(p, ok)
    PROVE  /\ host' \subseteq Protocols
           /\ active' \in Protocols \cup {None}
           /\ NoOrphanTransport => host' \subseteq {active'} \cup leftover
           /\ ok => active' = p
           /\ ~ok => active' \in {active, None}
BY ProtocolsAssumption DEF Activate, TypeOK, NoOrphanTransport

-----------------------------------------------------------------------------
(***************************************************************************)
(* Type correctness.                                                       *)
(***************************************************************************)

LEMMA TypeInit == Init => TypeOK
<1>. SUFFICES ASSUME Init PROVE TypeOK
  OBVIOUS
<1>1. cooling \in BOOLEAN /\ raced \in BOOLEAN /\ overridden \in BOOLEAN /\ unreported \in BOOLEAN
  BY DEF Init
<1>2. lives \in 0 .. MaxLives
  BY ProtocolsAssumption DEF Init
<1>3. /\ host \subseteq Protocols
      /\ active \in Protocols \cup {None}
      /\ current \in Protocols /\ shown \in Protocols
      /\ initial \in Protocols \cup {None}
      /\ leftover \subseteq Protocols
  BY DEF Init
<1>4. start = "new"
  BY DEF Init
<1>. QED
  BY <1>1, <1>2, <1>3, <1>4 DEF TypeOK

LEMMA TypeStep == TypeOK /\ [Next]_vars => TypeOK'
<1>. SUFFICES ASSUME TypeOK, [Next]_vars
              PROVE  TypeOK'
  OBVIOUS
<1>1. CASE StartRead
  BY <1>1 DEF StartRead, TypeOK
<1>2. CASE StartApply
  <2>1. PICK ok \in BOOLEAN : Activate(initial, ok)
    BY <1>2 DEF StartApply
  <2>2. initial \in Protocols
    BY <1>2 DEF StartApply, TypeOK
  <2>3. host' \subseteq Protocols /\ active' \in Protocols \cup {None}
    BY <2>1, <2>2, ActivateEffect
  <2>. QED
    BY <1>2, <2>3 DEF StartApply, TypeOK
<1>3. CASE EvaluateSame
  BY <1>3 DEF EvaluateSame, Show, TypeOK
<1>4. ASSUME NEW p \in Protocols, EvaluateSuppressed(p)
      PROVE  TypeOK'
  BY <1>4 DEF EvaluateSuppressed, Show, TypeOK
<1>5. ASSUME NEW p \in Protocols, EvaluateSwitch(p)
      PROVE  TypeOK'
  <2>1. PICK ok \in BOOLEAN : Activate(p, ok)
    BY <1>5 DEF EvaluateSwitch
  <2>2. host' \subseteq Protocols /\ active' \in Protocols \cup {None}
    BY <2>1, ActivateEffect
  <2>3. current' \in Protocols /\ shown' \in Protocols
    BY <1>5 DEF EvaluateSwitch, Show, TypeOK
  <2>4. /\ cooling' \in BOOLEAN /\ raced' \in BOOLEAN /\ overridden' \in BOOLEAN
        /\ unreported' \in BOOLEAN
    BY <1>5 DEF EvaluateSwitch, Show, TypeOK
  <2>. QED
    BY <1>5, <2>2, <2>3, <2>4 DEF EvaluateSwitch, TypeOK
<1>6. CASE CooldownElapses
  BY <1>6 DEF CooldownElapses, TypeOK
<1>7. ASSUME NEW p \in Protocols, TunnelDies(p)
      PROVE  TypeOK'
  BY <1>7 DEF TunnelDies, TypeOK
<1>8. CASE AgentEnds
  BY <1>8 DEF AgentEnds, TypeOK
<1>11. ASSUME NEW p \in Protocols, ApplyConfig(p)
       PROVE  TypeOK'
  BY <1>11 DEF ApplyConfig, TypeOK
<1>9. CASE AgentStarts
  <2>1. /\ cooling' \in BOOLEAN /\ raced' \in BOOLEAN /\ overridden' \in BOOLEAN
        /\ unreported' \in BOOLEAN
    BY <1>9 DEF AgentStarts
  <2>2. lives' \in 0 .. MaxLives
    BY <1>9, ProtocolsAssumption DEF AgentStarts, TypeOK
  <2>3. /\ host' \subseteq Protocols
        /\ active' \in Protocols \cup {None}
        /\ current' \in Protocols /\ shown' \in Protocols
        /\ initial' \in Protocols \cup {None}
        /\ leftover' \subseteq Protocols
    BY <1>9 DEF AgentStarts, TypeOK
  <2>4. start' = "new"
    BY <1>9 DEF AgentStarts
  <2>. QED
    BY <2>1, <2>2, <2>3, <2>4 DEF TypeOK
<1>10. CASE UNCHANGED vars
  BY <1>10 DEF vars, TypeOK
<1>. QED
  BY <1>1, <1>2, <1>3, <1>4, <1>5, <1>6, <1>7, <1>8, <1>9, <1>10, <1>11 DEF Next

\* Every variable of the switching machinery keeps its type.
THEOREM TypeCorrect == Spec => []TypeOK
<1>1. Init => TypeOK
  BY TypeInit
<1>2. TypeOK /\ [Next]_vars => TypeOK'
  BY TypeStep
<1>. QED
  BY <1>1, <1>2, PTL DEF Spec

-----------------------------------------------------------------------------
(***************************************************************************)
(* The supervisor keeps at most one transport of its own up.               *)
(***************************************************************************)

LEMMA NoOrphanStep ==
    ASSUME TypeOK, NoOrphanTransport, [Next]_vars
    PROVE  NoOrphanTransport'
<1>1. CASE StartApply
  <2>1. PICK ok \in BOOLEAN : Activate(initial, ok)
    BY <1>1 DEF StartApply
  <2>2. initial \in Protocols
    BY <1>1 DEF StartApply, TypeOK
  <2>3. host' \subseteq {active'} \cup leftover
    BY <2>1, <2>2, ActivateEffect
  <2>. QED
    BY <1>1, <2>3 DEF StartApply, NoOrphanTransport
<1>2. ASSUME NEW p \in Protocols, EvaluateSwitch(p)
      PROVE  NoOrphanTransport'
  <2>1. PICK ok \in BOOLEAN : Activate(p, ok)
    BY <1>2 DEF EvaluateSwitch
  <2>2. host' \subseteq {active'} \cup leftover
    BY <2>1, ActivateEffect
  <2>. QED
    BY <1>2, <2>2 DEF EvaluateSwitch, NoOrphanTransport
<1>3. CASE StartRead \/ EvaluateSame \/ CooldownElapses \/ UNCHANGED vars
  BY <1>3 DEF StartRead, EvaluateSame, CooldownElapses, vars, NoOrphanTransport
<1>4. ASSUME NEW p \in Protocols, EvaluateSuppressed(p) \/ ApplyConfig(p) \/ TunnelDies(p)
      PROVE  NoOrphanTransport'
  BY <1>4 DEF EvaluateSuppressed, ApplyConfig, TunnelDies, NoOrphanTransport
<1>5. CASE AgentEnds \/ AgentStarts
  BY <1>5 DEF AgentEnds, AgentStarts, NoOrphanTransport
<1>. QED
  BY <1>1, <1>2, <1>3, <1>4, <1>5 DEF Next

\* Whatever fails in Supervisor.Activate, however the two threads of the agent
\* interleave and however often it restarts, a transport that is up is the one
\* on record or was left by an earlier process.
THEOREM AtMostOneTransport == Spec => []NoOrphanTransport
<1>1. Init => NoOrphanTransport
  BY DEF Init, NoOrphanTransport
<1>2. TypeOK /\ NoOrphanTransport /\ [Next]_vars => NoOrphanTransport'
  BY NoOrphanStep
<1>. QED
  BY <1>1, <1>2, TypeCorrect, PTL DEF Spec

-----------------------------------------------------------------------------
(***************************************************************************)
(* The runtime and the supervisor agree.  The strengthening says that they *)
(* agree before Start has activated as well, and that what Start read is   *)
(* still the runtime's protocol unless a switch came after the read.  What *)
(* the agent shows follows the runtime whatever Start is doing.            *)
(***************************************************************************)

AgreeInv ==
    /\ ~raced /\ start \in {"new", "read", "running"} =>
           /\ active \in {current, None}
           /\ start = "read" => initial = current
    /\ overridden \/ unreported \/ shown = current

LEMMA AgreeStep ==
    ASSUME TypeOK, AgreeInv, [Next]_vars
    PROVE  AgreeInv'
<1>1. CASE StartRead
  BY <1>1 DEF StartRead, AgreeInv
<1>2. CASE StartApply
  <2>1. PICK ok \in BOOLEAN : /\ Activate(initial, ok)
                              /\ start' = IF ok THEN "running" ELSE "failed"
    BY <1>2 DEF StartApply
  <2>2. /\ initial \in Protocols /\ current' = current /\ raced' = raced
        /\ shown' = shown /\ overridden' = overridden /\ unreported' = unreported
    BY <1>2 DEF StartApply, TypeOK
  <2>3. ~raced => initial = current
    BY <1>2 DEF StartApply, AgreeInv
  <2>4. ok => active' = initial
    BY <2>1, <2>2, ActivateEffect
  <2>. QED
    BY <2>1, <2>2, <2>3, <2>4 DEF AgreeInv
<1>3. ASSUME NEW p \in Protocols, EvaluateSwitch(p)
      PROVE  AgreeInv'
  <2>1. start \in {"new", "read", "running"} /\ start' = start /\ initial' = initial
    BY <1>3 DEF EvaluateSwitch, Probing
  <2>2. CASE /\ Activate(p, TRUE) /\ current' = p /\ raced' = (start = "read")
            /\ Show(p, TRUE)
    <3>1. active' = p
      BY <2>2, ActivateEffect
    <3>. QED
      BY <2>1, <2>2, <3>1 DEF AgreeInv, Show
  <2>3. CASE /\ Activate(p, FALSE) /\ current' = current /\ raced' = raced
            /\ Show(current, FALSE)
    <3>1. active' \in {active, None}
      BY <2>3, ActivateEffect
    <3>2. \/ shown' = current
          \/ shown' = shown /\ (overridden => overridden') /\ (unreported => unreported')
      BY <2>3 DEF Show
    <3>3. (overridden \/ unreported \/ shown = current)'
      BY <2>3, <3>2 DEF AgreeInv
    <3>4. ~raced' => active' \in {current', None} /\ (start' = "read" => initial' = current')
      BY <2>1, <2>3, <3>1 DEF AgreeInv
    <3>. QED
      BY <3>3, <3>4 DEF AgreeInv
  <2>. QED
    BY <1>3, <2>2, <2>3 DEF EvaluateSwitch
<1>4. CASE EvaluateSame \/ CooldownElapses \/ UNCHANGED vars
  BY <1>4 DEF EvaluateSame, Show, CooldownElapses, vars, AgreeInv
<1>5. ASSUME NEW p \in Protocols, EvaluateSuppressed(p) \/ ApplyConfig(p) \/ TunnelDies(p)
      PROVE  AgreeInv'
  BY <1>5 DEF EvaluateSuppressed, Show, ApplyConfig, TunnelDies, AgreeInv
<1>6. CASE AgentEnds \/ AgentStarts
  BY <1>6 DEF AgentEnds, AgentStarts, AgreeInv
<1>. QED
  BY <1>1, <1>2, <1>3, <1>4, <1>5, <1>6 DEF Next

\* The protocol the runtime decides and reports with is the one the supervisor has
\* on record, or the supervisor has none after a failed restore: through every
\* failure, and unless a switch fell between the two halves of Service.Start.  The
\* agent shows it too, except from a bundle that names a transport or a switch whose
\* report failed to the next evaluation that is reported.
THEOREM RuntimeAgrees == Spec => []RuntimeMatchesSupervisor
<1>1. Init => AgreeInv
  BY DEF Init, AgreeInv
<1>2. TypeOK /\ AgreeInv /\ [Next]_vars => AgreeInv'
  BY AgreeStep
<1>3. AgreeInv => RuntimeMatchesSupervisor
  BY DEF AgreeInv, RuntimeMatchesSupervisor
<1>. QED
  BY <1>1, <1>2, <1>3, TypeCorrect, PTL DEF Spec

-----------------------------------------------------------------------------
(***************************************************************************)
(* The selector.  SwitchRuntime switches to what Selector.Select returns;  *)
(* the selector keeps no state of the switch, so its specification speaks  *)
(* of variables of its own.                                                *)
(***************************************************************************)

\* A truncated quotient reaches a whole threshold exactly when the fraction does.
LEMMA QuotientBound ==
  ASSUME NEW a \in Nat, NEW n \in Nat, n > 0, NEW k \in Nat
  PROVE  a \div n >= k <=> a >= k * n
<1>. DEFINE q == a \div n
<1>1. q \in Nat /\ n * q <= a /\ a < n * q + n
  OBVIOUS
<1>. HIDE DEF q
<1>2. CASE q >= k
  <2>1. n * q >= n * k
    BY <1>1, <1>2
  <2>. QED
    BY <1>1, <1>2, <2>1 DEF q
<1>3. CASE q < k
  <2>1. n * (q + 1) <= n * k
    BY <1>1, <1>3
  <2>2. n * (q + 1) = n * q + n
    BY <1>1
  <2>. QED
    BY <1>1, <1>3, <2>1, <2>2 DEF q
<1>. QED
  BY <1>1, <1>2, <1>3

\* The counts of a round: nothing but naturals, and whether UDP got through.
Counts == [failures : Nat, successes : Nat, totalRTT : Nat, udp : BOOLEAN]

\* What a round counts, and that a protocol is selected only for signals in full.
SelectionInv ==
    /\ link \in LinkClasses
    /\ round \in Counts
    /\ selected # "" => signals \in Signals /\ selected = Select(signals)

\* The signals of a round, and when they call it risky.
LEMMA ProbeSignals ==
  ASSUME NEW l \in LinkClasses, NEW r \in Counts, Probed(r) > 0
  PROVE  /\ SignalsFromProbeResults(l, r) \in Signals
         /\ SignalsFromProbeResults(l, r).qos
              <=> \/ 10 * r.failures >= Probed(r)
                  \/ r.successes > 0 /\ r.totalRTT >= 250 * r.successes
<1>. DEFINE rtt == IF r.successes > 0 THEN r.totalRTT \div r.successes ELSE 0
            loss == (r.failures * 1000) \div Probed(r)
            rates == [p \in Transports |-> "unknown"]
            s == [link |-> l, udp |-> r.udp, qos |-> loss >= 100 \/ rtt >= 250, dpi |-> FALSE,
                  rates |-> rates, valid |-> TRUE]
<1>1. /\ r.failures \in Nat /\ r.successes \in Nat /\ r.totalRTT \in Nat /\ r.udp \in BOOLEAN
      /\ Probed(r) \in Nat
  BY DEF Counts, Probed
<1>2. s = SignalsFromProbeResults(l, r)
  BY DEF SignalsFromProbeResults
<1>3. loss >= 100 <=> 10 * r.failures >= Probed(r)
  <2>1. loss >= 100 <=> r.failures * 1000 >= 100 * Probed(r)
    BY <1>1, QuotientBound
  <2>. QED
    BY <1>1, <2>1
<1>4. rtt >= 250 <=> r.successes > 0 /\ r.totalRTT >= 250 * r.successes
  BY <1>1, QuotientBound
<1>5. rates \in [Transports -> Rates]
  BY DEF Rates
<1>6. s.qos <=> loss >= 100 \/ rtt >= 250
  OBVIOUS
<1>7. s \in Signals
  <2>. HIDE DEF rates, loss, rtt
  <2>. QED
    BY <1>1, <1>5 DEF Signals
<1>8. s.qos <=> \/ 10 * r.failures >= Probed(r)
                \/ r.successes > 0 /\ r.totalRTT >= 250 * r.successes
  <2>. HIDE DEF rtt, loss, s
  <2>. QED
    BY <1>3, <1>4, <1>6, Zenon
<1>. HIDE DEF s
<1>. QED
  BY <1>2, <1>7, <1>8, Zenon

\* The fallbacks of a protocol are all the other ones.
LEMMA FallbackFacts ==
  ASSUME NEW p \in Transports
  PROVE  /\ DOMAIN fallbacks(p) = 1 .. 3
         /\ \A i \in 1 .. 3 : fallbacks(p)[i] \in Transports
         /\ \A o \in Transports \ {p} : \E i \in 1 .. 3 : o = fallbacks(p)[i]
<1>. DEFINE Listed(f) == /\ DOMAIN f = 1 .. 3
                         /\ \A i \in 1 .. 3 : f[i] \in Transports
                         /\ \A o \in Transports \ {p} : \E i \in 1 .. 3 : o = f[i]
<1>1. CASE p = "native-wireguard"
  <2>. DEFINE f == <<"hysteria2", "reality", "tuic">>
  <2>1. f[1] = "hysteria2" /\ f[2] = "reality" /\ f[3] = "tuic" /\ DOMAIN f = 1 .. 3
    OBVIOUS
  <2>2. Listed(f)
    BY <1>1, <2>1 DEF Transports
  <2>. QED
    BY <1>1, <2>2 DEF fallbacks
<1>2. CASE p = "hysteria2"
  <2>. DEFINE f == <<"reality", "tuic", "native-wireguard">>
  <2>1. f[1] = "reality" /\ f[2] = "tuic" /\ f[3] = "native-wireguard" /\ DOMAIN f = 1 .. 3
    OBVIOUS
  <2>2. Listed(f)
    BY <1>2, <2>1 DEF Transports
  <2>. QED
    BY <1>2, <2>2 DEF fallbacks
<1>3. CASE p = "reality"
  <2>. DEFINE f == <<"hysteria2", "tuic", "native-wireguard">>
  <2>1. f[1] = "hysteria2" /\ f[2] = "tuic" /\ f[3] = "native-wireguard" /\ DOMAIN f = 1 .. 3
    OBVIOUS
  <2>2. Listed(f)
    BY <1>3, <2>1 DEF Transports
  <2>. QED
    BY <1>3, <2>2 DEF fallbacks
<1>4. CASE p = "tuic"
  <2>. DEFINE f == <<"hysteria2", "reality", "native-wireguard">>
  <2>1. f[1] = "hysteria2" /\ f[2] = "reality" /\ f[3] = "native-wireguard" /\ DOMAIN f = 1 .. 3
    OBVIOUS
  <2>2. Listed(f)
    BY <1>4, <2>1 DEF Transports
  <2>. QED
    BY <1>4, <2>2 DEF fallbacks
<1>. QED
  BY <1>1, <1>2, <1>3, <1>4 DEF Transports

\* A protocol known to fail is kept only when no protocol is known to succeed.
LEMMA FallbackSucceeds ==
  ASSUME NEW p \in Transports, NEW hs \in [Transports -> Rates]
  PROVE  LET c == applyHandshakeFallback(p, hs)
         IN  /\ c \in Transports
             /\ hs[c] = "low" => \A o \in Transports : hs[o] # "good"
<1>. DEFINE f == fallbacks(p)
            good == {i \in DOMAIN f : hs[f[i]] = "good"}
            c == applyHandshakeFallback(p, hs)
<1>1. /\ DOMAIN f = 1 .. 3
      /\ \A i \in 1 .. 3 : f[i] \in Transports
      /\ \A o \in Transports \ {p} : \E i \in 1 .. 3 : o = f[i]
  BY FallbackFacts
<1>2. c = IF hs[p] = "low" /\ good # {}
          THEN f[CHOOSE i \in good : \A j \in good : i <= j]
          ELSE p
  BY DEF applyHandshakeFallback
<1>. HIDE DEF f, c
<1>3. CASE hs[p] = "low" /\ good # {}
  <2>1. \E i \in good : \A j \in good : i <= j
    <3>1. CASE 1 \in good
      BY <1>1, <3>1
    <3>2. CASE 1 \notin good /\ 2 \in good
      BY <1>1, <3>2
    <3>3. CASE 1 \notin good /\ 2 \notin good
      BY <1>1, <1>3, <3>3
    <3>. QED
      BY <3>1, <3>2, <3>3
  <2>2. PICK i \in good : c = f[i]
    BY <1>2, <1>3, <2>1
  <2>. QED
    BY <1>1, <2>2 DEF c
<1>4. CASE hs[p] = "low" /\ good = {}
  <2>1. \A i \in 1 .. 3 : hs[f[i]] # "good"
    BY <1>1, <1>4
  <2>2. \A o \in Transports : hs[o] # "good"
    BY <1>1, <1>4, <2>1
  <2>. QED
    BY <1>2, <1>4, <2>2 DEF c
<1>5. CASE hs[p] # "low"
  BY <1>2, <1>5 DEF c
<1>. QED
  BY <1>3, <1>4, <1>5

LEMMA SelectionStep ==
  ASSUME SelectionInv, [SelectorNext]_selectorVars
  PROVE  SelectionInv'
<1>1. CASE Probe
  <2>1. UNCHANGED <<link, signals, selected>> /\ selected = ""
    BY <1>1 DEF Probe
  <2>2. round \in Counts
    BY DEF SelectionInv
  <2>3. round' \in Counts
    <3>1. /\ round = [failures |-> round.failures, successes |-> round.successes,
                      totalRTT |-> round.totalRTT, udp |-> round.udp]
          /\ round.failures \in Nat /\ round.successes \in Nat /\ round.totalRTT \in Nat
          /\ round.udp \in BOOLEAN
      BY <2>2 DEF Counts
    <3>2. CASE round' = [round EXCEPT !.failures = @ + 1]
      BY <3>1, <3>2 DEF Counts
    <3>3. ASSUME NEW rtt \in Rtts, NEW udp \in BOOLEAN,
                 round' = [round EXCEPT !.successes = @ + 1, !.totalRTT = @ + rtt,
                                        !.udp = @ \/ udp]
          PROVE  round' \in Counts
      <4>1. rtt \in Nat
        BY TargetsAssumption
      <4>2. (round.udp \/ udp) \in BOOLEAN
        OBVIOUS
      <4>. DEFINE b == round.udp \/ udp
      <4>3. round' = [failures |-> round.failures, successes |-> round.successes + 1,
                      totalRTT |-> round.totalRTT + rtt, udp |-> b]
        <5>. HIDE DEF b
        <5>1. round' = [round EXCEPT !.successes = @ + 1, !.totalRTT = @ + rtt, !.udp = b]
          BY <3>3 DEF b
        <5>. QED
          BY <3>1, <5>1
      <4>. HIDE DEF b
      <4>4. b \in BOOLEAN
        BY <4>2 DEF b
      <4>. QED
        BY <3>1, <4>1, <4>3, <4>4 DEF Counts
    <3>. QED
      BY <1>1, <3>2, <3>3, Zenon DEF Probe
  <2>. QED
    BY <2>1, <2>3 DEF SelectionInv
<1>2. CASE Handle
  <2>. DEFINE s == SignalsFromProbeResults(link, round)
  <2>1. /\ signals' = s /\ selected' = Select(s)
        /\ UNCHANGED <<link, round>> /\ Probed(round) > 0
    BY <1>2, Zenon DEF Handle, Evaluate
  <2>2. s \in Signals
    BY <2>1, ProbeSignals DEF SelectionInv
  <2>. HIDE DEF s
  <2>. QED
    BY <2>1, <2>2 DEF SelectionInv
<1>3. CASE EvaluateDirect
  <2>1. PICK s \in Signals : signals' = s /\ selected' = Select(s)
    BY <1>3 DEF EvaluateDirect, Evaluate
  <2>. QED
    BY <1>3, <2>1 DEF SelectionInv, EvaluateDirect
<1>4. CASE NextRound
  BY <1>4 DEF SelectionInv, NextRound, NoResults, Counts
<1>5. CASE UNCHANGED selectorVars
  BY <1>5 DEF SelectionInv, selectorVars
<1>. QED
  BY <1>1, <1>2, <1>3, <1>4, <1>5 DEF SelectorNext

LEMMA SelectionInit == SelectorInit => SelectionInv
<1>1. NoResults \in Counts
  BY DEF NoResults, Counts
<1>. QED
  BY <1>1 DEF SelectorInit, SelectionInv

\* For any number of targets and any round-trip times: the truncating divisions of
\* SignalsFromProbeResults call a round risky exactly when exact arithmetic does.
THEOREM ThresholdsAreExact == SelectorSpec => []SignalsAreExact
<1>1. SelectionInv => SignalsAreExact
  BY ProbeSignals DEF SelectionInv, SignalsAreExact
<1>2. SelectionInv /\ [SelectorNext]_selectorVars => SelectionInv'
  BY SelectionStep
<1>. QED
  BY <1>1, <1>2, SelectionInit, PTL DEF SelectorSpec

\* Whatever signals Evaluate is given, Select returns a protocol whose handshakes are
\* known to fail only if none is known to succeed (applyHandshakeFallback).
THEOREM FallbackIsComplete == SelectorSpec => []NoKnownBadSelected
<1>1. ASSUME SelectionInv, selected # "", signals.valid, signals.rates[selected] = "low"
      PROVE  \A p \in Transports : signals.rates[p] # "good"
  <2>1. /\ signals \in Signals /\ selected = Select(signals)
        /\ signals.rates \in [Transports -> Rates]
    BY <1>1 DEF SelectionInv, Signals
  <2>2. PICK p \in Transports :
            Select(signals) = applyHandshakeFallback(p, signals.rates)
    BY <1>1 DEF Select, Transports
  <2>. QED
    BY <1>1, <2>1, <2>2, FallbackSucceeds
<1>2. SelectionInv => NoKnownBadSelected
  BY <1>1 DEF NoKnownBadSelected
<1>3. SelectionInv /\ [SelectorNext]_selectorVars => SelectionInv'
  BY SelectionStep
<1>. QED
  BY <1>2, <1>3, SelectionInit, PTL DEF SelectorSpec

=============================================================================
