------------------------- MODULE TransportSelector -------------------------
(***************************************************************************)
(* From probe results to a protocol: the probe loop of internal/transport  *)
(* (RunProbeLoop, SignalsFromProbeResults) and Selector.Select.  A round   *)
(* probes every target once and hands the signals to the selector; other   *)
(* callers of Service.Evaluate bring signals of their own, the handshake   *)
(* success rates among them.  Evaluations are serialised by Service.mu and *)
(* share no state with a round under way, so one that falls into a round   *)
(* is modelled between two rounds.                                         *)
(***************************************************************************)
EXTENDS Naturals, Sequences

CONSTANTS MaxTargets,   \* bound: probe targets of a round
          Rtts          \* round-trip times of a successful probe, in milliseconds

ASSUME TargetsAssumption == MaxTargets \in Nat \ {0} /\ Rtts \subseteq Nat

Transports == {"native-wireguard", "hysteria2", "reality", "tuic"}

LinkClasses == {"unknown", "dedicated", "public", "mobile"}

\* A handshake success rate: not known, below or at least MinHandshakeSuccessRate.
Rates == {"unknown", "low", "good"}

\* What Select looks at.  valid is the outcome of Signals.Validate.
Signals == [link : LinkClasses, udp : BOOLEAN, qos : BOOLEAN, dpi : BOOLEAN,
            rates : [Transports -> Rates], valid : BOOLEAN]

\* The counters of a round in which nothing has been probed yet.
NoResults == [failures |-> 0, successes |-> 0, totalRTT |-> 0, udp |-> FALSE]

VARIABLES link,      \* the configured link class
          round,     \* what SignalsFromProbeResults counts in the round's results
          signals,   \* the signals of the last evaluation, <<>> while a round runs
          selected   \* what Select returned for them, "" while a round runs

selectorVars == <<link, round, signals, selected>>

-----------------------------------------------------------------------------

Probed(r) == r.failures + r.successes

\* Mutant of SignalsFromProbeResults: the loss is compared in percent.
SignalsInPercent(l, r) ==
    LET rtt  == IF r.successes > 0 THEN r.totalRTT \div r.successes ELSE 0
        loss == (r.failures * 100) \div Probed(r)
    IN  [link |-> l, udp |-> r.udp, qos |-> loss >= 100 \/ rtt >= 250, dpi |-> FALSE,
         rates |-> [p \in Transports |-> "unknown"], valid |-> TRUE]

\* Integer arithmetic as in the code: the mean is taken over the successes, the
\* loss in per mille over all results.  Probes say nothing of DPI and handshakes.
SignalsFromProbeResults(l, r) ==
    LET rtt  == IF r.successes > 0 THEN r.totalRTT \div r.successes ELSE 0
        loss == (r.failures * 1000) \div Probed(r)
    IN  [link |-> l, udp |-> r.udp, qos |-> loss >= 100 \/ rtt >= 250, dpi |-> FALSE,
         rates |-> [p \in Transports |-> "unknown"], valid |-> TRUE]

\* Mutant of fallbacks: TUIC is forgotten.
fallbacksWithoutTuic(p) ==
    CASE p = "native-wireguard" -> <<"hysteria2", "reality">>
      [] p = "hysteria2" -> <<"reality", "native-wireguard">>
      [] p = "reality" -> <<"hysteria2", "native-wireguard">>
      [] p = "tuic" -> <<"hysteria2", "reality", "native-wireguard">>

fallbacks(p) ==
    CASE p = "native-wireguard" -> <<"hysteria2", "reality", "tuic">>
      [] p = "hysteria2" -> <<"reality", "tuic", "native-wireguard">>
      [] p = "reality" -> <<"hysteria2", "tuic", "native-wireguard">>
      [] p = "tuic" -> <<"hysteria2", "reality", "native-wireguard">>

\* A protocol whose handshakes are known to fail gives way to the first fallback
\* whose handshakes are known to succeed, if there is one.
applyHandshakeFallback(p, hs) ==
    LET good == {i \in DOMAIN fallbacks(p) : hs[fallbacks(p)[i]] = "good"}
    IN  IF hs[p] = "low" /\ good # {}
        THEN fallbacks(p)[CHOOSE i \in good : \A j \in good : i <= j]
        ELSE p

Select(s) ==
    LET preferred == IF ~s.udp \/ s.dpi \/ s.qos THEN "reality"
                     ELSE IF s.link = "dedicated" THEN "native-wireguard"
                     ELSE "hysteria2"
    IN  IF s.valid THEN applyHandshakeFallback(preferred, s.rates) ELSE "hysteria2"

-----------------------------------------------------------------------------

SelectorInit ==
    /\ link \in LinkClasses
    /\ round = NoResults
    /\ signals = <<>>
    /\ selected = ""

\* prober.Probe of the next target: it fails, or succeeds over TCP or UDP.
Probe ==
    /\ selected = ""
    /\ Probed(round) < MaxTargets
    /\ \/ round' = [round EXCEPT !.failures = @ + 1]
       \/ \E rtt \in Rtts, udp \in BOOLEAN :
             round' = [round EXCEPT !.successes = @ + 1, !.totalRTT = @ + rtt,
                                    !.udp = @ \/ udp]
    /\ UNCHANGED <<link, signals, selected>>

\* Service.Evaluate and EvaluateAndApply up to the selection.
Evaluate(s) ==
    /\ signals' = s
    /\ selected' = Select(s)

\* All targets are probed: the handler evaluates the signals.
Handle ==
    /\ selected = ""
    /\ Probed(round) > 0
    /\ Evaluate(SignalsFromProbeResults(link, round))
    /\ UNCHANGED <<link, round>>

\* A caller other than the probe loop.
EvaluateDirect ==
    /\ selected = ""
    /\ round = NoResults
    /\ \E s \in Signals : Evaluate(s)
    /\ UNCHANGED <<link, round>>

\* The ticker starts another round.
NextRound ==
    /\ selected # ""
    /\ round' = NoResults
    /\ signals' = <<>>
    /\ selected' = ""
    /\ UNCHANGED link

SelectorNext == Probe \/ Handle \/ EvaluateDirect \/ NextRound

SelectorSpec == SelectorInit /\ [][SelectorNext]_selectorVars

-----------------------------------------------------------------------------
(***************************************************************************)
(* Properties.                                                             *)
(***************************************************************************)

\* The divisions that truncate lose nothing at the thresholds: the signals of a
\* round call it risky exactly when a tenth of its probes is lost or the mean
\* round-trip time of the successful ones is at least 250 ms, in exact arithmetic.
SignalsAreExact ==
    Probed(round) > 0 =>
        (SignalsFromProbeResults(link, round).qos
            <=> \/ 10 * round.failures >= Probed(round)
                \/ /\ round.successes > 0
                   /\ round.totalRTT >= 250 * round.successes)

\* A protocol whose handshakes are known to fail is selected only if no protocol
\* at all is known to succeed: the fallback lists leave nothing out.
NoKnownBadSelected ==
    selected # "" /\ signals.valid /\ signals.rates[selected] = "low" =>
        \A p \in Transports : signals.rates[p] # "good"

=============================================================================
