------------------------ MODULE TelemetryQueueProofs ------------------------
(***************************************************************************)
(* Theorems about TelemetryQueue, for every capacity, backoff and bound.   *)
(***************************************************************************)
EXTENDS TelemetryQueue, WellFoundedInduction, TLAPS

Ascending(s) == \A i, j \in DOMAIN s : i < j => s[i] < s[j]

-----------------------------------------------------------------------------
(***************************************************************************)
(* Sequences.                                                              *)
(***************************************************************************)

LEMMA RangeAppend ==
    ASSUME NEW s \in Seq(Nat), NEW e \in Nat
    PROVE  Range(Append(s, e)) = Range(s) \cup {e}
<1>1. Range(Append(s, e)) \subseteq Range(s) \cup {e}
  BY DEF Range
<1>2. ASSUME NEW i \in DOMAIN s PROVE s[i] \in Range(Append(s, e))
  <2>1. i \in DOMAIN Append(s, e) /\ Append(s, e)[i] = s[i]
    OBVIOUS
  <2>. QED
    BY <2>1 DEF Range
<1>3. e \in Range(Append(s, e))
  <2>1. Len(s) + 1 \in DOMAIN Append(s, e) /\ Append(s, e)[Len(s) + 1] = e
    OBVIOUS
  <2>. QED
    BY <2>1 DEF Range
<1>. QED
  BY <1>1, <1>2, <1>3 DEF Range

\* A suffix: its elements are those from position k on, in the same order.
LEMMA SuffixFacts ==
    ASSUME NEW s \in Seq(Nat), NEW k \in 1 .. (Len(s) + 1)
    PROVE  LET t == SubSeq(s, k, Len(s)) IN
           /\ t \in Seq(Nat)
           /\ Len(t) = Len(s) - k + 1
           /\ Range(t) \subseteq Range(s)
           /\ \A i \in k .. Len(s) : s[i] \in Range(t)
           /\ \A r \in Range(t) : \E i \in k .. Len(s) : r = s[i]
           /\ Ascending(s) => Ascending(t)
<1>0. PICK t : t = SubSeq(s, k, Len(s))
  OBVIOUS
<1>1. /\ t \in Seq(Nat)
      /\ Len(t) = Len(s) - k + 1
      /\ \A i \in 1 .. (Len(s) - k + 1) : t[i] = s[k + i - 1]
  BY <1>0
<1>d. /\ DOMAIN t = 1 .. (Len(s) - k + 1) /\ DOMAIN s = 1 .. Len(s)
      /\ Len(s) \in Nat
      /\ \A i \in DOMAIN t : k + i - 1 \in DOMAIN s /\ t[i] = s[k + i - 1]
  <2>1. /\ DOMAIN t = 1 .. (Len(s) - k + 1) /\ DOMAIN s = 1 .. Len(s)
        /\ Len(s) \in Nat
    BY <1>1
  <2>2. ASSUME NEW i \in 1 .. (Len(s) - k + 1)
        PROVE  k + i - 1 \in 1 .. Len(s) /\ t[i] = s[k + i - 1]
    BY <1>1, <2>1
  <2>. QED
    BY <2>1, <2>2
<1>2. Range(t) \subseteq Range(s)
  BY <1>d DEF Range
<1>3. ASSUME NEW i \in k .. Len(s) PROVE s[i] \in Range(t)
  <2>1. i - k + 1 \in DOMAIN t /\ t[i - k + 1] = s[i]
    <3>1. i - k + 1 \in 1 .. (Len(s) - k + 1) /\ k + (i - k + 1) - 1 = i
      BY <1>d
    <3>. QED
      BY <3>1, <1>d
  <2>. QED
    BY <2>1 DEF Range
<1>4. ASSUME NEW r \in Range(t) PROVE \E i \in k .. Len(s) : r = s[i]
  <2>1. PICK i \in DOMAIN t : r = t[i]
    BY DEF Range
  <2>2. k + i - 1 \in k .. Len(s)
    BY <1>d
  <2>. QED
    BY <1>d, <2>1, <2>2
<1>5. Ascending(s) => Ascending(t)
  <2>. SUFFICES ASSUME Ascending(s), NEW i \in DOMAIN t, NEW j \in DOMAIN t, i < j
                PROVE  t[i] < t[j]
    BY DEF Ascending
  <2>1. k + i - 1 \in DOMAIN s /\ k + j - 1 \in DOMAIN s /\ k + i - 1 < k + j - 1
    BY <1>d
  <2>. QED
    BY <1>d, <2>1 DEF Ascending
<1>. QED
  BY <1>0, <1>1, <1>2, <1>3, <1>4, <1>5

LEMMA NewestFacts ==
    ASSUME NEW s \in Seq(Nat)
    PROVE  /\ Newest(s) \in Seq(Nat)
           /\ Len(Newest(s)) <= Capacity
           /\ Range(Newest(s)) \subseteq Range(s)
           /\ Ascending(s) => Ascending(Newest(s))
<1>1. CASE Len(s) > Capacity
  <2>1. Len(s) - Capacity + 1 \in 1 .. (Len(s) + 1)
    BY <1>1, QueueAssumption
  <2>2. Len(s) - (Len(s) - Capacity + 1) + 1 <= Capacity
    BY QueueAssumption
  <2>. QED
    BY <1>1, <2>1, <2>2, SuffixFacts DEF Newest
<1>2. CASE ~(Len(s) > Capacity)
  BY <1>2, QueueAssumption DEF Newest
<1>. QED
  BY <1>1, <1>2

-----------------------------------------------------------------------------
(***************************************************************************)
(* Type correctness.                                                       *)
(***************************************************************************)

LEMMA TypeInit == Init => TypeOK
BY QueueAssumption, BackoffAssumption DEF Init, TypeOK, PcValues

LEMMA RoundEndsType ==
    ASSUME TypeOK, RoundEnds(TRUE) \/ RoundEnds(FALSE)
    PROVE  /\ pc' = "wait" /\ pending' = <<>> /\ index' = 1
           /\ backoff' \in InitialBackoff .. MaxBackoff
           /\ delay' \in 0 .. (MaxBackoff + Interval)
           /\ failures' \in Nat
BY BackoffAssumption DEF RoundEnds, nextSyncBackoff, TypeOK

LEMMA SaveType ==
    ASSUME TypeOK, NEW s \in Seq(Nat), Save(s)
    PROVE  queue' \in Seq(Nat) /\ queued' \subseteq Nat /\ trimmed' \subseteq Nat
<1>1. Newest(s) \in Seq(Nat) /\ Range(Newest(s)) \subseteq Range(s)
  BY NewestFacts
<1>2. Range(s) \subseteq Nat
  BY DEF Range
<1>. QED
  BY <1>1, <1>2 DEF Save, TypeOK

\* A round that ends without touching the file.
LEMMA FailedRoundType ==
    ASSUME TypeOK, RoundEnds(FALSE), Fault, created' \in {created, created + 1},
           UNCHANGED <<queue, received, late, queued, trimmed>>,
           doubts' \in {doubts, doubts + 1}
    PROVE  TypeOK'
<1>1. /\ pc' = "wait" /\ pending' = <<>> /\ index' = 1
      /\ backoff' \in InitialBackoff .. MaxBackoff
      /\ delay' \in 0 .. (MaxBackoff + Interval)
      /\ failures' \in Nat
  BY RoundEndsType
<1>2. created' \in 0 .. MaxReports /\ faults' \in 0 .. MaxFaults
  BY QueueAssumption DEF TypeOK, Fault
<1>. QED
  BY <1>1, <1>2 DEF TypeOK, PcValues

LEMMA TypeStep == TypeOK /\ [Next]_vars => TypeOK'
<1>. SUFFICES ASSUME TypeOK, [Next]_vars PROVE TypeOK'
  OBVIOUS
<1>1. CASE NextRound
  BY <1>1 DEF NextRound, TypeOK, PcValues, network, history
<1>2. CASE SyncFails \/ LoadFails \/ SaveFails
  <2>1. /\ RoundEnds(FALSE) /\ Fault /\ created' \in {created, created + 1}
        /\ UNCHANGED <<queue, received, late, queued, trimmed>>
        /\ doubts' \in {doubts, doubts + 1}
    BY <1>2 DEF SyncFails, LoadFails, SaveFails, network, history
  <2>. QED
    BY <2>1, FailedRoundType
<1>3. CASE Load
  BY <1>3, QueueAssumption DEF Load, TypeOK, PcValues, network, history
<1>5. CASE Push
  <2>1. pending[index] \in Nat
    BY <1>5 DEF Push, TypeOK
  <2>2. received' \in Seq(Nat)
    BY <1>5, <2>1 DEF Push, TypeOK
  <2>3. index' \in Nat \ {0} /\ pc' \in {"push", "clear"} /\ (pc' = "push" => index' <= Len(pending))
    BY <1>5 DEF Push, TypeOK
  <2>4. UNCHANGED <<queue, pending, backoff, delay, late, created, faults, queued, trimmed, doubts, failures>>
    BY <1>5 DEF Push, history
  <2>. QED
    BY <2>2, <2>3, <2>4 DEF TypeOK, PcValues
<1>6. CASE PushRefused
  BY <1>6, QueueAssumption DEF PushRefused, Fault, TypeOK, PcValues, network, history
<1>7. CASE PushTimesOut
  <2>1. pending[index] \in Nat
    BY <1>7 DEF PushTimesOut, TypeOK
  <2>2. late' \subseteq Nat \X Nat
    BY <1>7, <2>1, QueueAssumption DEF PushTimesOut, TypeOK
  <2>3. faults' \in 0 .. MaxFaults
    BY <1>7, QueueAssumption DEF PushTimesOut, TypeOK, Fault
  <2>. QED
    BY <1>7, <2>2, <2>3 DEF PushTimesOut, TypeOK, PcValues
<1>8. CASE LateArrival
  BY <1>8 DEF LateArrival, loop, history, TypeOK
<1>9. CASE Keep \/ Clear
  <2>1. Unpushed \in Seq(Nat) /\ <<>> \in Seq(Nat)
    BY DEF Unpushed, TypeOK
  <2>2. queue' \in Seq(Nat) /\ queued' \subseteq Nat /\ trimmed' \subseteq Nat
    BY <1>9, <2>1, SaveType DEF Keep, Clear
  <2>3. RoundEnds(TRUE) \/ RoundEnds(FALSE)
    BY <1>9 DEF Keep, Clear
  <2>4. /\ pc' = "wait" /\ pending' = <<>> /\ index' = 1
        /\ backoff' \in InitialBackoff .. MaxBackoff
        /\ delay' \in 0 .. (MaxBackoff + Interval)
        /\ failures' \in Nat
    BY <2>3, RoundEndsType
  <2>5. UNCHANGED <<received, late, created, faults, doubts>>
    BY <1>9 DEF Keep, Clear, network
  <2>. QED
    BY <2>2, <2>4, <2>5 DEF TypeOK, PcValues
<1>12. CASE Crash
  BY <1>12, QueueAssumption, BackoffAssumption
     DEF Crash, Fault, TypeOK, PcValues, network
<1>13. CASE UNCHANGED vars
  BY <1>13 DEF vars, loop, network, history, TypeOK
<1>. QED
  BY <1>1, <1>2, <1>3, <1>5, <1>6, <1>7, <1>8, <1>9, <1>12, <1>13 DEF Next

\* Every variable of the telemetry path keeps its type, the backoff its range.
THEOREM TypeCorrect == Spec => []TypeOK
<1>1. Spec => Init /\ [][Next]_vars
  BY DEF Spec
<1>. QED
  BY <1>1, TypeInit, TypeStep, PTL

-----------------------------------------------------------------------------
(***************************************************************************)
(* The queue file.  The inductive invariant ties the file to the round     *)
(* under way: the round works on everything the file holds, in order, and  *)
(* what it has passed has been recorded.                                   *)
(***************************************************************************)

RoundKnowsFile ==
    pc \in {"push", "keep", "clear"} =>
        /\ index <= Len(pending)
        /\ Ascending(pending)
        /\ Range(queue) \subseteq Range(pending)
        /\ \A i \in 1 .. (index - 1) : pending[i] \in Range(received)
        /\ \A i \in DOMAIN pending : pending[i] <= created
        /\ pc = "clear" => Range(pending) \subseteq Range(received)

FileIsOld == \A i \in DOMAIN queue : queue[i] <= created

QueueInv == TypeOK /\ QueueOrdered /\ QueuedNotLost /\ FileIsOld /\ RoundKnowsFile

LEMMA QueueInit == Init => QueueInv
<1>. SUFFICES ASSUME Init PROVE QueueInv
  OBVIOUS
<1>1. TypeOK
  BY TypeInit
<1>2. QueueOrdered /\ FileIsOld
  BY QueueAssumption DEF Init, QueueOrdered, FileIsOld
<1>3. QueuedNotLost /\ RoundKnowsFile
  BY DEF Init, QueuedNotLost, RoundKnowsFile
<1>. QED
  BY <1>1, <1>2, <1>3 DEF QueueInv

\* A step that leaves the file alone and ends or has no round.
LEMMA NoRoundStep ==
    ASSUME QueueInv, queue' = queue, received' = received, queued' = queued,
           trimmed' = trimmed, created' \in {created, created + 1},
           pc' \notin {"push", "keep", "clear"}
    PROVE  QueueOrdered' /\ QueuedNotLost' /\ FileIsOld' /\ RoundKnowsFile'
BY DEF QueueInv, QueueOrdered, QueuedNotLost, FileIsOld, RoundKnowsFile, TypeOK

\* A step that records a report and does not touch the file.
LEMMA RecordStep ==
    ASSUME QueueInv, NEW r \in Nat, received' = Append(received, r),
           queue' = queue, queued' = queued, trimmed' = trimmed, created' = created
    PROVE  /\ QueueOrdered' /\ QueuedNotLost' /\ FileIsOld'
           /\ Range(received') = Range(received) \cup {r}
<1>1. Range(received') = Range(received) \cup {r}
  BY RangeAppend DEF QueueInv, TypeOK
<1>. QED
  BY <1>1 DEF QueueInv, QueueOrdered, QueuedNotLost, FileIsOld

\* Save of an ascending sequence of known reports that covers what the file holds
\* and has not been recorded.
LEMMA SaveStep ==
    ASSUME QueueInv, NEW s \in Seq(Nat), Save(s), Ascending(s),
           Range(queue) \subseteq Range(s) \cup Range(received),
           \A i \in DOMAIN s : s[i] <= created,
           received' = received, created' = created, pc' = "wait"
    PROVE  QueueOrdered' /\ QueuedNotLost' /\ FileIsOld' /\ RoundKnowsFile'
<1>0. PICK n : n = Newest(s)
  OBVIOUS
<1>1. /\ n \in Seq(Nat) /\ Len(n) <= Capacity
      /\ Range(n) \subseteq Range(s) /\ Ascending(n)
  BY <1>0, NewestFacts
<1>2. /\ queue' = n
      /\ queued' = queued \cup Range(n)
      /\ trimmed' = trimmed \cup (Range(s) \ Range(n))
  BY <1>0 DEF Save
<1>3. QueueOrdered'
  BY <1>1, <1>2 DEF QueueOrdered, Ascending
<1>4. QueuedNotLost'
  BY <1>1, <1>2 DEF QueuedNotLost, QueueInv
<1>5. FileIsOld'
  BY <1>1, <1>2 DEF FileIsOld, Range
<1>. QED
  BY <1>3, <1>4, <1>5 DEF RoundKnowsFile

LEMMA QueueStep == QueueInv /\ [Next]_vars => QueueInv'
<1>. SUFFICES ASSUME QueueInv, [Next]_vars PROVE QueueInv'
  OBVIOUS
<1>. DEFINE Goal == QueueOrdered' /\ QueuedNotLost' /\ FileIsOld' /\ RoundKnowsFile'
<1>0. TypeOK /\ TypeOK'
  BY TypeStep DEF QueueInv
<1>1. CASE NextRound \/ SyncFails \/ LoadFails \/ SaveFails \/ Crash
  <2>1. /\ queue' = queue /\ received' = received /\ queued' = queued
        /\ trimmed' = trimmed /\ created' \in {created, created + 1}
        /\ pc' \notin {"push", "keep", "clear"}
    BY <1>1 DEF NextRound, SyncFails, LoadFails, SaveFails, Crash, RoundEnds, network, history
  <2>. QED
    BY <1>0, <2>1, NoRoundStep DEF QueueInv
<1>2. CASE Load
  <2>1. /\ queue' = queue /\ received' = received /\ queued' = queued /\ trimmed' = trimmed
        /\ pending' = Append(queue, created + 1) /\ index' = 1 /\ pc' = "push"
        /\ created' = created + 1
    BY <1>2 DEF Load, network, history
  <2>0. queue \in Seq(Nat) /\ created \in Nat /\ FileIsOld /\ QueueOrdered
    BY <1>0 DEF QueueInv, TypeOK
  <2>n. \A i \in DOMAIN queue : queue[i] \in Nat
    BY <2>0
  <2>2. QueueOrdered' /\ QueuedNotLost' /\ FileIsOld'
    BY <2>0, <2>n, <2>1 DEF QueueInv, QueueOrdered, QueuedNotLost, FileIsOld
  <2>3. Range(pending') = Range(queue) \cup {created + 1}
    BY <1>0, <2>1, RangeAppend DEF TypeOK
  <2>d. /\ DOMAIN pending' = 1 .. (Len(queue) + 1) /\ DOMAIN queue = 1 .. Len(queue)
        /\ \A i \in 1 .. Len(queue) : pending'[i] = queue[i]
        /\ pending'[Len(queue) + 1] = created + 1
        /\ Len(queue) \in Nat
    BY <2>0, <2>1
  <2>4. Ascending(pending') /\ \A i \in DOMAIN pending' : pending'[i] <= created'
    BY <2>0, <2>n, <2>1, <2>d DEF Ascending, QueueOrdered, FileIsOld
  <2>5. index' <= Len(pending')
    BY <1>0, <2>1 DEF TypeOK
  <2>6. RoundKnowsFile'
    <3>1. \A i \in 1 .. (index' - 1) : pending'[i] \in Range(received')
      BY <2>1
    <3>2. Range(queue') \subseteq Range(pending') /\ pc' # "clear"
      BY <2>1, <2>3
    <3>. QED
      BY <3>1, <3>2, <2>4, <2>5 DEF RoundKnowsFile
  <2>. QED
    BY <1>0, <2>2, <2>6 DEF QueueInv
<1>3. CASE Push
  <2>1. /\ received' = Append(received, pending[index]) /\ pending' = pending
        /\ queue' = queue /\ queued' = queued /\ trimmed' = trimmed /\ created' = created
        /\ pc = "push"
        /\ \/ index < Len(pending) /\ index' = index + 1 /\ pc' = "push"
           \/ ~(index < Len(pending)) /\ index' = index /\ pc' = "clear"
    BY <1>3 DEF Push, history
  <2>2. index \in 1 .. Len(pending) /\ pending[index] \in Nat
    BY <1>0, <2>1 DEF TypeOK
  <2>3. /\ QueueOrdered' /\ QueuedNotLost' /\ FileIsOld'
        /\ Range(received') = Range(received) \cup {pending[index]}
    BY <2>1, <2>2, RecordStep
  <2>4. /\ Ascending(pending) /\ Range(queue) \subseteq Range(pending)
        /\ \A i \in DOMAIN pending : pending[i] <= created
        /\ \A i \in 1 .. (index - 1) : pending[i] \in Range(received)
    BY <2>1 DEF QueueInv, RoundKnowsFile
  <2>5. \A i \in 1 .. index : pending[i] \in Range(received')
    BY <2>2, <2>3, <2>4
  <2>6. index' <= Len(pending') /\ \A i \in 1 .. (index' - 1) : pending'[i] \in Range(received')
    BY <2>1, <2>2, <2>5
  <2>7. pc' = "clear" => Range(pending') \subseteq Range(received')
    <3>1. DOMAIN pending = 1 .. Len(pending)
      BY <1>0 DEF TypeOK
    <3>2. pc' = "clear" => index = Len(pending)
      BY <2>1, <2>2
    <3>. QED
      BY <2>1, <2>5, <3>1, <3>2 DEF Range
  <2>8. RoundKnowsFile'
    BY <2>1, <2>4, <2>6, <2>7 DEF RoundKnowsFile
  <2>. QED
    BY <1>0, <2>3, <2>8 DEF QueueInv
<1>4. CASE PushRefused \/ PushTimesOut
  <2>1. /\ queue' = queue /\ received' = received /\ queued' = queued /\ trimmed' = trimmed
        /\ pending' = pending /\ index' = index /\ pc = "push" /\ pc' = "keep"
        /\ created' = created
    BY <1>4 DEF PushRefused, PushTimesOut, network, history
  <2>2. QueueOrdered' /\ QueuedNotLost' /\ FileIsOld'
    BY <2>1 DEF QueueInv, QueueOrdered, QueuedNotLost, FileIsOld
  <2>3. RoundKnowsFile'
    BY <2>1 DEF QueueInv, RoundKnowsFile
  <2>. QED
    BY <1>0, <2>2, <2>3 DEF QueueInv
<1>5. CASE LateArrival
  <2>1. PICK request \in late : received' = Append(received, request[1])
    BY <1>5 DEF LateArrival
  <2>2. request[1] \in Nat
    BY <1>0 DEF TypeOK
  <2>3. /\ queue' = queue /\ queued' = queued /\ trimmed' = trimmed /\ created' = created
        /\ pc' = pc /\ pending' = pending /\ index' = index
    BY <1>5 DEF LateArrival, loop, history
  <2>4. /\ QueueOrdered' /\ QueuedNotLost' /\ FileIsOld'
        /\ Range(received) \subseteq Range(received')
    BY <2>1, <2>2, <2>3, RecordStep
  <2>5. RoundKnowsFile'
    BY <2>3, <2>4 DEF QueueInv, RoundKnowsFile
  <2>. QED
    BY <1>0, <2>4, <2>5 DEF QueueInv
<1>6. CASE Keep
  <2>1. /\ Save(Unpushed) /\ received' = received /\ created' = created
        /\ pc = "keep" /\ pc' = "wait"
    BY <1>6 DEF Keep, RoundEnds, network
  <2>2. /\ index <= Len(pending)
        /\ Ascending(pending) /\ Range(queue) \subseteq Range(pending)
        /\ \A i \in DOMAIN pending : pending[i] <= created
        /\ \A i \in 1 .. (index - 1) : pending[i] \in Range(received)
    BY <2>1 DEF QueueInv, RoundKnowsFile
  <2>t. pending \in Seq(Nat) /\ index \in Nat \ {0}
    BY <1>0 DEF TypeOK
  <2>n. /\ index \in 1 .. (Len(pending) + 1) /\ pending \in Seq(Nat)
        /\ DOMAIN pending = 1 .. Len(pending) /\ Len(pending) \in Nat
    BY <2>t, <2>2
  <2>3. /\ Unpushed \in Seq(Nat) /\ Ascending(Unpushed)
        /\ Range(Unpushed) \subseteq Range(pending)
        /\ \A i \in index .. Len(pending) : pending[i] \in Range(Unpushed)
    BY <2>2, <2>n, SuffixFacts DEF Unpushed
  <2>4. Range(queue) \subseteq Range(Unpushed) \cup Range(received)
    <3>. SUFFICES ASSUME NEW i \in DOMAIN pending
                  PROVE  pending[i] \in Range(Unpushed) \cup Range(received)
      BY <2>2 DEF Range
    <3>1. i \in 1 .. (index - 1) \/ i \in index .. Len(pending)
      BY <2>n
    <3>. QED
      BY <3>1, <2>2, <2>3
  <2>5. \A i \in DOMAIN Unpushed : Unpushed[i] <= created
    <3>. SUFFICES ASSUME NEW r \in Range(Unpushed) PROVE r <= created
      BY DEF Range
    <3>1. PICK i \in DOMAIN pending : r = pending[i]
      BY <2>3 DEF Range
    <3>. QED
      BY <3>1, <2>2
  <2>. QED
    BY <1>0, <2>1, <2>3, <2>4, <2>5, SaveStep DEF QueueInv
<1>7. CASE Clear
  <2>1. /\ Save(<<>>) /\ received' = received /\ created' = created
        /\ pc = "clear" /\ pc' = "wait"
    BY <1>7 DEF Clear, RoundEnds, network
  <2>2. Range(queue) \subseteq Range(received)
    BY <2>1 DEF QueueInv, RoundKnowsFile
  <2>3. <<>> \in Seq(Nat) /\ Ascending(<<>>) /\ \A i \in DOMAIN <<>> : <<>>[i] <= created
    BY DEF Ascending
  <2>. QED
    BY <1>0, <2>1, <2>2, <2>3, SaveStep DEF QueueInv
<1>8. CASE UNCHANGED vars
  BY <1>0, <1>8 DEF vars, loop, network, history, QueueInv, QueueOrdered, QueuedNotLost,
                    FileIsOld, RoundKnowsFile
<1>. QED
  BY <1>1, <1>2, <1>3, <1>4, <1>5, <1>6, <1>7, <1>8 DEF Next

LEMMA QueueInvariant == Spec => []QueueInv
<1>1. Spec => Init /\ [][Next]_vars
  BY DEF Spec
<1>. QED
  BY <1>1, QueueInit, QueueStep, PTL

\* No report that was once in the queue file is lost to anything but the capacity
\* of the file, whatever fails and whenever the agent crashes.
THEOREM NothingQueuedIsLost == Spec => []QueuedNotLost
<1>1. QueueInv => QueuedNotLost
  BY DEF QueueInv
<1>. QED
  BY <1>1, QueueInvariant, PTL

\* The queue file stays within its capacity and in order, each report once.
THEOREM FileStaysOrdered == Spec => []QueueOrdered
<1>1. QueueInv => QueueOrdered
  BY DEF QueueInv
<1>. QED
  BY <1>1, QueueInvariant, PTL

-----------------------------------------------------------------------------
(***************************************************************************)
(* What the control plane records.                                         *)
(***************************************************************************)

InRound == pc \in {"push", "keep", "clear"}

LEMMA AppendFacts ==
    ASSUME NEW s \in Seq(Nat), NEW e \in Nat
    PROVE  /\ Len(s) \in Nat /\ DOMAIN s = 1 .. Len(s)
           /\ DOMAIN Append(s, e) = 1 .. (Len(s) + 1)
           /\ \A i \in 1 .. Len(s) : Append(s, e)[i] = s[i]
           /\ Append(s, e)[Len(s) + 1] = e
OBVIOUS

\* What a step that does not touch the round, or ends it without a Save, changes.
LEMMA RestStep ==
    ASSUME TypeOK, [Next]_vars, ~Load, ~Push, ~PushRefused, ~PushTimesOut, ~LateArrival,
           ~Keep, ~Clear
    PROVE  /\ UNCHANGED <<queue, received, late, queued, trimmed>>
           /\ created' \in {created, created + 1}
           /\ \/ ~InRound' /\ (~InRound \/ doubts' = doubts + 1)
              \/ UNCHANGED <<pc, pending, index, created>>
           /\ doubts' \in {doubts, doubts + 1}
<1>1. CASE NextRound \/ SyncFails \/ LoadFails
  BY <1>1 DEF NextRound, SyncFails, LoadFails, RoundEnds, InRound, network, history
<1>2. CASE SaveFails \/ Crash
  BY <1>2 DEF SaveFails, Crash, RoundEnds, InRound, network, history
<1>3. CASE UNCHANGED vars
  BY <1>3 DEF vars, loop, network, history
<1>. QED
  BY <1>1, <1>2, <1>3 DEF Next

\* A Save at the end of a round.
LEMMA SaveShape ==
    ASSUME QueueInv, Keep \/ Clear
    PROVE  /\ UNCHANGED <<received, late, created, doubts>>
           /\ ~InRound' /\ InRound
           /\ queued' = queued \cup Range(queue') /\ trimmed \subseteq trimmed'
           /\ Keep => pc = "keep" /\ \A r \in Range(queue') : \E i \in index .. Len(pending) : r = pending[i]
           /\ Clear => Range(queue') = {}
           /\ Range(queue') \subseteq Range(pending)
<1>1. /\ UNCHANGED <<received, late, created, doubts>> /\ ~InRound' /\ InRound
  BY DEF Keep, Clear, RoundEnds, InRound, network
<1>2. queued' = queued \cup Range(queue') /\ trimmed \subseteq trimmed'
  BY DEF Keep, Clear, Save
<1>3. CASE Keep
  <2>t. pending \in Seq(Nat) /\ index \in Nat \ {0} /\ index <= Len(pending) /\ pc = "keep"
    BY <1>3 DEF QueueInv, TypeOK, Keep, RoundKnowsFile
  <2>1. index \in 1 .. (Len(pending) + 1) /\ DOMAIN pending = 1 .. Len(pending)
    BY <2>t
  <2>2. /\ Unpushed \in Seq(Nat)
        /\ \A r \in Range(Unpushed) : \E i \in index .. Len(pending) : r = pending[i]
        /\ Range(Unpushed) \subseteq Range(pending)
    BY <2>t, <2>1, SuffixFacts DEF Unpushed
  <2>3. queue' = Newest(Unpushed) /\ Range(Newest(Unpushed)) \subseteq Range(Unpushed)
    BY <1>3, <2>2, NewestFacts DEF Keep, Save
  <2>4. ~Clear
    BY <2>t DEF Clear
  <2>. QED
    BY <1>1, <1>2, <2>t, <2>2, <2>3, <2>4
<1>4. CASE Clear
  <2>1. queue' = Newest(<<>>) /\ <<>> \in Seq(Nat) /\ Range(<<>>) = {} /\ pc = "clear"
    BY <1>4 DEF Clear, Save, Range
  <2>2. Range(queue') = {}
    BY <2>1, NewestFacts
  <2>3. ~Keep
    BY <2>1 DEF Keep
  <2>. QED
    BY <1>1, <1>2, <2>2, <2>3
<1>. QED
  BY <1>3, <1>4

\* Reports and requests are numbered up to created, and a round works on what the file
\* holds and on the newest report.
KnownInv ==
    /\ \A r \in Range(received) : r <= created
    /\ \A q \in late : q[1] <= created
    /\ Range(queue) \subseteq queued
    /\ InRound => Range(pending) \subseteq Range(queue) \cup {created}

LEMMA KnownStep == QueueInv /\ KnownInv /\ [Next]_vars => KnownInv'
<1>. SUFFICES ASSUME QueueInv, KnownInv, [Next]_vars PROVE KnownInv'
  OBVIOUS
<1>t. /\ queue \in Seq(Nat) /\ pending \in Seq(Nat) /\ received \in Seq(Nat) /\ created \in Nat
      /\ late \subseteq Nat \X Nat /\ Range(received) \subseteq Nat /\ index \in Nat \ {0}
      /\ \A q \in late : q[1] \in Nat
      /\ TypeOK
  BY DEF QueueInv, TypeOK, Range
<1>1. CASE Load
  <2>1. /\ UNCHANGED <<queue, received, late, queued>> /\ created' = created + 1
        /\ pending' = Append(queue, created + 1)
    BY <1>1 DEF Load, network, history
  <2>2. Range(pending') = Range(queue) \cup {created + 1}
    BY <1>t, <2>1, RangeAppend
  <2>. QED
    BY <1>t, <2>1, <2>2 DEF KnownInv
<1>2. CASE Push \/ PushRefused \/ PushTimesOut
  <2>1. /\ UNCHANGED <<queue, queued, created, pending>> /\ InRound /\ InRound'
        /\ received' \in {received, Append(received, pending[index])}
        /\ \A q \in late' : q \in late \/ q[1] = pending[index]
        /\ pc = "push"
    BY <1>2 DEF Push, PushRefused, PushTimesOut, InRound, network, history
  <2>2. pending[index] \in Nat /\ pending[index] <= created
    BY <1>t, <2>1 DEF QueueInv, RoundKnowsFile, TypeOK
  <2>3. Range(received') \subseteq Range(received) \cup {pending[index]}
    BY <1>t, <2>1, <2>2, RangeAppend
  <2>. QED
    BY <2>1, <2>2, <2>3 DEF KnownInv
<1>3. CASE LateArrival
  <2>1. PICK q \in late : received' = Append(received, q[1]) /\ late' = late \ {q}
    BY <1>3 DEF LateArrival
  <2>2. UNCHANGED <<queue, queued, created, pending, pc>>
    BY <1>3 DEF LateArrival, loop, history
  <2>3. Range(received') = Range(received) \cup {q[1]}
    BY <1>t, <2>1, RangeAppend
  <2>. QED
    BY <2>1, <2>2, <2>3 DEF KnownInv, InRound
<1>4. CASE Keep \/ Clear
  BY <1>4, SaveShape DEF KnownInv
<1>5. CASE ~(Load \/ Push \/ PushRefused \/ PushTimesOut \/ LateArrival \/ Keep \/ Clear)
  <2>1. /\ UNCHANGED <<queue, received, late, queued>> /\ created' \in {created, created + 1}
        /\ ~InRound' \/ UNCHANGED <<pc, pending, created>>
    BY <1>5, <1>t, RestStep
  <2>. QED
    BY <1>t, <2>1 DEF KnownInv, InRound
<1>. QED
  BY <1>1, <1>2, <1>3, <1>4, <1>5

LEMMA KnownInvariant == Spec => [](QueueInv /\ KnownInv)
<1>1. Init => KnownInv
  BY DEF Init, KnownInv, Range, InRound
<1>2. Spec => Init /\ [][Next]_vars
  BY DEF Spec
<1>. QED
  BY <1>1, <1>2, QueueInit, QueueStep, KnownStep, PTL

(***************************************************************************)
(* As long as every outcome is known, what the round has not pushed, and   *)
(* between rounds what the file holds, has not been recorded.              *)
(***************************************************************************)

Distinct(s) == \A i, j \in DOMAIN s : s[i] = s[j] => i = j

SureInv ==
    doubts = 0 =>
        /\ late = {}
        /\ Distinct(received)
        /\ ~InRound => Range(queue) \cap Range(received) = {}
        /\ pc \in {"push", "keep"} =>
              \A i \in index .. Len(pending) : pending[i] \notin Range(received)

LEMMA DistinctAppend ==
    ASSUME NEW s \in Seq(Nat), NEW e \in Nat, Distinct(s), e \notin Range(s)
    PROVE  Distinct(Append(s, e))
<1>. SUFFICES ASSUME NEW i \in 1 .. (Len(s) + 1), NEW j \in 1 .. (Len(s) + 1),
                     Append(s, e)[i] = Append(s, e)[j]
              PROVE  i = j
  BY AppendFacts DEF Distinct
<1>1. \A k \in 1 .. Len(s) : s[k] # e
  BY AppendFacts DEF Range
<1>2. (i \in 1 .. Len(s) \/ i = Len(s) + 1) /\ (j \in 1 .. Len(s) \/ j = Len(s) + 1)
  BY AppendFacts
<1>. QED
  BY <1>1, <1>2, AppendFacts DEF Distinct

LEMMA SureStep == QueueInv /\ KnownInv /\ SureInv /\ [Next]_vars => SureInv'
<1>. SUFFICES ASSUME QueueInv, KnownInv, SureInv, [Next]_vars, doubts' = 0 PROVE SureInv'
  BY DEF SureInv
<1>t. /\ queue \in Seq(Nat) /\ pending \in Seq(Nat) /\ received \in Seq(Nat) /\ created \in Nat
      /\ index \in Nat \ {0} /\ doubts \in Nat
      /\ TypeOK
  BY DEF QueueInv, TypeOK
<1>1. CASE Load
  <2>1. /\ UNCHANGED <<queue, received, late, doubts>> /\ pc = "sync" /\ pc' = "push"
        /\ pending' = Append(queue, created + 1) /\ index' = 1
    BY <1>1 DEF Load, network, history
  <2>2. Range(queue) \cap Range(received) = {} /\ late = {} /\ Distinct(received)
    BY <2>1 DEF SureInv, InRound
  <2>3. created + 1 \notin Range(received)
    BY <1>t DEF KnownInv
  <2>4. Range(pending') = Range(queue) \cup {created + 1}
    BY <1>t, <2>1, RangeAppend
  <2>5. \A i \in index' .. Len(pending') : pending'[i] \in Range(pending')
    <3>1. pending' \in Seq(Nat)
      BY <1>t, <2>1
    <3>2. DOMAIN pending' = index' .. Len(pending')
      BY <2>1, <3>1
    <3>. QED
      BY <3>2 DEF Range
  <2>. QED
    BY <2>1, <2>2, <2>3, <2>4, <2>5 DEF SureInv, InRound
<1>2. CASE Push
  <2>1. /\ UNCHANGED <<queue, late, doubts, pending>> /\ pc = "push"
        /\ received' = Append(received, pending[index])
        /\ \/ pc' = "push" /\ index' = index + 1
           \/ pc' = "clear"
    BY <1>2 DEF Push, history
  <2>2. /\ late = {} /\ Distinct(received)
        /\ \A i \in index .. Len(pending) : pending[i] \notin Range(received)
    BY <2>1 DEF SureInv
  <2>3. /\ index \in 1 .. Len(pending) /\ pending[index] \in Nat
        /\ DOMAIN pending = 1 .. Len(pending) /\ Len(pending) \in Nat
        /\ \A i \in DOMAIN pending : pending[i] \in Nat
    <3>1. index <= Len(pending)
      BY <1>t, <2>1 DEF TypeOK
    <3>2. DOMAIN pending = 1 .. Len(pending) /\ Len(pending) \in Nat
      BY <1>t
    <3>3. \A i \in DOMAIN pending : pending[i] \in Nat
      BY <1>t
    <3>. QED
      BY <1>t, <3>1, <3>2, <3>3
  <2>4. pending[index] \notin Range(received)
    BY <2>2, <2>3
  <2>5. Distinct(received') /\ Range(received') = Range(received) \cup {pending[index]}
    BY <1>t, <2>1, <2>2, <2>3, <2>4, DistinctAppend, RangeAppend
  <2>6. ASSUME NEW i \in (index + 1) .. Len(pending) PROVE pending[i] \notin Range(received')
    <3>1. i \in index .. Len(pending) /\ i \in DOMAIN pending /\ index \in DOMAIN pending /\ index < i
      BY <2>3
    <3>2. pending[index] < pending[i]
      BY <2>1, <3>1 DEF QueueInv, RoundKnowsFile, Ascending
    <3>. QED
      BY <2>2, <2>3, <2>5, <3>1, <3>2
  <2>. QED
    BY <2>1, <2>2, <2>5, <2>6 DEF SureInv, InRound
<1>3. CASE PushRefused
  <2>1. /\ UNCHANGED <<queue, received, late, doubts, pending, index>> /\ pc = "push" /\ pc' = "keep"
    BY <1>3 DEF PushRefused, network, history
  <2>. QED
    BY <2>1 DEF SureInv, InRound
<1>4. CASE PushTimesOut
  BY <1>4, <1>t DEF PushTimesOut
<1>5. CASE LateArrival
  BY <1>5 DEF LateArrival, history, SureInv
<1>6. CASE Keep \/ Clear
  <2>1. /\ UNCHANGED <<received, late, doubts>> /\ ~InRound'
        /\ Keep => pc = "keep" /\ \A r \in Range(queue') : \E i \in index .. Len(pending) : r = pending[i]
        /\ Clear => Range(queue') = {}
    BY <1>6, SaveShape
  <2>2. Range(queue') \cap Range(received) = {}
    BY <1>6, <2>1 DEF SureInv
  <2>. QED
    BY <2>1, <2>2 DEF SureInv, InRound
<1>7. CASE ~(Load \/ Push \/ PushRefused \/ PushTimesOut \/ LateArrival \/ Keep \/ Clear)
  <2>1. /\ UNCHANGED <<queue, received, late>>
        /\ \/ ~InRound' /\ (~InRound \/ doubts' = doubts + 1)
           \/ UNCHANGED <<pc, pending, index>>
        /\ doubts' \in {doubts, doubts + 1}
    BY <1>7, <1>t, RestStep
  <2>. QED
    BY <1>t, <2>1 DEF SureInv, InRound
<1>. QED
  BY <1>1, <1>2, <1>3, <1>4, <1>5, <1>6, <1>7

\* As long as every outcome is known, no report is recorded twice, for any number of
\* refused pushes and any capacity.
THEOREM RecordedOnceWhenSure == Spec => []NoRepeatsWhenSure
<1>1. Init => SureInv
  BY DEF Init, SureInv, Distinct, Range, InRound
<1>2. SureInv => NoRepeatsWhenSure
  BY DEF SureInv, NoRepeatsWhenSure, Distinct
<1>3. Spec => Init /\ [][Next]_vars
  BY DEF Spec
<1>. QED
  BY <1>1, <1>2, <1>3, SureStep, KnownInvariant, PTL

(***************************************************************************)
(* Order.  When a report is recorded, or given up on under way, every      *)
(* older one that was kept has been recorded; only the newest report can   *)
(* enter the file later.                                                   *)
(***************************************************************************)

OlderRecorded(x) == \A r \in queued \ trimmed : r < x => r \in Range(received)

OrderInv ==
    /\ \A q \in late : OlderRecorded(q[1])
    /\ \A i \in DOMAIN received, r \in queued \ trimmed :
          r < received[i] => \E k \in 1 .. (i - 1) : received[k] = r

\* The report being pushed: the older ones of its round have been recorded.
LEMMA PushedInOrder ==
    ASSUME QueueInv, pc = "push"
    PROVE  pending[index] \in Nat /\ OlderRecorded(pending[index])
<1>t. /\ pending \in Seq(Nat) /\ index \in 1 .. Len(pending) /\ queued \subseteq Nat
      /\ DOMAIN pending = 1 .. Len(pending) /\ Len(pending) \in Nat
      /\ \A i \in DOMAIN pending : pending[i] \in Nat
  BY DEF QueueInv, TypeOK
<1>. SUFFICES ASSUME NEW r \in queued \ trimmed, r < pending[index], r \notin Range(received)
              PROVE  FALSE
  BY <1>t DEF OlderRecorded
<1>1. r \in Range(queue)
  BY DEF QueueInv, QueuedNotLost
<1>2. PICK i \in DOMAIN pending : r = pending[i]
  BY <1>1 DEF QueueInv, RoundKnowsFile, Range
<1>3. i \in 1 .. (index - 1)
  <2>1. CASE i < index
    BY <1>t, <2>1
  <2>2. CASE i = index
    BY <1>t, <1>2, <2>2
  <2>3. CASE index < i
    <3>1. pending[index] < pending[i]
      BY <1>t, <2>3 DEF QueueInv, RoundKnowsFile, Ascending
    <3>. QED
      BY <1>t, <1>2, <3>1
  <2>. QED
    BY <1>t, <2>1, <2>2, <2>3
<1>. QED
  BY <1>2, <1>3 DEF QueueInv, RoundKnowsFile

\* Recording a report whose elders have been recorded.
LEMMA RecordInOrder ==
    ASSUME QueueInv, OrderInv, NEW x \in Nat, OlderRecorded(x), received' = Append(received, x),
           late' \subseteq late, queued' = queued, trimmed' = trimmed
    PROVE  OrderInv'
<1>t. received \in Seq(Nat)
  BY DEF QueueInv, TypeOK
<1>1. Range(received) \subseteq Range(received')
  BY <1>t, RangeAppend
<1>2. \A q \in late' : OlderRecorded(q[1])'
  BY <1>1 DEF OrderInv, OlderRecorded
<1>3. ASSUME NEW i \in DOMAIN received', NEW r \in queued \ trimmed, r < received'[i]
      PROVE  \E k \in 1 .. (i - 1) : received'[k] = r
  <2>d. /\ Len(received) \in Nat /\ DOMAIN received = 1 .. Len(received)
        /\ DOMAIN received' = 1 .. (Len(received) + 1)
        /\ \A k \in 1 .. Len(received) : received'[k] = received[k]
        /\ received'[Len(received) + 1] = x
    BY <1>t, AppendFacts
  <2>1. CASE i \in 1 .. Len(received)
    <3>1. PICK k \in 1 .. (i - 1) : received[k] = r
      BY <1>3, <2>1, <2>d DEF OrderInv
    <3>. QED
      BY <2>1, <2>d, <3>1
  <2>2. CASE i = Len(received) + 1
    <3>1. PICK k \in 1 .. Len(received) : received[k] = r
      BY <1>3, <2>2, <2>d DEF OlderRecorded, Range
    <3>. QED
      BY <2>2, <2>d, <3>1
  <2>. QED
    BY <2>1, <2>2, <2>d
<1>. QED
  BY <1>2, <1>3 DEF OrderInv

LEMMA OrderStep == QueueInv /\ KnownInv /\ OrderInv /\ [Next]_vars => OrderInv'
<1>. SUFFICES ASSUME QueueInv, KnownInv, OrderInv, [Next]_vars PROVE OrderInv'
  OBVIOUS
<1>t. /\ received \in Seq(Nat) /\ created \in Nat /\ late \subseteq Nat \X Nat /\ TypeOK
      /\ \A i \in DOMAIN received : received[i] \in Nat
      /\ \A q \in late : q[1] \in Nat
  BY DEF QueueInv, TypeOK
<1>1. CASE UNCHANGED <<received, late, queued, trimmed>>
  BY <1>1 DEF OrderInv, OlderRecorded
<1>2. CASE Push
  BY <1>2, PushedInOrder, RecordInOrder DEF Push, history
<1>3. CASE PushTimesOut
  <2>1. /\ UNCHANGED <<received, queued, trimmed>> /\ pc = "push"
        /\ \A q \in late' : q \in late \/ q[1] = pending[index]
    BY <1>3 DEF PushTimesOut
  <2>2. OlderRecorded(pending[index])
    BY <2>1, PushedInOrder
  <2>. QED
    BY <2>1, <2>2 DEF OrderInv, OlderRecorded
<1>4. CASE LateArrival
  <2>1. PICK q \in late : received' = Append(received, q[1]) /\ late' = late \ {q}
    BY <1>4 DEF LateArrival
  <2>2. queued' = queued /\ trimmed' = trimmed
    BY <1>4 DEF LateArrival, history
  <2>3. q[1] \in Nat /\ OlderRecorded(q[1])
    BY <1>t DEF OrderInv
  <2>. QED
    BY <2>1, <2>2, <2>3, RecordInOrder
<1>5. CASE Keep \/ Clear
  <2>1. /\ UNCHANGED <<received, late>> /\ InRound /\ trimmed \subseteq trimmed'
        /\ queued' = queued \cup Range(queue') /\ Range(queue') \subseteq Range(pending)
    BY <1>5, SaveShape
  <2>2. queued' \subseteq queued \cup {created}
    BY <2>1 DEF KnownInv
  <2>3. \A i \in DOMAIN received : ~(created < received[i])
    <3>1. \A i \in DOMAIN received : received[i] <= created
      BY DEF KnownInv, Range
    <3>. QED
      BY <1>t, <3>1
  <2>4. \A q \in late : ~(created < q[1])
    BY <1>t DEF KnownInv
  <2>. QED
    BY <2>1, <2>2, <2>3, <2>4 DEF OrderInv, OlderRecorded
<1>6. CASE Load \/ PushRefused
  BY <1>1, <1>6 DEF Load, PushRefused, network, history
<1>7. CASE ~(Load \/ Push \/ PushRefused \/ PushTimesOut \/ LateArrival \/ Keep \/ Clear)
  BY <1>1, <1>7, <1>t, RestStep
<1>. QED
  BY <1>2, <1>3, <1>4, <1>5, <1>6, <1>7

\* However late requests, retries and crashes interleave, the first record of a kept
\* report never comes after that of a newer one.
THEOREM RecordedInOrder == Spec => []FirstRecordsInOrder
<1>1. Init => OrderInv
  BY DEF Init, OrderInv
<1>2. OrderInv => FirstRecordsInOrder
  BY DEF OrderInv, FirstRecordsInOrder
<1>3. Spec => Init /\ [][Next]_vars
  BY DEF Spec
<1>. QED
  BY <1>1, <1>2, <1>3, OrderStep, KnownInvariant, PTL
-----------------------------------------------------------------------------
(***************************************************************************)
(* The backoff.  Doubled is a recursive function: that it satisfies its    *)
(* equation is shown number by number.                                     *)
(***************************************************************************)

\* A set of natural numbers has a least element.
LEMMA LeastNatural ==
  ASSUME NEW T \in SUBSET Nat, T # {}
  PROVE  \E x \in T : \A y \in T : x <= y
<1>. DEFINE R == {ss \in Nat \X Nat : ss[1] < ss[2]}
<1>1. OpToRel(<, Nat) = R
  BY Zenon DEF OpToRel
<1>2. IsWellFoundedOn(R, Nat)
  BY <1>1, NatLessThanWellFounded, Zenon
<1>3. \E x \in T : \A y \in T : ~(<<y, x>> \in R)
  <2>. HIDE DEF R
  <2>. QED
    BY <1>2, WFMin, Zenon
<1>4. ASSUME NEW x \in T, NEW y \in T, ~(<<y, x>> \in R)
      PROVE  x <= y
  BY <1>4
<1>. QED
  BY <1>3, <1>4

\* A set that holds 0 and, with a number below n, the next one holds all up to n.
LEMMA CountUp ==
  ASSUME NEW n \in Nat, NEW S, 0 \in S, \A i \in 0 .. n - 1 : i \in S => i + 1 \in S
  PROVE  \A i \in 0 .. n : i \in S
<1>. DEFINE T == {i \in 0 .. n : i \notin S}
<1>. SUFFICES ASSUME T # {} PROVE FALSE
  OBVIOUS
<1>1. PICK x \in T : \A y \in T : x <= y
  <2>1. T \in SUBSET Nat
    OBVIOUS
  <2>. HIDE DEF T
  <2>. QED
    BY <2>1, LeastNatural
<1>2. x \in 1 .. n /\ x - 1 \in 0 .. n - 1 /\ x - 1 \notin T
  BY <1>1
<1>3. x - 1 \in S
  BY <1>2
<1>. QED
  BY <1>2, <1>3

IsDoubled(d, n) == d = [i \in 0 .. n |-> IF i = 0 THEN InitialBackoff ELSE 2 * d[i - 1]]

LEMMA DoubledFacts ==
  /\ Doubled[0] = InitialBackoff
  /\ \A n \in 0 .. MaxFaults - 1 : Doubled[n + 1] = 2 * Doubled[n]
  /\ \A n \in 0 .. MaxFaults : Doubled[n] \in Nat
<1>. DEFINE S == {n \in 0 .. MaxFaults : \E d : IsDoubled(d, n)}
<1>1. 0 \in S
  <2>. DEFINE d == [i \in 0 .. 0 |-> InitialBackoff]
  <2>1. IsDoubled(d, 0)
    BY DEF IsDoubled
  <2>. QED
    BY <2>1, QueueAssumption
<1>2. ASSUME NEW n \in 0 .. MaxFaults - 1, n \in S PROVE n + 1 \in S
  <2>1. PICK d : IsDoubled(d, n)
    BY <1>2
  <2>. DEFINE e == [i \in 0 .. n + 1 |-> IF i = n + 1 THEN 2 * d[n] ELSE d[i]]
              f == [i \in 0 .. n + 1 |-> IF i = 0 THEN InitialBackoff ELSE 2 * e[i - 1]]
  <2>2. d[0] = InitialBackoff /\ \A i \in 1 .. n : d[i] = 2 * d[i - 1]
    BY <2>1, QueueAssumption DEF IsDoubled
  <2>3. ASSUME NEW i \in 0 .. n + 1 PROVE e[i] = f[i]
    <3>1. CASE i = n + 1
      BY <3>1, QueueAssumption
    <3>2. CASE i \in 1 .. n
      BY <2>2, <3>2, QueueAssumption
    <3>3. CASE i = 0
      BY <2>2, <3>3, QueueAssumption
    <3>. QED
      BY <3>1, <3>2, <3>3, QueueAssumption
  <2>4. e = f
    BY <2>3
  <2>5. IsDoubled(e, n + 1) /\ n + 1 \in 0 .. MaxFaults
    BY <2>4, QueueAssumption DEF IsDoubled
  <2>. HIDE DEF e
  <2>. QED
    BY <2>5
<1>3. \E d : IsDoubled(d, MaxFaults)
  <2>1. MaxFaults \in S
    <3>. HIDE DEF S
    <3>. QED
      BY <1>1, <1>2, CountUp, QueueAssumption
  <2>. QED
    BY <2>1
<1>4. IsDoubled(Doubled, MaxFaults)
  BY <1>3, Zenon DEF Doubled, IsDoubled
<1>5. Doubled[0] = InitialBackoff /\ \A n \in 0 .. MaxFaults - 1 : Doubled[n + 1] = 2 * Doubled[n]
  BY <1>4, QueueAssumption DEF IsDoubled
<1>. DEFINE N == {n \in 0 .. MaxFaults : Doubled[n] \in Nat}
<1>6. 0 \in N /\ \A n \in 0 .. MaxFaults - 1 : n \in N => n + 1 \in N
  BY <1>5, QueueAssumption, BackoffAssumption
<1>7. \A n \in 0 .. MaxFaults : n \in N
  <2>. HIDE DEF N
  <2>. QED
    BY <1>6, CountUp, QueueAssumption
<1>. QED
  BY <1>5, <1>7

\* Every failed round is a fault, so the doublings stay within the bound; a push that
\* failed has been counted before its round ends.
FailuresCounted == failures <= faults /\ (pc = "keep" => failures < faults)

BackoffInv == TypeOK /\ FailuresCounted /\ BackoffDoubles

LEMMA BackoffStep == BackoffInv /\ [Next]_vars => BackoffInv'
<1>. SUFFICES ASSUME BackoffInv, [Next]_vars
              PROVE  FailuresCounted' /\ BackoffDoubles'
  BY TypeStep DEF BackoffInv
<1>0. /\ failures \in Nat /\ faults \in Nat /\ faults <= MaxFaults /\ failures <= faults
      /\ pc = "keep" => failures < faults
      /\ backoff = IF Doubled[failures] > MaxBackoff THEN MaxBackoff ELSE Doubled[failures]
  BY QueueAssumption DEF BackoffInv, TypeOK, BackoffDoubles, FailuresCounted
<1>1. ASSUME failures < faults', faults' \in Nat, faults' <= MaxFaults, RoundEnds(FALSE)
      PROVE  FailuresCounted' /\ BackoffDoubles'
  <2>1. failures' = failures + 1 /\ backoff' = nextSyncBackoff(backoff) /\ pc' = "wait"
    BY <1>1 DEF RoundEnds
  <2>2. Doubled[failures + 1] = 2 * Doubled[failures] /\ Doubled[failures] \in Nat
    BY <1>0, <1>1, QueueAssumption, DoubledFacts
  <2>3. FailuresCounted'
    BY <1>0, <1>1, <2>1 DEF FailuresCounted
  <2>. QED
    BY <1>0, <2>1, <2>2, <2>3, BackoffAssumption DEF nextSyncBackoff, BackoffDoubles
<1>2. ASSUME backoff' = InitialBackoff, failures' = 0, faults' \in Nat, pc' # "keep"
      PROVE  FailuresCounted' /\ BackoffDoubles'
  BY <1>2, DoubledFacts, BackoffAssumption DEF BackoffDoubles, FailuresCounted
<1>3. ASSUME UNCHANGED <<backoff, failures>>, faults' = faults, pc' = "keep" => pc = "keep"
      PROVE  FailuresCounted' /\ BackoffDoubles'
  BY <1>0, <1>3 DEF BackoffDoubles, FailuresCounted
<1>4. CASE SyncFails \/ LoadFails \/ SaveFails
  <2>1. failures < faults' /\ faults' \in Nat /\ faults' <= MaxFaults
    <3>1. Fault
      BY <1>4, Zenon DEF SyncFails, LoadFails, SaveFails
    <3>. QED
      BY <1>0, <3>1, QueueAssumption DEF Fault
  <2>. QED
    BY <1>1, <1>4, <2>1 DEF SyncFails, LoadFails, SaveFails
<1>5. CASE Crash
  BY <1>0, <1>2, <1>5 DEF Crash, Fault
<1>6. CASE Clear
  BY <1>0, <1>2, <1>6 DEF Clear, RoundEnds
<1>7. CASE Keep
  BY <1>0, <1>1, <1>7 DEF Keep
<1>8. CASE PushRefused \/ PushTimesOut
  <2>1. UNCHANGED <<backoff, failures>> /\ faults' = faults + 1
    BY <1>8 DEF PushRefused, PushTimesOut, Fault
  <2>. QED
    BY <1>0, <2>1 DEF BackoffDoubles, FailuresCounted
<1>9. CASE NextRound \/ Load \/ Push \/ LateArrival \/ UNCHANGED vars
  BY <1>3, <1>9 DEF NextRound, Load, Push, LateArrival, vars, loop
<1>. QED
  BY <1>4, <1>5, <1>6, <1>7, <1>8, <1>9 DEF Next

\* For any options that normalizeSyncLoopOptions accepts and any failures, the delay is
\* InitialBackoff doubled once for every failure in a row, up to MaxBackoff, and starts
\* over after a good round (runSyncLoop, nextSyncBackoff).
THEOREM BackoffIsExact == Spec => []BackoffDoubles
<1>1. Init => BackoffInv
  BY TypeInit, DoubledFacts, BackoffAssumption DEF Init, BackoffInv, BackoffDoubles, FailuresCounted
<1>2. BackoffInv => BackoffDoubles
  BY DEF BackoffInv
<1>. QED
  BY <1>1, <1>2, BackoffStep, PTL DEF Spec

=============================================================================
