--------------------------- MODULE TelemetryQueue ---------------------------
(***************************************************************************)
(* How the agent gets its telemetry to the control plane: the sync loop    *)
(* with its backoff (runSyncLoop), pushTelemetry and the bounded queue     *)
(* file (FileTelemetryQueue).  Every round makes one report, appends it to *)
(* what the file holds, pushes the reports one by one and writes back what *)
(* it could not push.                                                      *)
(*                                                                         *)
(* A push may be refused, or fail on the agent's side only: the request    *)
(* may have been recorded already, or be recorded later.  The file may     *)
(* fail to be read or written, and the agent may crash between any two     *)
(* steps.  Reports are numbered in the order they are made.                *)
(***************************************************************************)
EXTENDS Integers, Sequences, Functions

CONSTANTS Capacity,        \* FileTelemetryQueue.maxReports
          Interval,        \* SyncLoopOptions.Interval, in units of time
          InitialBackoff,  \* SyncLoopOptions.InitialBackoff
          MaxBackoff,      \* SyncLoopOptions.MaxBackoff
          MaxReports,      \* bound: rounds that make a report
          MaxFaults        \* bound: failures and crashes

ASSUME QueueAssumption ==
    /\ Capacity \in Nat \ {0}
    /\ MaxReports \in Nat /\ MaxFaults \in Nat

\* normalizeSyncLoopOptions refuses any other options.
ASSUME BackoffAssumption ==
    /\ Interval \in Nat \ {0}
    /\ InitialBackoff \in Nat \ {0}
    /\ MaxBackoff \in Nat /\ MaxBackoff >= InitialBackoff

VARIABLES queue,      \* the reports in the queue file
          pc,         \* where the sync loop is
          pending,    \* pushTelemetry: the reports of this round
          index,      \* pushTelemetry: the next one to push
          backoff,    \* runSyncLoop: the delay after the next failure
          delay,      \* runSyncLoop: the delay chosen for this wait
          received,   \* the reports the control plane recorded, in order
          late,       \* requests (report, number) the agent gave up on and that
                      \* may still be recorded
          created,    \* reports made so far
          faults,     \* failures and crashes so far
          queued,     \* history: reports that have been in the file
          trimmed,    \* history: reports dropped for lack of room
          doubts,     \* history: outcomes lost (answer, file write or crash)
          failures    \* history: failed rounds since the last good one or start

loop == <<pc, pending, index, backoff, delay>>
network == <<received, late>>
history == <<queued, trimmed, doubts>>
vars == <<queue, loop, network, created, faults, history, failures>>

PcValues == {"sync", "push", "keep", "clear", "wait"}

-----------------------------------------------------------------------------

Init ==
    /\ queue = <<>>
    /\ pc = "sync" /\ pending = <<>> /\ index = 1
    /\ backoff = InitialBackoff /\ delay = 0
    /\ received = <<>> /\ late = {}
    /\ created = 0 /\ faults = 0
    /\ queued = {} /\ trimmed = {} /\ doubts = 0 /\ failures = 0

\* Bounded faults.  The round of the last report meets none, so that a behaviour
\* has a part in which the failures have stopped.
Fault == faults < MaxFaults /\ created < MaxReports /\ faults' = faults + 1

\* Mutant of nextSyncBackoff: the cap is forgotten for the last doubling.
nextSyncBackoffUncapped(current) == IF current > MaxBackoff THEN MaxBackoff ELSE 2 * current

\* Go's overflow check has nothing to catch here: 2 * MaxBackoff fits an int64.
nextSyncBackoff(current) == IF 2 * current > MaxBackoff THEN MaxBackoff ELSE 2 * current

\* syncOnce returned: runSyncLoop chooses the delay.
RoundEnds(ok) ==
    /\ pc' = "wait"
    /\ pending' = <<>> /\ index' = 1
    /\ delay' = IF ok THEN Interval ELSE backoff
    /\ backoff' = IF ok THEN InitialBackoff ELSE nextSyncBackoff(backoff)
    /\ failures' = IF ok THEN 0 ELSE failures + 1

\* The timer fires.
NextRound ==
    /\ pc = "wait"
    /\ pc' = "sync"
    /\ UNCHANGED <<queue, pending, index, backoff, delay, network, created, faults, history, failures>>

\* SyncOnce fails before telemetry: fetching or applying the config.
SyncFails ==
    /\ pc = "sync"
    /\ Fault
    /\ RoundEnds(FALSE)
    /\ UNCHANGED <<queue, network, created, history>>

\* Mutant of Load: the new report goes first.
LoadNewFirst ==
    /\ pc = "sync" /\ created < MaxReports
    /\ created' = created + 1
    /\ pending' = <<created + 1>> \o queue
    /\ index' = 1
    /\ pc' = "push"
    /\ UNCHANGED <<queue, backoff, delay, network, faults, history, failures>>

\* pushTelemetry: the new report goes behind the queued ones.
Load ==
    /\ pc = "sync" /\ created < MaxReports
    /\ created' = created + 1
    /\ pending' = Append(queue, created + 1)
    /\ index' = 1
    /\ pc' = "push"
    /\ UNCHANGED <<queue, backoff, delay, network, faults, history, failures>>

\* The queue file cannot be read: the new report is gone.
LoadFails ==
    /\ pc = "sync" /\ created + 1 < MaxReports
    /\ Fault
    /\ created' = created + 1
    /\ RoundEnds(FALSE)
    /\ UNCHANGED <<queue, network, history>>

\* client.PushTelemetry succeeds.
Push ==
    /\ pc = "push"
    /\ received' = Append(received, pending[index])
    /\ IF index < Len(pending)
         THEN index' = index + 1 /\ pc' = pc
         ELSE index' = index /\ pc' = "clear"
    /\ UNCHANGED <<queue, pending, backoff, delay, late, created, faults, history, failures>>

\* client.PushTelemetry reports an error and nothing was recorded.
PushRefused ==
    /\ pc = "push"
    /\ Fault
    /\ pc' = "keep"
    /\ UNCHANGED <<queue, pending, index, backoff, delay, network, created, history, failures>>

\* client.PushTelemetry gives up on a request that is still under way.
PushTimesOut ==
    /\ pc = "push"
    /\ Fault
    /\ pc' = "keep"
    /\ late' = late \cup {<<pending[index], faults>>}
    /\ doubts' = doubts + 1
    /\ UNCHANGED <<queue, pending, index, backoff, delay, received, created, queued, trimmed, failures>>

\* The control plane records a report the agent has given up on.
LateArrival ==
    \E request \in late :
        /\ late' = late \ {request}
        /\ received' = Append(received, request[1])
        /\ UNCHANGED <<queue, loop, created, faults, history, failures>>

\* The newest Capacity reports of s.
Newest(s) == IF Len(s) > Capacity THEN SubSeq(s, Len(s) - Capacity + 1, Len(s)) ELSE s

\* FileTelemetryQueue.Save: temporary file and rename, so all or nothing.
Save(reports) ==
    /\ queue' = Newest(reports)
    /\ queued' = queued \cup Range(Newest(reports))
    /\ trimmed' = trimmed \cup (Range(reports) \ Range(Newest(reports)))

Unpushed == SubSeq(pending, index, Len(pending))

\* Mutant of Keep: everything is kept.
KeepAll ==
    /\ pc = "keep"
    /\ Save(pending)
    /\ RoundEnds(FALSE)
    /\ UNCHANGED <<network, created, faults, doubts>>

\* A push failed: what was not pushed is kept.
Keep ==
    /\ pc = "keep"
    /\ Save(Unpushed)
    /\ RoundEnds(FALSE)
    /\ UNCHANGED <<network, created, faults, doubts>>

\* Mutant of Clear: the file is left.
ClearForgotten ==
    /\ pc = "clear"
    /\ RoundEnds(TRUE)
    /\ UNCHANGED <<queue, network, created, faults, history>>

\* Everything was pushed: Save(nil) removes the file.
Clear ==
    /\ pc = "clear"
    /\ Save(<<>>)
    /\ RoundEnds(TRUE)
    /\ UNCHANGED <<network, created, faults, doubts>>

\* Mutant of SaveFails: the old file is removed before the new one is written.
SaveFailsAfterRemove ==
    /\ pc \in {"keep", "clear"}
    /\ Fault
    /\ doubts' = doubts + 1
    /\ queue' = <<>>
    /\ RoundEnds(FALSE)
    /\ UNCHANGED <<network, created, queued, trimmed>>

\* Save fails and the file stays as it was.
SaveFails ==
    /\ pc \in {"keep", "clear"}
    /\ Fault
    /\ doubts' = doubts + 1
    /\ RoundEnds(FALSE)
    /\ UNCHANGED <<queue, network, created, queued, trimmed>>

\* The process dies and is started again: only the file is left.
Crash ==
    /\ Fault
    /\ pc' = "sync" /\ pending' = <<>> /\ index' = 1
    /\ backoff' = InitialBackoff /\ delay' = 0 /\ failures' = 0
    /\ doubts' = doubts + 1
    /\ UNCHANGED <<queue, network, created, queued, trimmed>>

Next ==
    \/ NextRound \/ SyncFails \/ Load \/ LoadFails
    \/ Push \/ PushRefused \/ PushTimesOut \/ LateArrival
    \/ Keep \/ Clear \/ SaveFails \/ Crash

\* The loop never stops by itself; nothing is assumed of faults or late requests.
Fairness == WF_vars(NextRound \/ Load \/ Push \/ Keep \/ Clear)

Spec == Init /\ [][Next]_vars /\ Fairness

-----------------------------------------------------------------------------
(***************************************************************************)
(* Properties.                                                             *)
(***************************************************************************)

\* Every variable has its type.
TypeOK ==
    /\ queue \in Seq(Nat) /\ pending \in Seq(Nat)
    /\ pc \in PcValues
    /\ index \in Nat \ {0}
    /\ pc = "push" => index <= Len(pending)
    /\ backoff \in InitialBackoff .. MaxBackoff
    /\ delay \in 0 .. (MaxBackoff + Interval)
    /\ received \in Seq(Nat) /\ late \subseteq Nat \X Nat
    /\ created \in 0 .. MaxReports /\ faults \in 0 .. MaxFaults
    /\ queued \subseteq Nat /\ trimmed \subseteq Nat /\ doubts \in Nat
    /\ failures \in Nat

\* A report that was once in the queue file is still there or was recorded by the
\* control plane, unless it had to make room for newer ones: no crash, lost answer
\* or failed write makes pushTelemetry forget it.
QueuedNotLost == queued \ trimmed \subseteq Range(queue) \cup Range(received)

\* The queue file holds its reports oldest first, each once, within its capacity,
\* whatever retries and crashes did to the rounds that wrote it.
QueueOrdered ==
    /\ Len(queue) <= Capacity
    /\ \A i, j \in DOMAIN queue : i < j => queue[i] < queue[j]

\* A queued report that the control plane records after a newer one is a repeat of
\* one it has recorded before: late requests and retries never make the first
\* record of a kept report overtake or be overtaken.
FirstRecordsInOrder ==
    \A i, j \in DOMAIN received :
        (i < j /\ received[j] < received[i] /\ received[j] \in queued \ trimmed) =>
            \E k \in 1 .. (i - 1) : received[k] = received[j]

\* As long as every outcome is known (no lost answer, failed write or crash), no
\* report is recorded twice, however often pushes are refused and retried.
NoRepeatsWhenSure ==
    doubts = 0 => \A i, j \in DOMAIN received : received[i] = received[j] => i = j

\* InitialBackoff doubled n times.
Doubled[n \in 0 .. MaxFaults] == IF n = 0 THEN InitialBackoff ELSE 2 * Doubled[n - 1]

\* runSyncLoop doubles the delay with every failure in a row, from InitialBackoff
\* up to MaxBackoff, and starts over after a good round.
BackoffDoubles ==
    backoff = IF Doubled[failures] > MaxBackoff THEN MaxBackoff ELSE Doubled[failures]

\* Once failures stop, a round gets everything through and the file stays empty.
EventuallyDrained == <>[](queue = <<>>)

=============================================================================
