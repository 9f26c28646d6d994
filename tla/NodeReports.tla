---------------------------- MODULE NodeReports -----------------------------
(***************************************************************************)
(* What a node tells the control plane: the resource monitor of the        *)
(* agent (pkg/agent/resource_monitor.go), the heartbeats it builds         *)
(* (pkg/agent/agent.go) and the client that sends them with retries        *)
(* (pkg/agent/client.go); and what the probe of a sandbox tells its        *)
(* owner (pkg/observability/probe/probe.go).                               *)
(*                                                                         *)
(* One heartbeat is sent at a time. A request that the client has given    *)
(* up may still arrive, after later ones too. The client encodes the       *)
(* heartbeat anew for every attempt; the heartbeat points to the           *)
(* monitor's record of what is allocated, which changes in place, and to   *)
(* the record of what is available, which is replaced. Amounts of the      *)
(* resources are small numbers; one resource stands for all of them.       *)
(*                                                                         *)
(* The probe loop probes every period, and calls back when enough          *)
(* results in a row disagree with what was last reported. A probe that     *)
(* is under way when the loop is stopped, or its context cancelled, is     *)
(* still counted.                                                          *)
(***************************************************************************)
EXTENDS Integers, Sequences, FiniteSets

CONSTANTS
    Allocatable,      \* of the node
    Amounts,          \* what a sandbox may ask for
    retryCount,       \* attempts of one request
    MaxBeats,         \* bound: heartbeats
    MaxAllocations    \* bound: calls of AllocateResources

ASSUME ReportsAssumption ==
    /\ Allocatable \in Nat /\ Amounts \subseteq Nat \ {0}
    /\ retryCount \in Nat \ {0} /\ MaxBeats \in Nat /\ MaxAllocations \in Nat

VARIABLES
    allocated,        \* nodeResources.Allocated
    available,        \* nodeResources.Available
    allocationCount,      \* how often AllocateResources was called
    beat,             \* the heartbeat being sent: number, attempt, where, available
    onTheWire,        \* requests that were sent and have not arrived
    received,         \* history: the heartbeats that the control plane has had
    lastHeartbeat     \* a.lastHeartbeatTime, as the number of the heartbeat

monitorVars == <<allocated, available, allocationCount>>
reportVars == <<monitorVars, beat, onTheWire, received, lastHeartbeat>>

ReportsInit ==
    /\ allocated = 0 /\ available = Allocatable /\ allocationCount = 0
    /\ beat = [n |-> 0, attempt |-> 0, at |-> "idle", available |-> Allocatable]
    /\ onTheWire = {} /\ received = {} /\ lastHeartbeat = 0

-----------------------------------------------------------------------------
(* The resource monitor                                                    *)

\* updateNodeResources; collectMetrics calls it too, and changes nothing by it.
updateNodeResources == available' = Allocatable - allocated'

\* What is asked for is not compared with what is available.
AllocateResources(x) ==
    /\ allocationCount < MaxAllocations /\ allocationCount' = allocationCount + 1
    /\ allocated' = allocated + x
    /\ updateNodeResources
    /\ UNCHANGED <<beat, onTheWire, received, lastHeartbeat>>

\* A sandbox may be released twice, or with more than it was given.
ReleaseResources(x) ==
    /\ allocated' = IF allocated < x THEN 0 ELSE allocated - x
    /\ updateNodeResources
    /\ UNCHANGED <<allocationCount, beat, onTheWire, received, lastHeartbeat>>

-----------------------------------------------------------------------------
(* Heartbeats                                                              *)

buildHeartbeat ==
    /\ beat.at = "idle" /\ beat.n < MaxBeats
    /\ beat' = [n |-> beat.n + 1, attempt |-> 0, at |-> "retry", available |-> available]
    /\ UNCHANGED <<monitorVars, onTheWire, received, lastHeartbeat>>

\* doRequest: the request is encoded and sent.
doRequest ==
    /\ beat.at = "retry" /\ beat.attempt < retryCount
    /\ beat' = [beat EXCEPT !.at = "sent", !.attempt = @ + 1]
    /\ onTheWire' = onTheWire \cup
           {[n |-> beat.n, attempt |-> beat.attempt + 1, allocated |-> allocated, available |-> beat.available]}
    /\ UNCHANGED <<monitorVars, received, lastHeartbeat>>

\* A request arrives, or is lost.
Arrives(q) ==
    /\ q \in onTheWire /\ onTheWire' = onTheWire \ {q}
    /\ received' = received \cup {q}
    /\ UNCHANGED <<monitorVars, beat, lastHeartbeat>>

Lost(q) ==
    /\ q \in onTheWire /\ onTheWire' = onTheWire \ {q}
    /\ UNCHANGED <<monitorVars, beat, received, lastHeartbeat>>

\* The control plane answers the attempt under way with a status below 400.
Accepted ==
    /\ beat.at = "sent"
    /\ \E q \in received : q.n = beat.n /\ q.attempt = beat.attempt
    /\ beat' = [beat EXCEPT !.at = "idle"] /\ lastHeartbeat' = beat.n
    /\ UNCHANGED <<monitorVars, onTheWire, received>>

\* The attempt fails: refused, answered with an error, or over its 30 seconds.
AttemptFails ==
    /\ beat.at = "sent"
    /\ beat' = [beat EXCEPT !.at = "retry"]
    /\ UNCHANGED <<monitorVars, onTheWire, received, lastHeartbeat>>

\* Mutant: the last error is lost.
GivesUpQuietly ==
    /\ beat.at = "retry" /\ beat.attempt = retryCount
    /\ beat' = [beat EXCEPT !.at = "idle"] /\ lastHeartbeat' = beat.n
    /\ UNCHANGED <<monitorVars, onTheWire, received>>

\* doRequestWithRetry returns the last error.
GivesUp ==
    /\ beat.at = "retry" /\ beat.attempt = retryCount
    /\ beat' = [beat EXCEPT !.at = "idle"]
    /\ UNCHANGED <<monitorVars, onTheWire, received, lastHeartbeat>>

ReportsNext ==
    \/ \E x \in Amounts : AllocateResources(x) \/ ReleaseResources(x)
    \/ buildHeartbeat \/ doRequest \/ Accepted \/ AttemptFails \/ GivesUp
    \/ \E q \in onTheWire : Arrives(q) \/ Lost(q)

ReportsSpec == ReportsInit /\ [][ReportsNext]_reportVars

-----------------------------------------------------------------------------
\* The agent takes a heartbeat for sent only if the control plane has had it,
\* whatever was lost, late or sent again.
HeartbeatHonest == lastHeartbeat # 0 => \E q \in received : q.n = lastHeartbeat

\* No report says that the node has more than there is, though a sandbox may be
\* released twice and a report mix two moments.
NeverOverstated ==
    \A q \in received : q.available <= Allocatable /\ q.allocated >= 0

-----------------------------------------------------------------------------
(* The probe loop *)

CONSTANTS
    successThreshold,
    failureThreshold,
    MaxProbes          \* bound: probes

ASSUME ProbeAssumption ==
    /\ successThreshold \in Nat \ {0} /\ failureThreshold \in Nat \ {0} /\ MaxProbes \in Nat

VARIABLES
    loop,                  \* "delay", "waiting", "probing", "ended"
    stopping,              \* stopCh is closed or the context is done
    consecutiveSuccesses,
    consecutiveFailures,
    lastResult,
    results,               \* history: what the probes found
    callbacks              \* history: <<which, after how many probes>>

probeVars == <<loop, stopping, consecutiveSuccesses, consecutiveFailures, lastResult, results, callbacks>>

ProbeInit ==
    /\ loop = "delay" /\ stopping = FALSE
    /\ consecutiveSuccesses = 0 /\ consecutiveFailures = 0 /\ lastResult = FALSE
    /\ results = <<>> /\ callbacks = <<>>

probeCounters == <<consecutiveSuccesses, consecutiveFailures, lastResult, results, callbacks>>

\* The initial delay is over, or the ticker ticks: with stopCh closed as well,
\* select takes either.
Ticks ==
    /\ \/ loop = "delay" /\ loop' = "waiting"
       \/ loop = "waiting" /\ Len(results) < MaxProbes /\ loop' = "probing"
    /\ UNCHANGED <<stopping, probeCounters>>

StopLoop ==
    /\ ~stopping /\ stopping' = TRUE
    /\ UNCHANGED <<loop, probeCounters>>

Ends ==
    /\ stopping /\ loop \in {"delay", "waiting"} /\ loop' = "ended"
    /\ UNCHANGED <<stopping, probeCounters>>

Reports(which) == callbacks' = Append(callbacks, <<which, Len(results) + 1>>)

\* probeExec, probeTCP or probeHTTP succeeded.
ProbeSucceeds ==
    /\ loop = "probing" /\ loop' = "waiting"
    /\ results' = Append(results, TRUE)
    /\ consecutiveSuccesses' = consecutiveSuccesses + 1 /\ consecutiveFailures' = 0
    /\ IF ~lastResult /\ consecutiveSuccesses + 1 >= successThreshold
       THEN lastResult' = TRUE /\ Reports("healthy")
       ELSE UNCHANGED <<lastResult, callbacks>>
    /\ UNCHANGED stopping

\* It failed, was misconfigured, over its time, or cut off with the loop.
ProbeFails ==
    /\ loop = "probing" /\ loop' = "waiting"
    /\ results' = Append(results, FALSE)
    /\ consecutiveFailures' = consecutiveFailures + 1 /\ consecutiveSuccesses' = 0
    /\ IF lastResult /\ consecutiveFailures + 1 >= failureThreshold
       THEN lastResult' = FALSE /\ Reports("unhealthy")
       ELSE UNCHANGED <<lastResult, callbacks>>
    /\ UNCHANGED stopping

ProbeNext == Ticks \/ StopLoop \/ Ends \/ ProbeSucceeds \/ ProbeFails

ProbeSpec == ProbeInit /\ [][ProbeNext]_probeVars

-----------------------------------------------------------------------------
\* The n results up to the k-th are all r.
InARow(r, n, k) == k >= n /\ \A i \in (k - n + 1)..k : results[i] = r

\* What the callbacks say is what the results say, read from the first to the
\* last: they alternate, each comes with enough results in a row of its kind,
\* and none is missing: a run of results that is long enough has been reported.
CallbacksEarned ==
    /\ \A j \in 1..Len(callbacks) :
        /\ callbacks[j][1] = IF j % 2 = 1 THEN "healthy" ELSE "unhealthy"
        /\ IF callbacks[j][1] = "healthy" THEN InARow(TRUE, successThreshold, callbacks[j][2])
                                          ELSE InARow(FALSE, failureThreshold, callbacks[j][2])
    /\ InARow(TRUE, successThreshold, Len(results)) => Len(callbacks) % 2 = 1
    /\ InARow(FALSE, failureThreshold, Len(results)) => Len(callbacks) % 2 = 0

\* What is reported is true, although requests are lost, late or repeated, amounts
\* are given back twice and probes alternate.
ReportsSafe == HeartbeatHonest /\ NeverOverstated /\ CallbacksEarned
=============================================================================
