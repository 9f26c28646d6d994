----------------------------- MODULE Scheduler -----------------------------
(***************************************************************************)
(* The sandbox scheduler (pkg/scheduler/scheduler.go) on top of its queue  *)
(* and of the plugin framework (pkg/scheduler/framework/framework.go).     *)
(* Three kinds of goroutines meet in the queue: the informer's handlers,   *)
(* the single scheduling loop, and the queue's flush loops.  The loop      *)
(* holds no lock between Pop and handleSchedulingFailure, so handlers and  *)
(* flushes interleave with a cycle in flight.  Plugins are external code:  *)
(* any of them may accept or reject.                                       *)
(***************************************************************************)
EXTENDS SchedulingQueue

CONSTANTS
    NumReserve, \* len(f.reservePlugins)
    MaxEvents   \* bound on the number of informer events

ASSUME ReserveAssumption == NumReserve \in Nat
ASSUME EventsAssumption == MaxEvents \in Nat

VARIABLES
    sandboxes, \* the informer's object of a key: its phase and NodeName
    cycle,     \* the scheduling cycle in flight: [step, info], or Idle
    reserved,  \* per reserve plugin, the keys it holds a reservation for
    metrics,   \* SchedulerMetrics: the four attempt counters
    stopped,   \* stopCh is closed
    events,    \* informer events so far
    outcome,   \* history: how the last finished attempt since the last enqueue ended
    binds      \* history: successful Bind calls per key

svars == <<sandboxes, cycle, reserved, metrics, stopped, events, outcome, binds>>
vars == <<qvars, svars>>

\* "pending" is Phase Pending with NodeName "", "pendingOnNode" has a NodeName,
\* "other" is any later phase.
Present == {"pending", "pendingOnNode", "other"}
Outcomes == {"none", "bound", "unschedulable"}
Counters == {"attempts", "success", "failure", "unschedulable"}
Plugins == 1..NumReserve
Idle == [step |-> "idle"]
Steps == {"scheduling", "binding", "failed"}
Cycles == {Idle} \cup [step : Steps, info : SandboxInfos]

InFlight(key) == cycle # Idle /\ cycle.info.key = key

SchedulerInit ==
    /\ QueueInit
    /\ sandboxes = [k \in Keys |-> "absent"]
    /\ cycle = Idle
    /\ reserved = [p \in Plugins |-> {}]
    /\ metrics = [c \in Counters |-> 0]
    /\ stopped = FALSE
    /\ events = 0
    /\ outcome = [k \in Keys |-> "none"]
    /\ binds = [k \in Keys |-> 0]

-----------------------------------------------------------------------------
(* Informer handlers *)

\* The informer delivers one more event: the object of the key is now obj.
Event(key, obj) ==
    /\ events < MaxEvents
    /\ events' = events + 1
    /\ sandboxes' = [sandboxes EXCEPT ![key] = obj]

\* A fresh SandboxInfo with Attempts 1 goes to the queue.
Enqueue(key, spec) ==
    /\ clock < MaxClock
    /\ Add([key |-> key, spec |-> spec, attempts |-> 1])
    /\ outcome' = [outcome EXCEPT ![key] = "none"]

onSandboxAdd(key, obj, spec) ==
    /\ sandboxes[key] = "absent"
    /\ Event(key, obj)
    /\ IF obj \in {"pending", "pendingOnNode"}
       THEN Enqueue(key, spec)
       ELSE UNCHANGED <<qvars, outcome>>
    /\ UNCHANGED <<cycle, reserved, metrics, stopped, binds>>

onSandboxUpdate(key, obj, spec) ==
    /\ sandboxes[key] # "absent"
    /\ Event(key, obj)
    /\ IF obj = "pending"
       THEN Enqueue(key, spec)
       ELSE UNCHANGED <<qvars, outcome>>
    /\ UNCHANGED <<cycle, reserved, metrics, stopped, binds>>

onSandboxDelete(key) ==
    /\ sandboxes[key] # "absent"
    /\ Event(key, "absent")
    /\ Delete(key)
    /\ UNCHANGED <<cycle, reserved, metrics, stopped, outcome, binds>>

-----------------------------------------------------------------------------
(* The scheduling loop *)

\* Pop on an empty queue returns an error and the cycle ends: a stutter.
PopNext ==
    /\ ~ stopped
    /\ cycle = Idle
    /\ \E w \in activeQ :
          /\ Pop(w)
          /\ cycle' = [step |-> "scheduling", info |-> w.info]
    /\ UNCHANGED <<sandboxes, reserved, metrics, stopped, events, outcome, binds>>

\* RecordSchedulingAttempt: every record counts as an attempt too.
Record(m, result) ==
    [c \in Counters |-> IF c \in {"attempts", result} THEN m[c] + 1 ELSE m[c]]

Goto(step) == cycle' = [cycle EXCEPT !.step = step]

\* PreFilter, Filter (no feasible node), PreScore, Score or select rejects.
ScheduleFails ==
    /\ cycle.step = "scheduling"
    /\ Goto("failed")
    /\ UNCHANGED <<qvars, sandboxes, reserved, metrics, stopped, events, outcome, binds>>

\* RunReservePluginsReserve: plugins before p have reserved when p rejects;
\* the rollback walks from the last plugin down and stops at p.
ReserveFails(p) ==
    /\ cycle.step = "scheduling"
    /\ reserved' = [q \in Plugins |->
                       IF q < p THEN reserved[q] \cup {cycle.info.key}
                       ELSE IF q > p THEN reserved[q] \ {cycle.info.key}
                       ELSE reserved[q]]
    /\ Goto("failed")
    /\ UNCHANGED <<qvars, sandboxes, metrics, stopped, events, outcome, binds>>

RunReservePluginsUnreserve ==
    reserved' = [p \in Plugins |-> reserved[p] \ {cycle.info.key}]

\* Every Reserve succeeds and a Permit plugin rejects.
PermitFails ==
    /\ cycle.step = "scheduling"
    /\ RunReservePluginsUnreserve
    /\ Goto("failed")
    /\ UNCHANGED <<qvars, sandboxes, metrics, stopped, events, outcome, binds>>

\* Every Reserve and every Permit succeeds (a Permit that says Wait does not
\* reject): scheduleSandbox returns the host.
ScheduleSucceeds ==
    /\ cycle.step = "scheduling"
    /\ reserved' = [p \in Plugins |-> reserved[p] \cup {cycle.info.key}]
    /\ Goto("binding")
    /\ UNCHANGED <<qvars, sandboxes, metrics, stopped, events, outcome, binds>>

\* bindSandbox: PreBind or Bind rejects.
BindFails ==
    /\ cycle.step = "binding"
    /\ RunReservePluginsUnreserve
    /\ Goto("failed")
    /\ UNCHANGED <<qvars, sandboxes, metrics, stopped, events, outcome, binds>>

\* bindSandbox records a success, and so does schedulingCycle after it.
BindSucceeds ==
    /\ cycle.step = "binding"
    /\ metrics' = Record(Record(metrics, "success"), "success")
    /\ outcome' = [outcome EXCEPT ![cycle.info.key] = "bound"]
    /\ binds' = [binds EXCEPT ![cycle.info.key] = @ + 1]
    /\ cycle' = Idle
    /\ UNCHANGED <<qvars, sandboxes, reserved, stopped, events>>

\* Mutant: the retry limit is off by one.
handleSchedulingFailureLate ==
    /\ cycle.step = "failed"
    /\ IF cycle.info.attempts <= maxSchedulingAttempts
       THEN /\ AddUnschedulableIfNotPresent(cycle.info)
            /\ metrics' = Record(metrics, "failure")
            /\ UNCHANGED outcome
       ELSE /\ metrics' = Record(Record(metrics, "failure"), "unschedulable")
            /\ outcome' = [outcome EXCEPT ![cycle.info.key] = "unschedulable"]
            /\ UNCHANGED qvars
    /\ cycle' = Idle
    /\ UNCHANGED <<sandboxes, reserved, stopped, events, binds>>

\* Mutant: a sandbox whose first attempt failed is not put back.
handleSchedulingFailureDrops ==
    /\ cycle.step = "failed"
    /\ IF 1 < cycle.info.attempts /\ cycle.info.attempts < maxSchedulingAttempts
       THEN /\ AddUnschedulableIfNotPresent(cycle.info)
            /\ metrics' = Record(metrics, "failure")
            /\ UNCHANGED outcome
       ELSE /\ metrics' = Record(metrics, "failure")
            /\ UNCHANGED <<qvars, outcome>>
    /\ cycle' = Idle
    /\ UNCHANGED <<sandboxes, reserved, stopped, events, binds>>

handleSchedulingFailure ==
    /\ cycle.step = "failed"
    /\ IF cycle.info.attempts < maxSchedulingAttempts
       THEN /\ AddUnschedulableIfNotPresent(cycle.info)
            /\ metrics' = Record(metrics, "failure")
            /\ UNCHANGED outcome
       ELSE /\ metrics' = Record(Record(metrics, "failure"), "unschedulable")
            /\ outcome' = [outcome EXCEPT ![cycle.info.key] = "unschedulable"]
            /\ UNCHANGED qvars
    /\ cycle' = Idle
    /\ UNCHANGED <<sandboxes, reserved, stopped, events, binds>>

-----------------------------------------------------------------------------
(* Background loops of the queue, and shutdown *)

Flush ==
    /\ ~ stopped
    /\ clock < MaxClock
    /\ flushUnschedulable
    /\ UNCHANGED svars

FlushBackoff ==
    /\ ~ stopped
    /\ flushBackoff
    /\ UNCHANGED svars

TimePasses ==
    /\ clock < MaxClock
    /\ Tick
    /\ UNCHANGED svars

\* Closes stopCh and the queue; the cycle in flight still finishes.
Stop ==
    /\ ~ stopped
    /\ stopped' = TRUE
    /\ UNCHANGED <<qvars, sandboxes, cycle, reserved, metrics, events, outcome, binds>>

CycleStep ==
    \/ PopNext
    \/ ScheduleFails
    \/ \E p \in Plugins : ReserveFails(p)
    \/ PermitFails
    \/ ScheduleSucceeds
    \/ BindFails
    \/ BindSucceeds
    \/ handleSchedulingFailure

SchedulerNext ==
    \/ \E k \in Keys, obj \in Present, spec \in Specs :
          onSandboxAdd(k, obj, spec) \/ onSandboxUpdate(k, obj, spec)
    \/ \E k \in Keys : onSandboxDelete(k)
    \/ CycleStep
    \/ Flush
    \/ FlushBackoff
    \/ TimePasses
    \/ Stop

SchedulerSpec == SchedulerInit /\ [][SchedulerNext]_vars

\* The loop and the flush loops are wait.Until goroutines that run until
\* stopCh closes, and time goes on.  Nothing is assumed of the informer.
FairSchedulerSpec ==
    /\ SchedulerSpec
    /\ WF_vars(CycleStep)
    /\ WF_vars(Flush) /\ WF_vars(FlushBackoff)
    /\ WF_vars(TimePasses)

-----------------------------------------------------------------------------
(* Properties *)

\* Every field of the scheduler keeps its type, the queue's included.
SchedulerTypeOK ==
    /\ QueueTypeOK
    /\ sandboxes \in [Keys -> Present \cup {"absent"}]
    /\ cycle \in Cycles
    /\ reserved \in [Plugins -> SUBSET Keys]
    /\ metrics \in [Counters -> Nat]
    /\ stopped \in BOOLEAN
    /\ events \in Nat
    /\ outcome \in [Keys -> Outcomes]
    /\ binds \in [Keys -> Nat]

\* A pending sandbox is never forgotten: it is in one of the two queues, in the
\* cycle in flight, or its last attempt ended in a bind or in the final "is
\* unschedulable" of handleSchedulingFailure.  The early return of
\* AddUnschedulableIfNotPresent and a delete between Pop and failure handling
\* are the places that could lose it.
PendingAccountedFor ==
    \A k \in Keys : sandboxes[k] = "pending" =>
        Queued(k) \/ InFlight(k) \/ outcome[k] # "none"

\* Between cycles a reserve plugin only holds what it reserved for a sandbox
\* that was bound: a failed attempt gives its reservations back (framework.go,
\* RunReservePluginsReserve: "Unreserve already reserved plugins").
ReservationsBacked ==
    cycle = Idle => \A p \in Plugins : \A k \in reserved[p] : binds[k] > 0

\* A deleted sandbox that a cycle in flight, or a duplicate wrapper, keeps in
\* the queue after onSandboxDelete leaves it for good unless it is re-created:
\* the ghost's attempts are bounded.
GhostsDrain ==
    \A k \in Keys : sandboxes[k] = "absent" /\ Queued(k) ~>
        ~ Queued(k) \/ sandboxes[k] # "absent" \/ stopped

\* Once the informer is quiet every waiting sandbox is tried until it is bound
\* or has used its attempts up; retries never keep the queue busy for ever.
PendingSettles ==
    \A k \in Keys : sandboxes[k] = "pending" ~>
        outcome[k] # "none" \/ sandboxes[k] # "pending" \/ stopped

\* What a scheduling cycle keeps, although informer events fall between any two of
\* its steps: no pending sandbox is forgotten and no reservation left behind.
SchedulerSafe == SchedulerTypeOK /\ PendingAccountedFor /\ ReservationsBacked

\* Scheduling comes to an end, for the sandboxes that exist and for the ghosts of
\* those that were deleted during a cycle.
SchedulerProgress == PendingSettles /\ GhostsDrain

-----------------------------------------------------------------------------
(* The instance that TLC checks has one tier of sandbox: the order between  *)
(* tiers is a matter of the queue alone.                                    *)

OneTier == {[priority |-> 50, tenant |-> "standard"]}
=============================================================================
