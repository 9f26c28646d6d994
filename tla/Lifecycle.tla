----------------------------- MODULE Lifecycle -----------------------------
(***************************************************************************)
(* The sandbox lifecycle manager (pkg/sandbox/lifecycle/manager.go) and    *)
(* the tenant accounts it books on.  Every method and every background     *)
(* loop runs under lm.mu: one action each, whose calls into the tenant     *)
(* manager are part of it.                                                 *)
(* Time is abstracted to what the loops ask of it: whether the deadline of *)
(* the current phase (creation, scheduling or grace timeout, or the retry  *)
(* backoff) has passed, and whether the ExpirationTime set at creation is. *)
(* PendingActions is appended to and never read, and IdleSince is read and *)
(* never set, so checkIdleSandboxes changes nothing: both are left out.    *)
(*                                                                         *)
(* No code moves a sandbox from Pending to Scheduling or from Pausing to   *)
(* Paused, although the table allows it and a comment of the controller    *)
(* says the scheduler does the former.  ExternalTransitions are the moves  *)
(* some collaborator is taken to make: {} is the program as it stands.     *)
(***************************************************************************)
EXTENDS TenantAccounting

CONSTANTS
    Keys,                \* "namespace/name" of the sandboxes
    SandboxSpecs,        \* [tenant, request, autoDelete, lifetime]
    ExternalTransitions, \* subset of validTransitions made outside the manager
    maxRetryCount,
    NoNode,              \* the empty NodeName
    Absent,              \* lm.sandboxes has no entry
    MaxTotal             \* bound on TotalSandboxCount

\* The phases of a sandbox, with the table of the allowed moves.
validTransitions ==
    ({"Pending"}    \X {"Scheduling", "Failed", "Terminating"}) \cup
    ({"Scheduling"} \X {"Creating", "Pending", "Failed"}) \cup
    ({"Creating"}   \X {"Running", "Failed", "Pending"}) \cup
    ({"Running"}    \X {"Pausing", "Stopping", "Terminating", "Failed", "Evicted"}) \cup
    ({"Pausing"}    \X {"Paused", "Failed", "Running"}) \cup
    ({"Paused"}     \X {"Resuming", "Stopping", "Terminating"}) \cup
    ({"Resuming"}   \X {"Running", "Failed", "Paused"}) \cup
    ({"Stopping"}   \X {"Stopped", "Failed"}) \cup
    ({"Stopped"}    \X {"Terminating", "Creating"}) \cup
    ({"Evicted"}    \X {"Pending", "Terminating"}) \cup
    ({"Failed"}     \X {"Pending", "Terminating"})

SandboxPhases == {m[1] : m \in validTransitions} \cup {"Terminating"}

ASSUME KeysAssumption == Keys # {}
ASSUME SandboxSpecsAssumption ==
    SandboxSpecs \subseteq [tenant : Tenants, request : Requests,
                            autoDelete : BOOLEAN, lifetime : BOOLEAN]
ASSUME ExternalAssumption == ExternalTransitions \subseteq
    {<<"Pending", "Scheduling">>, <<"Pausing", "Paused">>}
ASSUME RetryAssumption == maxRetryCount \in Nat \ {0}
ASSUME NoNodeAssumption == NoNode \notin Nodes
ASSUME TotalAssumption == MaxTotal \in Nat

VARIABLES
    sandboxes  \* lm.sandboxes: SandboxState, or Absent

vars == <<tvars, sandboxes>>

Managed(k) == sandboxes[k] # Absent

In(k, phases) == Managed(k) /\ sandboxes[k].phase \in phases

NewState(spec) ==
    [spec |-> spec, phase |-> "Pending", target |-> "Running", retryCount |-> 0,
     overdue |-> FALSE, expiry |-> IF spec.lifetime THEN "ahead" ELSE "none",
     deleting |-> FALSE, handle |-> FALSE, node |-> NoNode, scheduled |-> NoNode]

LifecycleInit ==
    /\ TenantInit
    /\ sandboxes = [k \in Keys |-> Absent]

-----------------------------------------------------------------------------
(* What the methods are made of *)

\* transitionPhase: refused when the table does not list the move.
CanMove(k, to) == <<sandboxes[k].phase, to>> \in validTransitions

Moved(state, to) == [state EXCEPT !.phase = to, !.overdue = FALSE]

Put(k, state) == sandboxes' = [sandboxes EXCEPT ![k] = state]

\* tenantManager.ReleaseResources, whose error the callers drop.
Release(k, spec) ==
    IF sandboxes[k].node # NoNode /\ Exists(spec.tenant)
    THEN ReleaseResources(spec.tenant, sandboxes[k].node, spec.request)
    ELSE UNCHANGED tvars

-----------------------------------------------------------------------------
(* Methods *)

\* The runtime and the scheduling policy are validated after the admission.
CreateSandbox(k, spec) ==
    /\ ~ Managed(k)
    /\ \E admitted, valid \in BOOLEAN :
          /\ CanCreateSandbox(spec.tenant, spec.request, admitted)
          /\ IF admitted /\ valid THEN Put(k, NewState(spec)) ELSE UNCHANGED sandboxes

\* resumeSandboxLocked.
ResumeSandbox(k) ==
    /\ In(k, {"Paused"})
    /\ Put(k, [Moved(sandboxes[k], "Resuming") EXCEPT !.target = "Running"])
    /\ UNCHANGED tvars

\* A paused sandbox is resumed; a stopped one is created anew on its node.
StartSandbox(k) ==
    \/ ResumeSandbox(k)
    \/ /\ In(k, {"Stopped"})
       /\ Put(k, Moved(sandboxes[k], "Creating"))
       /\ UNCHANGED tvars

StopSandbox(k) ==
    /\ In(k, {"Running", "Paused"})
    /\ Put(k, [Moved(sandboxes[k], "Stopping") EXCEPT !.target = "Stopped"])
    /\ UNCHANGED tvars

PauseSandbox(k) ==
    /\ In(k, {"Running"})
    /\ Put(k, [Moved(sandboxes[k], "Pausing") EXCEPT !.target = "Paused"])
    /\ UNCHANGED tvars

\* The deletion timestamp is set even when the move is then refused.
DeleteSandbox(k) ==
    LET marked == [sandboxes[k] EXCEPT !.deleting = TRUE] IN
    /\ Managed(k)
    /\ sandboxes[k].phase # "Terminating"
    /\ Put(k, IF sandboxes[k].phase \in {"Running", "Paused"}
              THEN [Moved(marked, "Stopping") EXCEPT !.target = "Terminating"]
              ELSE IF CanMove(k, "Terminating") THEN Moved(marked, "Terminating")
              ELSE marked)
    /\ UNCHANGED tvars

\* Mutant: the sandbox keeps its node.
EvictSandboxKeepsNode(k) ==
    /\ In(k, {"Running", "Paused"})
    /\ Release(k, sandboxes[k].spec)
    /\ Put(k, IF CanMove(k, "Evicted") THEN Moved(sandboxes[k], "Evicted") ELSE sandboxes[k])

\* The resources are released before the move is tried; a paused sandbox, which
\* cannot move to Evicted, stays paused without them.
EvictSandbox(k) ==
    /\ In(k, {"Running", "Paused"})
    /\ Release(k, sandboxes[k].spec)
    /\ Put(k, IF CanMove(k, "Evicted")
              THEN [Moved(sandboxes[k], "Evicted") EXCEPT !.node = NoNode, !.handle = FALSE]
              ELSE sandboxes[k])

\* The allocation is rolled back when the move is refused; the counters of
\* sandboxes created and the scheduled node stay.
ScheduleSandbox(k, n) ==
    LET spec   == sandboxes[k].spec
        placed == [sandboxes[k] EXCEPT !.scheduled = n]
    IN  /\ In(k, {"Pending", "Scheduling"})
        /\ Exists(spec.tenant)
        /\ tenants[spec.tenant].total < MaxTotal
        /\ IF CanMove(k, "Creating")
           THEN /\ AllocateResources(spec.tenant, n, spec.request)
                /\ Put(k, Moved(placed, "Creating"))
           ELSE /\ tenants' = [tenants EXCEPT ![spec.tenant] =
                      Released(Allocated(@, n, spec.request), n, spec.request)]
                /\ quotas' = [quotas EXCEPT ![spec.tenant] =
                      Refund(Charge(@, spec.request), spec.request)]
                /\ Put(k, placed)
                /\ UNCHANGED <<buckets, now, nextReset>>

MarkSandboxRunning(k) ==
    /\ In(k, {"Creating", "Resuming"})
    /\ Put(k, [Moved(sandboxes[k], "Running") EXCEPT !.handle = TRUE,
                                                     !.node = sandboxes[k].scheduled])
    /\ UNCHANGED tvars

\* The resources are released before the move is tried, and the node is kept.
MarkSandboxFailed(k) ==
    /\ Managed(k)
    /\ Release(k, sandboxes[k].spec)
    /\ Put(k, IF CanMove(k, "Failed")
              THEN [Moved(sandboxes[k], "Failed") EXCEPT !.retryCount = @ + 1]
              ELSE sandboxes[k])

-----------------------------------------------------------------------------
(* Background loops: each passes over every sandbox *)

\* Mutant: a sandbox that does not stop in time is left alone.
checkTimeoutsNoGrace ==
    LET failed == {k \in Keys : In(k, {"Creating", "Scheduling"}) /\ sandboxes[k].overdue}
    IN  /\ failed # {}
        /\ sandboxes' = [k \in Keys |->
              IF k \in failed THEN Moved(sandboxes[k], "Failed") ELSE sandboxes[k]]
        /\ UNCHANGED tvars

\* RetryCount is not counted up and nothing is released.
checkTimeouts ==
    LET failed  == {k \in Keys : In(k, {"Creating", "Scheduling"}) /\ sandboxes[k].overdue}
        stopped == {k \in Keys : In(k, {"Stopping"}) /\ sandboxes[k].overdue}
    IN  /\ failed \cup stopped # {}
        /\ sandboxes' = [k \in Keys |->
              IF k \in failed THEN Moved(sandboxes[k], "Failed")
              ELSE IF k \in stopped THEN Moved(sandboxes[k], "Stopped")
              ELSE sandboxes[k]]
        /\ UNCHANGED tvars

checkExpirations ==
    LET over == {k \in Keys : In(k, {"Running", "Paused"}) /\ sandboxes[k].expiry = "past"} IN
    /\ over # {}
    /\ sandboxes' = [k \in Keys |->
          IF k \in over
          THEN [Moved(sandboxes[k], "Stopping") EXCEPT !.target = "Terminating"]
          ELSE sandboxes[k]]
    /\ UNCHANGED tvars

\* With no failure counted the shift 1 << uint(RetryCount - 1) yields 0, and so
\* does the backoff.
RetryDue(k) ==
    /\ In(k, {"Failed"})
    /\ sandboxes[k].retryCount < maxRetryCount
    /\ sandboxes[k].overdue \/ sandboxes[k].retryCount = 0

processRetries ==
    LET due == {k \in Keys : RetryDue(k)} IN
    /\ due # {}
    /\ sandboxes' = [k \in Keys |->
          IF k \in due THEN [Moved(sandboxes[k], "Pending") EXCEPT !.target = "Running"]
          ELSE sandboxes[k]]
    /\ UNCHANGED tvars

cleanupCompletedSandboxes ==
    LET done == {k \in Keys : /\ In(k, {"Stopped", "Failed"})
                              /\ sandboxes[k].spec.autoDelete
                              /\ ~ sandboxes[k].deleting}
    IN  /\ done # {}
        /\ sandboxes' = [k \in Keys |->
              IF k \in done
              THEN [Moved(sandboxes[k], "Terminating") EXCEPT !.deleting = TRUE]
              ELSE sandboxes[k]]
        /\ UNCHANGED tvars

-----------------------------------------------------------------------------
(* Informer handlers; onSandboxAdd is CreateSandbox *)

\* The object is replaced, its resources included; a deletion sets the target.
onSandboxUpdate(k, spec, deletion) ==
    LET state == [sandboxes[k] EXCEPT !.spec = spec] IN
    /\ Managed(k)
    /\ Put(k, IF deletion /\ ~ state.deleting
              THEN [state EXCEPT !.deleting = TRUE, !.target = "Terminating"]
              ELSE state)
    /\ UNCHANGED tvars

\* The release goes by the object the event carries.
onSandboxDelete(k, spec) ==
    /\ Managed(k)
    /\ Release(k, spec)
    /\ Put(k, Absent)

-----------------------------------------------------------------------------
(* Time, the tenants and the collaborators *)

DeadlinePasses(k) ==
    /\ In(k, {"Scheduling", "Creating", "Stopping", "Failed"})
    /\ ~ sandboxes[k].overdue
    /\ Put(k, [sandboxes[k] EXCEPT !.overdue = TRUE])
    /\ UNCHANGED tvars

LifetimeEnds(k) ==
    /\ Managed(k)
    /\ sandboxes[k].expiry = "ahead"
    /\ Put(k, [sandboxes[k] EXCEPT !.expiry = "past"])
    /\ UNCHANGED tvars

ExternalTransition(k, to) ==
    /\ Managed(k)
    /\ <<sandboxes[k].phase, to>> \in ExternalTransitions
    /\ Put(k, Moved(sandboxes[k], to))
    /\ UNCHANGED tvars

\* The tenants are registered before their sandboxes arrive.
Register(t, spec) ==
    /\ ~ Exists(t)
    /\ RegisterTenant(t, spec, "Active")
    /\ UNCHANGED sandboxes

Unregister(t) ==
    /\ UnregisterTenant(t)
    /\ UNCHANGED sandboxes

Call(k) ==
    \/ \E spec \in SandboxSpecs : CreateSandbox(k, spec)
    \/ StartSandbox(k) \/ StopSandbox(k) \/ PauseSandbox(k)
    \/ DeleteSandbox(k) \/ EvictSandbox(k)
    \/ \E n \in Nodes : ScheduleSandbox(k, n)
    \/ MarkSandboxRunning(k) \/ MarkSandboxFailed(k)
    \/ \E spec \in SandboxSpecs, deletion \in BOOLEAN : onSandboxUpdate(k, spec, deletion)
    \/ \E spec \in SandboxSpecs : onSandboxDelete(k, spec)

LifecycleNext ==
    \/ \E k \in Keys : Call(k) \/ DeadlinePasses(k) \/ LifetimeEnds(k)
    \/ \E k \in Keys, to \in {"Scheduling", "Paused"} : ExternalTransition(k, to)
    \/ checkTimeouts \/ checkExpirations \/ processRetries \/ cleanupCompletedSandboxes
    \/ \E t \in Tenants, spec \in Specs : Register(t, spec)
    \/ \E t \in Tenants : Unregister(t)

LifecycleSpec == LifecycleInit /\ [][LifecycleNext]_vars

\* The loops of Start run for ever and time passes; no client has to call.
FairLifecycleSpec ==
    /\ LifecycleSpec
    /\ WF_vars(checkTimeouts) /\ WF_vars(checkExpirations)
    /\ WF_vars(processRetries) /\ WF_vars(cleanupCompletedSandboxes)
    /\ \A k \in Keys : WF_vars(DeadlinePasses(k)) /\ WF_vars(LifetimeEnds(k))

-----------------------------------------------------------------------------
(* Properties *)

States == [spec : SandboxSpecs, phase : SandboxPhases, target : SandboxPhases,
           retryCount : Nat, overdue : BOOLEAN, expiry : {"none", "ahead", "past"},
           deleting : BOOLEAN, handle : BOOLEAN,
           node : Nodes \cup {NoNode}, scheduled : Nodes \cup {NoNode}]

ASSUME AbsentAssumption == Absent \notin States

\* Every SandboxState and every tenant account is one its type allows.
LifecycleTypeOK ==
    /\ AccountsOK
    /\ sandboxes \in [Keys -> States \cup {Absent}]

\* A sandbox that runs, or has run and was not taken away, has its handle and its
\* NodeName is the node it was scheduled to last; an evicted one has neither: what
\* ListSandboxesByNode, a force stop and the release of its resources rely on,
\* through failed schedules, retries on another node, restarts and resumes.
Placed ==
    \A k \in Keys :
        /\ In(k, {"Running", "Pausing", "Paused", "Resuming", "Stopping", "Stopped"}) =>
              /\ sandboxes[k].handle
              /\ sandboxes[k].node = sandboxes[k].scheduled
              /\ sandboxes[k].node # NoNode
        /\ In(k, {"Evicted"}) => sandboxes[k].node = NoNode /\ ~ sandboxes[k].handle
        /\ In(k, {"Creating"}) => sandboxes[k].scheduled # NoNode

\* RetryCount stays within maxRetryCount, and a sandbox that has used it up is
\* failed for good: nothing but its deletion is left (processRetries' test and
\* the refusal of Failed -> Failed together).
RetriesBounded ==
    \A k \in Keys : Managed(k) =>
        /\ sandboxes[k].retryCount <= maxRetryCount
        /\ sandboxes[k].retryCount = maxRetryCount => In(k, {"Failed", "Terminating"})

\* No sandbox stays in Scheduling, Creating or Stopping: the timeout loop ends
\* each of them, whatever its client does or fails to do.
TransientEnds ==
    \A k \in Keys : \A p \in {"Scheduling", "Creating", "Stopping"} :
        In(k, {p}) ~> ~ In(k, {p})

\* A failed sandbox with retries left does not stay failed.
FailedRetried ==
    \A k \in Keys :
        (In(k, {"Failed"}) /\ sandboxes[k].retryCount < maxRetryCount) ~> ~ In(k, {"Failed"})

\* "ScheduleSandbox marks a sandbox as scheduled to a specific node": after it the
\* sandbox is being created there.
ScheduleSucceeds ==
    [][\A k \in Keys, n \in Nodes : ScheduleSandbox(k, n) => In(k, {"Creating"})']_vars

\* What the manager keeps through failures, timeouts, retries, evictions and late
\* answers: where a sandbox is, how often it was retried and what it is charged for.
LifecycleSafe == LifecycleTypeOK /\ Placed /\ RetriesBounded /\ QuotaNeverOvercounts

\* The background loops leave no sandbox in a passing phase, nor in a failure with
\* retries left.
LifecycleProgress == TransientEnds /\ FailedRetried
=============================================================================
