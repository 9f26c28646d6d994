---------------------------- MODULE TenantClients ----------------------------
(***************************************************************************)
(* The tenant accounts under clients that keep to the protocol: ask        *)
(* CanCreateSandbox, then AllocateResources on a node, then release once   *)
(* exactly what was allocated; and under the registrations that the        *)
(* informer's handlers, the REST server and the tenant and quota           *)
(* controllers (pkg/controller/tenant_controller.go) make meanwhile.       *)
(***************************************************************************)
EXTENDS TenantAccounting, FiniteSetsExt


CONSTANTS
    Sandboxes,
    MaxChanges,      \* bound on registrations and on direct quota changes
    MaxReservations, \* bound on Reserve calls
    MaxTotal         \* bound on TotalSandboxCount

ASSUME BoundsAssumption ==
    MaxChanges \in Nat /\ MaxReservations \in Nat /\ MaxTotal \in Nat
ASSUME SandboxesAssumption == IsFiniteSet(Sandboxes)

VARIABLES
    client,   \* what the client of a sandbox holds
    changes,  \* registrations so far
    reserves, \* Reserve calls so far
    held,     \* the reservations that were granted: a set of [id, tenant, request]
    granted,  \* history: creations the bucket of a tenant let pass since it was made
    since     \* history: when that bucket was made

cvars == <<client, changes, reserves, held, granted, since>>
vars == <<tvars, cvars>>

Nothing == [holds |-> "nothing"]
Admitted(t, r) == [holds |-> "admission", tenant |-> t, request |-> r]
Allocation(t, r, n) == [holds |-> "allocation", tenant |-> t, request |-> r, node |-> n]

ClientInit ==
    /\ TenantInit
    /\ client = [s \in Sandboxes |-> Nothing]
    /\ changes = 0 /\ reserves = 0 /\ held = {}
    /\ granted = [t \in Tenants |-> 0]
    /\ since = [t \in Tenants |-> 0]

Change == changes < MaxChanges /\ changes' = changes + 1

\* onTenantAdd, onTenantUpdate, reconcilePendingTenant and the REST server.
Register(t, spec, phase) ==
    /\ Change
    /\ RegisterTenant(t, spec, phase)
    /\ IF buckets'[t] # NoTenant /\ spec.hard # Unparsable /\ spec.rateLimit # NoTenant
       THEN /\ granted' = [granted EXCEPT ![t] = 0]
            /\ since' = [since EXCEPT ![t] = now]
       ELSE UNCHANGED <<granted, since>>
    /\ UNCHANGED <<client, reserves, held>>

\* onTenantDelete and the REST server.
Unregister(t) ==
    /\ UnregisterTenant(t)
    /\ UNCHANGED cvars

\* reconcileActiveTenant and reconcileQuota register the quota again.
reconcileQuota(t, hard) ==
    /\ Change
    /\ hard # Unparsable
    /\ RegisterQuota(t, hard)
    /\ UNCHANGED <<client, reserves, held, granted, since>>

\* reconcileTerminatingTenant.
reconcileTerminatingTenant(t) ==
    /\ Change
    /\ quotas[t] # NoTenant
    /\ UnregisterQuota(t)
    /\ UNCHANGED <<client, reserves, held, granted, since>>

SetPhase(t, phase) ==
    /\ Change
    /\ UpdateTenantStatus(t, phase)
    /\ UNCHANGED <<client, reserves, held, granted, since>>

\* granted counts the tokens taken, by refused requests too.
Ask(s, t, r) ==
    /\ client[s] = Nothing
    /\ \E admitted \in BOOLEAN :
          /\ CanCreateSandbox(t, r, admitted)
          /\ client' = [client EXCEPT ![s] = IF admitted THEN Admitted(t, r) ELSE Nothing]
    /\ granted' = [granted EXCEPT ![t] =
                      IF buckets[t] # NoTenant /\ HasToken(t) THEN @ + 1 ELSE @]
    /\ UNCHANGED <<changes, reserves, held, since>>

\* The tenant may be gone by now: an error, and the admission is dropped.
Allocate(s, n) ==
    /\ client[s].holds = "admission"
    /\ IF Exists(client[s].tenant)
       THEN /\ tenants[client[s].tenant].total < MaxTotal
            /\ AllocateResources(client[s].tenant, n, client[s].request)
            /\ client' = [client EXCEPT ![s] = Allocation(@.tenant, @.request, n)]
       ELSE /\ client' = [client EXCEPT ![s] = Nothing]
            /\ UNCHANGED tvars
    /\ UNCHANGED <<changes, reserves, held, granted, since>>

Release(s) ==
    /\ client[s].holds = "allocation"
    /\ ReleaseResources(client[s].tenant, client[s].node, client[s].request)
    /\ client' = [client EXCEPT ![s] = Nothing]
    /\ UNCHANGED <<changes, reserves, held, granted, since>>

\* A gang reserves for a member; the caller holds it only when told so.
ReserveFor(t, r) ==
    /\ reserves < MaxReservations
    /\ reserves' = reserves + 1
    /\ \/ /\ Reserve(t, r)
          /\ held' = held \cup {[id |-> reserves, tenant |-> t, request |-> r]}
       \/ /\ ReserveFails(t, r)
          /\ UNCHANGED held
    /\ UNCHANGED <<client, changes, granted, since>>

\* A tenant without a quota gives nothing back.
GiveBack(h) ==
    /\ \/ Unreserve(h.tenant, h.request)
       \/ quotas[h.tenant] = NoTenant /\ UNCHANGED tvars
    /\ held' = held \ {h}
    /\ UNCHANGED <<client, changes, reserves, granted, since>>

ClientNext ==
    \/ \E t \in Tenants, spec \in Specs, p \in Phases : Register(t, spec, p)
    \/ \E t \in Tenants : Unregister(t) \/ reconcileTerminatingTenant(t)
    \/ \E t \in Tenants, spec \in Specs : reconcileQuota(t, spec.hard)
    \/ \E t \in Tenants, p \in Phases : SetPhase(t, p)
    \/ \E s \in Sandboxes, t \in Tenants, r \in Requests : Ask(s, t, r)
    \/ \E s \in Sandboxes, n \in Nodes : Allocate(s, n)
    \/ \E s \in Sandboxes : Release(s)
    \/ \E t \in Tenants, r \in Requests : ReserveFor(t, r)
    \/ \E h \in held : GiveBack(h)
    \/ resetDailyCounters /\ UNCHANGED cvars
    \/ Tick /\ UNCHANGED cvars

ClientSpec == ClientInit /\ [][ClientNext]_vars

-----------------------------------------------------------------------------
(* Properties *)

\* The sandboxes that hold an allocation of the tenant, and on a node.
Live(t) == {s \in Sandboxes : client[s].holds = "allocation" /\ client[s].tenant = t}
LiveOn(t, n) == {s \in Live(t) : client[s].node = n}

Total(S, d) == MapThenSumSet(LAMBDA s : Amount(client[s].request, d), S)

Holds == {Nothing} \cup {Admitted(t, r) : t \in Tenants, r \in Requests}
         \cup {Allocation(t, r, n) : t \in Tenants, r \in Requests, n \in Nodes}

\* The accounts keep their types, and a client holds nothing, an admission or an
\* allocation of a request that was made.
TenantTypeOK ==
    /\ AccountsOK
    /\ client \in [Sandboxes -> Holds]
    /\ granted \in [Tenants -> Nat] /\ since \in [Tenants -> Nat]

\* ResourceUsage is what the live sandboxes of the tenant hold, and SandboxCount
\* is where they run, whatever registrations, refusals and resets come between
\* AllocateResources and ReleaseResources.
UsageMatches ==
    \A t \in Tenants : Exists(t) =>
        /\ \A d \in UsageDims : tenants[t].usage[d] = Total(Live(t), d)
        /\ \A n \in Nodes : tenants[t].onNode[n] = Cardinality(LiveOn(t, n))

\* A sandbox that holds resources has its tenant: UnregisterTenant's test of
\* ActiveSandboxCount keeps the accounts its release will be booked on.
NoOrphans == \A t \in Tenants : Live(t) # {} => Exists(t)

\* While a bucket lives, the creations it lets pass are at most its burst and
\* what the limit per minute allows for the time that has passed.
RateBound ==
    \A t \in Tenants : buckets[t] # NoTenant =>
        granted[t] * Minute + buckets[t].tokens
            <= buckets[t].burst * Minute + buckets[t].limit * (buckets[t].lastRefill - since[t])

\* "Used defines the currently used resources" (TenantQuota): what the live
\* sandboxes of a tenant hold is what its quota counts as used.
UsedIsCurrent ==
    \A t \in Tenants : Exists(t) /\ quotas[t] # NoTenant =>
        \A d \in UsageDims : quotas[t].used[d] = Total(Live(t), d)

\* What the manager, the quotas and the rate limiter keep for a tenant, although an
\* admission and its allocation are two calls: no allocation without its tenant, no
\* quota used up by nobody, no more creations than the rate allows.
TenantSafe == TenantTypeOK /\ NoOrphans /\ QuotaNeverOvercounts /\ RateBound
=============================================================================
