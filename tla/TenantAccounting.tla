-------------------------- MODULE TenantAccounting --------------------------
(***************************************************************************)
(* The accounts a tenant is admitted and charged by: TenantManager         *)
(* (pkg/tenant/manager.go), its QuotaManager                               *)
(* (pkg/tenant/quota/quota_manager.go) and its RateLimiter                 *)
(* (pkg/tenant/rate_limiter.go).  Each call is one action: the tenant      *)
(* manager's run under tm.mu and touch the quota once, under the quota     *)
(* manager's own lock, which is all that direct quota calls take.  The     *)
(* caller of CanCreateSandbox and AllocateResources holds nothing between  *)
(* the two.                                                                *)
(* A ResourceRequirements is a function from the quantities that parse     *)
(* (an empty GPU does not) to their amounts; "instances" is the sandbox    *)
(* itself, always 1.  Tokens are counted in 1/Minute of a token, so that   *)
(* refillRate = limit per Minute is exact.                                 *)
(***************************************************************************)
EXTENDS Integers, FiniteSets

CONSTANTS
    Tenants, Nodes,
    Requests,       \* the ResourceRequirements that are asked for
    Specs,          \* the TenantSpecs that are registered
    Minute, Day,    \* clock units in a minute and in a day
    MaxClock,       \* bound on the clock
    NoTenant,       \* tm.tenants[name], qm.quotas[name] or rl.configs[name] is missing
    Unparsable      \* a TenantResourceQuota ParseQuantity rejects

UsageDims == {"cpu", "memory", "gpu", "instances"}
QuotaDims == UsageDims \cup {"storage"}
Phases == {"Pending", "Active", "Suspended", "Terminating"}
Quantities == [QuotaDims -> Nat]

ASSUME RequestsAssumption ==
    \A r \in Requests :
        /\ "instances" \in DOMAIN r /\ DOMAIN r \subseteq QuotaDims
        /\ r["instances"] = 1
        /\ \A d \in DOMAIN r : r[d] \in Nat
\* validateTenantSpec rejects a limit that is not positive.
ASSUME SpecsAssumption ==
    Specs \subseteq [hard : Quantities \cup {Unparsable},
                     maxConcurrent : Nat \ {0}, maxPerDay : Nat,
                     rateLimit : [limit : Nat, burst : Nat] \cup {NoTenant}]
ASSUME TimeAssumption ==
    Minute \in Nat \ {0} /\ Day \in Nat \ {0} /\ MaxClock \in Nat

\* TenantInfo, TenantQuota and TokenBucket.
Infos == [spec : Specs, phase : Phases, usage : [UsageDims -> Nat], total : Nat,
          daily : Nat, dailyReset : Nat, onNode : [Nodes -> Nat]]
Quotas == [hard : Quantities, used : Quantities, reserved : Quantities]
Buckets == [tokens : Nat, burst : Nat, limit : Nat, lastRefill : Nat]

ASSUME SentinelAssumption ==
    /\ Unparsable \notin Quantities
    /\ NoTenant \notin [limit : Nat, burst : Nat]
    /\ NoTenant \notin Infos /\ NoTenant \notin Quotas /\ NoTenant \notin Buckets

VARIABLES
    tenants,   \* tm.tenants: TenantInfo, or NoTenant
    quotas,    \* qm.quotas: TenantQuota, or NoTenant
    buckets,   \* rl.configs: the SandboxCreateBucket, or NoTenant
    now,       \* time.Now()
    nextReset  \* when wait.Until runs resetDailyCounters again

tvars == <<tenants, quotas, buckets, now, nextReset>>

Exists(t) == tenants[t] # NoTenant

\* resources[d] when that quantity parsed, else what the code then adds: nothing.
Amount(r, d) == IF d \in DOMAIN r THEN r[d] ELSE 0

Zero(D) == [d \in D |-> 0]

Plus(a, r) == [d \in DOMAIN a |-> a[d] + Amount(r, d)]

\* Every release stops at zero.
Minus(a, r) == [d \in DOMAIN a |-> IF a[d] > Amount(r, d) THEN a[d] - Amount(r, d) ELSE 0]

TenantInit ==
    /\ tenants = [t \in Tenants |-> NoTenant]
    /\ quotas = [t \in Tenants |-> NoTenant]
    /\ buckets = [t \in Tenants |-> NoTenant]
    /\ now = 0
    /\ nextReset = 0

-----------------------------------------------------------------------------
(* The token bucket *)

NewBucket(rate) ==
    [tokens |-> rate.burst * Minute, burst |-> rate.burst, limit |-> rate.limit,
     lastRefill |-> now]

refill(b) ==
    LET tokens == b.tokens + (now - b.lastRefill) * b.limit IN
    [tokens |-> IF tokens > b.burst * Minute THEN b.burst * Minute ELSE tokens,
     burst |-> b.burst, limit |-> b.limit, lastRefill |-> now]

HasToken(t) == buckets[t] = NoTenant \/ refill(buckets[t]).tokens >= Minute

\* The bucket after a call: refilled, and a token taken if there is one.
Consumed(b) ==
    IF b = NoTenant THEN NoTenant
    ELSE IF refill(b).tokens >= Minute
         THEN [refill(b) EXCEPT !.tokens = @ - Minute]
         ELSE refill(b)

\* rl.Allow(t, "CreateSandbox").
consume(t) == buckets' = [buckets EXCEPT ![t] = Consumed(@)]

-----------------------------------------------------------------------------
(* QuotaManager *)

\* RegisterQuota: a new TenantQuota, nothing used and nothing reserved.
NewQuota(hard) ==
    [hard |-> hard, used |-> Zero(QuotaDims), reserved |-> Zero(QuotaDims)]

RegisterQuota(t, hard) ==
    /\ quotas' = [quotas EXCEPT ![t] = IF hard = Unparsable THEN @ ELSE NewQuota(hard)]
    /\ UNCHANGED <<tenants, buckets, now, nextReset>>

UnregisterQuota(t) ==
    /\ quotas' = [quotas EXCEPT ![t] = NoTenant]
    /\ UNCHANGED <<tenants, buckets, now, nextReset>>

\* Ephemeral storage is charged and never checked.
CheckQuota(t, r) ==
    /\ quotas[t] # NoTenant
    /\ \A d \in DOMAIN r \ {"storage"} : quotas[t].used[d] + r[d] <= quotas[t].hard[d]

Charge(q, r) ==
    IF q = NoTenant THEN NoTenant ELSE [q EXCEPT !.used = Plus(@, r)]

Refund(q, r) ==
    IF q = NoTenant THEN NoTenant ELSE [q EXCEPT !.used = Minus(@, r)]

Fits(q, r, d) ==
    d \in DOMAIN r => q.used[d] + q.reserved[d] + r[d] <= q.hard[d]

\* What a reservation takes; GPU and storage are not reserved.
Reservation(r) == [d \in DOMAIN r \cap {"cpu", "memory", "instances"} |-> r[d]]

\* The call that succeeds.
Reserve(t, r) ==
    /\ quotas[t] # NoTenant
    /\ Fits(quotas[t], r, "cpu")
    /\ Fits(quotas[t], r, "memory")
    /\ quotas' = [quotas EXCEPT ![t].reserved = Plus(@, Reservation(r))]
    /\ UNCHANGED <<tenants, buckets, now, nextReset>>

\* The memory does not fit: an error is returned, the CPU stays reserved.
ReserveFails(t, r) ==
    /\ quotas[t] # NoTenant
    /\ Fits(quotas[t], r, "cpu")
    /\ ~ Fits(quotas[t], r, "memory")
    /\ quotas' = [quotas EXCEPT ![t].reserved["cpu"] = @ + Amount(r, "cpu")]
    /\ UNCHANGED <<tenants, buckets, now, nextReset>>

Unreserve(t, r) ==
    /\ quotas[t] # NoTenant
    /\ quotas' = [quotas EXCEPT ![t].reserved = Minus(@, Reservation(r))]
    /\ UNCHANGED <<tenants, buckets, now, nextReset>>

-----------------------------------------------------------------------------
(* TenantManager *)

NewInfo(spec, phase) ==
    [spec |-> spec, phase |-> phase, usage |-> Zero(UsageDims), total |-> 0, daily |-> 0,
     dailyReset |-> now, onNode |-> [n \in Nodes |-> 0]]

\* A known tenant keeps its usage and its counters.
Respecified(info, spec, phase) ==
    [spec |-> spec, phase |-> phase, usage |-> info.usage, total |-> info.total,
     daily |-> info.daily, dailyReset |-> info.dailyReset, onNode |-> info.onNode]

\* Mutant: a second registration starts the usage from zero.
RegisterTenantResets(t, spec, phase) ==
    /\ tenants' = [tenants EXCEPT ![t] = NewInfo(spec, phase)]
    /\ quotas' = [quotas EXCEPT ![t] =
          IF spec.hard = Unparsable THEN @ ELSE NewQuota(spec.hard)]
    /\ buckets' = [buckets EXCEPT ![t] =
          IF spec.hard = Unparsable \/ spec.rateLimit = NoTenant THEN @
          ELSE NewBucket(spec.rateLimit)]
    /\ UNCHANGED <<now, nextReset>>

\* The quota and the bucket of a known tenant start afresh.  When the quota does
\* not parse the call returns in between: the tenant is stored, its old quota and
\* rate limit stay.  An empty Status.Phase has become Active here.
RegisterTenant(t, spec, phase) ==
    /\ tenants' = [tenants EXCEPT ![t] =
          IF @ = NoTenant THEN NewInfo(spec, phase)
          ELSE Respecified(@, spec, phase)]
    /\ quotas' = [quotas EXCEPT ![t] =
          IF spec.hard = Unparsable THEN @ ELSE NewQuota(spec.hard)]
    /\ buckets' = [buckets EXCEPT ![t] =
          IF spec.hard = Unparsable \/ spec.rateLimit = NoTenant THEN @
          ELSE NewBucket(spec.rateLimit)]
    /\ UNCHANGED <<now, nextReset>>

UnregisterTenant(t) ==
    /\ Exists(t)
    /\ tenants[t].usage["instances"] = 0
    /\ tenants' = [tenants EXCEPT ![t] = NoTenant]
    /\ quotas' = [quotas EXCEPT ![t] = NoTenant]
    /\ buckets' = [buckets EXCEPT ![t] = NoTenant]
    /\ UNCHANGED <<now, nextReset>>

\* The tests of CanCreateSandbox behind the rate limit.
WithinLimits(t, r) ==
    /\ tenants[t].spec.maxPerDay > 0 => tenants[t].daily < tenants[t].spec.maxPerDay
    /\ tenants[t].usage["instances"] < tenants[t].spec.maxConcurrent
    /\ CheckQuota(t, r)

\* The token is taken before the limits are looked at, so a refused request
\* costs one as well.
CanCreateSandbox(t, r, admitted) ==
    /\ Exists(t)
    /\ tenants[t].phase = "Active"
    /\ admitted = (HasToken(t) /\ WithinLimits(t, r))
    /\ consume(t)
    /\ UNCHANGED <<tenants, quotas, now, nextReset>>

\* TenantInfo after AllocateResources and after ReleaseResources on node n.
Allocated(info, n, r) ==
    [spec |-> info.spec, phase |-> info.phase, usage |-> Plus(info.usage, r),
     total |-> info.total + 1, daily |-> info.daily + 1, dailyReset |-> info.dailyReset,
     onNode |-> [info.onNode EXCEPT ![n] = @ + 1]]

Released(info, n, r) ==
    [spec |-> info.spec, phase |-> info.phase, usage |-> Minus(info.usage, r),
     total |-> info.total, daily |-> info.daily, dailyReset |-> info.dailyReset,
     onNode |-> [info.onNode EXCEPT ![n] = IF @ > 0 THEN @ - 1 ELSE 0]]

\* No limit is looked at.
AllocateResources(t, n, r) ==
    /\ Exists(t)
    /\ tenants' = [tenants EXCEPT ![t] = Allocated(@, n, r)]
    /\ quotas' = [quotas EXCEPT ![t] = Charge(@, r)]
    /\ UNCHANGED <<buckets, now, nextReset>>

\* Mutant: the quota is not given back.
ReleaseKeepsQuota(t, n, r) ==
    /\ Exists(t)
    /\ tenants' = [tenants EXCEPT ![t] = Released(@, n, r)]
    /\ UNCHANGED <<quotas, buckets, now, nextReset>>

ReleaseResources(t, n, r) ==
    /\ Exists(t)
    /\ tenants' = [tenants EXCEPT ![t] = Released(@, n, r)]
    /\ quotas' = [quotas EXCEPT ![t] = Refund(@, r)]
    /\ UNCHANGED <<buckets, now, nextReset>>

UpdateTenantStatus(t, phase) ==
    /\ Exists(t)
    /\ tenants' = [tenants EXCEPT ![t].phase = phase]
    /\ UNCHANGED <<quotas, buckets, now, nextReset>>

DailyReset(info) ==
    [spec |-> info.spec, phase |-> info.phase, usage |-> info.usage, total |-> info.total,
     daily |-> 0, dailyReset |-> now, onNode |-> info.onNode]

\* Started with the manager and repeated every 24 hours.
resetDailyCounters ==
    /\ now = nextReset
    /\ nextReset' = now + Day
    /\ tenants' = [t \in Tenants |->
          IF Exists(t) /\ now - tenants[t].dailyReset >= Day
          THEN DailyReset(tenants[t])
          ELSE tenants[t]]
    /\ UNCHANGED <<quotas, buckets, now>>

\* Time passes; resetDailyCounters runs when it is due.
Tick ==
    /\ now < MaxClock
    /\ now # nextReset
    /\ now' = now + 1
    /\ UNCHANGED <<tenants, quotas, buckets, nextReset>>

-----------------------------------------------------------------------------
(* Properties *)

\* The accounts keep their types, no amount in them goes negative and a bucket
\* never holds more than its burst, whatever the callers release.
AccountsOK ==
    /\ tenants \in [Tenants -> Infos \cup {NoTenant}]
    /\ quotas \in [Tenants -> Quotas \cup {NoTenant}]
    /\ buckets \in [Tenants -> Buckets \cup {NoTenant}]
    /\ \A t \in Tenants : buckets[t] # NoTenant =>
          buckets[t].tokens <= buckets[t].burst * Minute /\ buckets[t].lastRefill <= now
    /\ now \in Nat /\ nextReset \in Nat

\* The quota's account is never above the real usage: no request is refused for
\* resources that nobody holds, although RegisterQuota, UnregisterQuota and the
\* clamped releases change the two accounts separately.
QuotaNeverOvercounts ==
    \A t \in Tenants : quotas[t] # NoTenant => \A d \in UsageDims :
        quotas[t].used[d] <= IF Exists(t) THEN tenants[t].usage[d] ELSE 0
=============================================================================
