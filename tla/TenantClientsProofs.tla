------------------------- MODULE TenantClientsProofs -------------------------
(***************************************************************************)
(* Proofs about the tenant accounts under disciplined clients: the types,  *)
(* the quota below the usage, no allocation without its tenant, and the    *)
(* bound of the rate limiter, for any sets of tenants, sandboxes, nodes    *)
(* and requests and any limits.  The last two parts are about the log      *)
(* streams with their index and about the MCP hub, where a sequence is     *)
(* filtered or strung together.                                            *)
(***************************************************************************)
EXTENDS TenantClients, LogStreams, MCPHub, TenantAccountingProofs, RecursionTheorems, SequenceTheorems

\* ActiveSandboxCount is the number of allocations that are live: what makes
\* UnregisterTenant's test mean that none is left.
Counted ==
    \A t \in Tenants : Exists(t) => tenants[t].usage["instances"] = Cardinality(Live(t))

\* What the reservations that are held name.
HeldOK == \A h \in held : h.tenant \in Tenants /\ h.request \in Requests

\* History: no bucket is older than its last refill.
SinceOK == \A t \in Tenants : buckets[t] # NoTenant => since[t] <= buckets[t].lastRefill

CInv == TenantTypeOK /\ QuotaNeverOvercounts /\ HeldOK /\ NoOrphans /\ Counted
        /\ UsageMatches /\ SinceOK /\ RateBound

-----------------------------------------------------------------------------
(* What a client can hold *)

LEMMA HoldsCases ==
    ASSUME NEW c \in Holds
    PROVE  /\ c.holds \in {"nothing", "admission", "allocation"}
           /\ c.holds = "admission" => c.tenant \in Tenants /\ c.request \in Requests
           /\ c.holds = "allocation" =>
                 c.tenant \in Tenants /\ c.request \in Requests /\ c.node \in Nodes
BY DEF Holds, Nothing, Admitted, Allocation

LEMMA LiveFinite ==
    ASSUME NEW t \in Tenants
    PROVE  IsFiniteSet(Live(t)) /\ Cardinality(Live(t)) \in Nat
<1>1. Live(t) \subseteq Sandboxes
  BY DEF Live
<1>2. IsFiniteSet(Live(t))
  BY <1>1, SandboxesAssumption, FS_Subset
<1> QED BY <1>2, FS_CardinalityType

LEMMA OneInstance ==
    ASSUME NEW r \in Requests
    PROVE  Amount(r, "instances") = 1
BY RequestsAssumption DEF Amount

-----------------------------------------------------------------------------
(* The types and the quota, step by step *)

LEMMA AInvOfTypes == TenantTypeOK /\ QuotaNeverOvercounts <=> AInv /\ TenantTypeOK
BY DEF TenantTypeOK, AInv

\* Every step keeps the accounts.
LEMMA StepAccounts ==
    ASSUME TenantTypeOK, QuotaNeverOvercounts, HeldOK, [ClientNext]_vars
    PROVE  AInv'
<1>0. AInv
  BY AInvOfTypes
<1>1. ASSUME NEW t \in Tenants, NEW spec \in Specs, NEW p \in Phases, Register(t, spec, p)
      PROVE  AInv'
  BY <1>0, <1>1, RegisterKeeps DEF Register
<1>2. ASSUME NEW t \in Tenants, Unregister(t)
      PROVE  AInv'
  BY <1>0, <1>2, UnregisterKeeps DEF Unregister
<1>3. ASSUME NEW t \in Tenants, reconcileTerminatingTenant(t)
      PROVE  AInv'
  BY <1>0, <1>3, UnregisterQuotaKeeps DEF reconcileTerminatingTenant
<1>4. ASSUME NEW t \in Tenants, NEW spec \in Specs, reconcileQuota(t, spec.hard)
      PROVE  AInv'
  <2>1. spec.hard \in Quantities
    BY <1>4, SpecsAssumption DEF reconcileQuota
  <2> QED BY <1>0, <1>4, <2>1, RegisterQuotaKeeps DEF reconcileQuota
<1>5. ASSUME NEW t \in Tenants, NEW p \in Phases, SetPhase(t, p)
      PROVE  AInv'
  BY <1>0, <1>5, StatusKeeps DEF SetPhase
<1>6. ASSUME NEW s \in Sandboxes, NEW t \in Tenants, NEW r \in Requests, Ask(s, t, r)
      PROVE  AInv'
  BY <1>0, <1>6, CanCreateKeeps DEF Ask
<1>7. ASSUME NEW s \in Sandboxes, NEW n \in Nodes, Allocate(s, n)
      PROVE  AInv'
  <2>1. client[s].tenant \in Tenants /\ client[s].request \in Requests
    BY <1>7, HoldsCases DEF Allocate, TenantTypeOK
  <2> QED BY <1>0, <1>7, <2>1, AllocateResourcesKeeps, Unchanged DEF Allocate
<1>8. ASSUME NEW s \in Sandboxes, Release(s)
      PROVE  AInv'
  <2>1. /\ client[s].tenant \in Tenants /\ client[s].request \in Requests
        /\ client[s].node \in Nodes
    BY <1>8, HoldsCases DEF Release, TenantTypeOK
  <2> QED BY <1>0, <1>8, <2>1, ReleaseResourcesKeeps DEF Release
<1>9. ASSUME NEW t \in Tenants, NEW r \in Requests, ReserveFor(t, r)
      PROVE  AInv'
  BY <1>0, <1>9, ReserveKeeps DEF ReserveFor
<1>10. ASSUME NEW h \in held, GiveBack(h)
       PROVE  AInv'
  <2>1. h.tenant \in Tenants /\ h.request \in Requests
    BY DEF HeldOK
  <2> QED BY <1>0, <1>10, <2>1, ReserveKeeps, Unchanged DEF GiveBack
<1>11. CASE resetDailyCounters \/ Tick
  BY <1>0, <1>11, ClockKeeps
<1>12. CASE UNCHANGED vars
  BY <1>0, <1>12, Unchanged DEF vars
<1> QED BY <1>1, <1>2, <1>3, <1>4, <1>5, <1>6, <1>7, <1>8, <1>9, <1>10, <1>11, <1>12
       DEF ClientNext

\* The clients, their histories and the reservations keep their types.
LEMMA StepTypes ==
    ASSUME TenantTypeOK, QuotaNeverOvercounts, HeldOK, [ClientNext]_vars
    PROVE  TenantTypeOK' /\ QuotaNeverOvercounts' /\ HeldOK'
<1>0. AInv' /\ now \in Nat
  BY StepAccounts DEF TenantTypeOK, AccountsOK
<1>1. client' \in [Sandboxes -> Holds]
  <2>1. ASSUME NEW s \in Sandboxes, NEW t \in Tenants, NEW r \in Requests, Ask(s, t, r)
        PROVE  client' \in [Sandboxes -> Holds]
    BY <2>1 DEF Ask, TenantTypeOK, Holds
  <2>2. ASSUME NEW s \in Sandboxes, NEW n \in Nodes, Allocate(s, n)
        PROVE  client' \in [Sandboxes -> Holds]
    <3>1. client[s].tenant \in Tenants /\ client[s].request \in Requests
      BY <2>2, HoldsCases DEF Allocate, TenantTypeOK
    <3>2. Allocation(client[s].tenant, client[s].request, n) \in Holds /\ Nothing \in Holds
      BY <3>1 DEF Holds
    <3> QED BY <2>2, <3>2 DEF Allocate, TenantTypeOK
  <2>3. ASSUME NEW s \in Sandboxes, Release(s)
        PROVE  client' \in [Sandboxes -> Holds]
    BY <2>3 DEF Release, TenantTypeOK, Holds
  <2>4. UNCHANGED client \/ \E s \in Sandboxes : Release(s)
        \/ (\E n \in Nodes : Allocate(s, n))
        \/ (\E t \in Tenants, r \in Requests : Ask(s, t, r))
    BY DEF ClientNext, Register, Unregister, reconcileTerminatingTenant, reconcileQuota,
           SetPhase, ReserveFor, GiveBack, vars, cvars
  <2> QED BY <2>1, <2>2, <2>3, <2>4 DEF TenantTypeOK
<1>2. granted' \in [Tenants -> Nat] /\ since' \in [Tenants -> Nat]
  <2>1. ASSUME NEW t \in Tenants, NEW spec \in Specs, NEW p \in Phases, Register(t, spec, p)
        PROVE  granted' \in [Tenants -> Nat] /\ since' \in [Tenants -> Nat]
    BY <1>0, <2>1 DEF Register, TenantTypeOK
  <2>2. ASSUME NEW s \in Sandboxes, NEW t \in Tenants, NEW r \in Requests, Ask(s, t, r)
        PROVE  granted' \in [Tenants -> Nat] /\ since' \in [Tenants -> Nat]
    BY <2>2 DEF Ask, TenantTypeOK
  <2>3. \/ UNCHANGED <<granted, since>>
        \/ \E t \in Tenants, spec \in Specs, p \in Phases : Register(t, spec, p)
        \/ \E s \in Sandboxes, t \in Tenants, r \in Requests : Ask(s, t, r)
    BY DEF ClientNext, Unregister, reconcileTerminatingTenant, reconcileQuota, SetPhase,
           Allocate, Release, ReserveFor, GiveBack, vars, cvars
  <2> QED BY <2>1, <2>2, <2>3 DEF TenantTypeOK
<1>3. HeldOK'
  <2>1. ASSUME NEW t \in Tenants, NEW r \in Requests, ReserveFor(t, r)
        PROVE  HeldOK'
    <3>1. \A h \in held' : h \in held \/ h = [id |-> reserves, tenant |-> t, request |-> r]
      BY <2>1 DEF ReserveFor
    <3> QED BY <3>1 DEF HeldOK
  <2>2. UNCHANGED held \/ (\E h \in held : GiveBack(h))
        \/ \E t \in Tenants, r \in Requests : ReserveFor(t, r)
    BY DEF ClientNext, Register, Unregister, reconcileTerminatingTenant, reconcileQuota,
           SetPhase, Ask, Allocate, Release, vars, cvars
  <2>3. ASSUME NEW h \in held, GiveBack(h)
        PROVE  HeldOK'
    BY <2>3 DEF HeldOK, GiveBack
  <2> QED BY <2>1, <2>2, <2>3 DEF HeldOK
<1> QED BY <1>0, <1>1, <1>2, <1>3 DEF TenantTypeOK, AInv

-----------------------------------------------------------------------------
(* Live sandboxes are counted, and their tenants stay *)

\* What a step that changes no client and no count leaves of Live and Counted.
LEMMA LiveUnchanged ==
    ASSUME UNCHANGED client, NEW t \in Tenants
    PROVE  Live(t)' = Live(t)
BY DEF Live

LEMMA AllocatedCount ==
    ASSUME NEW info \in Infos, NEW r \in Requests, NEW n \in Nodes
    PROVE  /\ Allocated(info, n, r).usage["instances"] = info.usage["instances"] + 1
           /\ info.usage["instances"] \in Nat
<1>1. info.usage \in [UsageDims -> Nat] /\ "instances" \in UsageDims
  BY DEF Infos, UsageDims
<1>2. Plus(info.usage, r)["instances"] = info.usage["instances"] + 1
  BY <1>1, AmountType, PlusType, OneInstance
<1>3. Allocated(info, n, r).usage = Plus(info.usage, r)
  BY DEF Allocated
<1> QED BY <1>1, <1>2, <1>3

LEMMA ReleasedCount ==
    ASSUME NEW info \in Infos, NEW r \in Requests, NEW n \in Nodes,
           info.usage["instances"] > 0
    PROVE  /\ Released(info, n, r).usage["instances"] = info.usage["instances"] - 1
           /\ info.usage["instances"] \in Nat
<1>1. info.usage \in [UsageDims -> Nat] /\ "instances" \in UsageDims
  BY DEF Infos, UsageDims
<1>2. Minus(info.usage, r)["instances"] = info.usage["instances"] - 1
  BY <1>1, AmountType, MinusType, OneInstance
<1>3. Released(info, n, r).usage = Minus(info.usage, r)
  BY DEF Released
<1> QED BY <1>1, <1>2, <1>3

\* The steps that touch neither the clients nor anybody's usage.
LEMMA CountedByUsage ==
    ASSUME NoOrphans, Counted, UNCHANGED client,
           \A t \in Tenants :
              /\ Exists(t) => Exists(t)'
              /\ Exists(t)' /\ Exists(t) =>
                    tenants'[t].usage["instances"] = tenants[t].usage["instances"]
              /\ Exists(t)' /\ ~ Exists(t) => tenants'[t].usage["instances"] = 0
    PROVE  NoOrphans' /\ Counted'
<1>1. \A t \in Tenants : Live(t)' = Live(t)
  BY LiveUnchanged
<1>2. \A t \in Tenants : ~ Exists(t) => Cardinality(Live(t)) = 0
  BY FS_EmptySet DEF NoOrphans
<1> QED BY <1>1, <1>2 DEF NoOrphans, Counted

\* The steps that reach a tenant's usage or its clients.
LEMMA TenantSteps ==
    ASSUME [ClientNext]_vars
    PROVE  \/ UNCHANGED <<tenants, client>>
           \/ resetDailyCounters /\ UNCHANGED cvars
           \/ \E t \in Tenants, spec \in Specs, p \in Phases : Register(t, spec, p)
           \/ \E t \in Tenants : Unregister(t)
           \/ \E t \in Tenants, p \in Phases : SetPhase(t, p)
           \/ \E s \in Sandboxes, t \in Tenants, r \in Requests : Ask(s, t, r)
           \/ \E s \in Sandboxes, n \in Nodes : Allocate(s, n)
           \/ \E s \in Sandboxes : Release(s)
<1>1. CASE \E t \in Tenants, spec \in Specs : reconcileQuota(t, spec.hard)
  BY <1>1 DEF reconcileQuota, RegisterQuota
<1>2. CASE \E t \in Tenants : reconcileTerminatingTenant(t)
  BY <1>2 DEF reconcileTerminatingTenant, UnregisterQuota
<1>3. CASE \E t \in Tenants, r \in Requests : ReserveFor(t, r)
  BY <1>3 DEF ReserveFor, Reserve, ReserveFails
<1>4. CASE \E h \in held : GiveBack(h)
  BY <1>4 DEF GiveBack, Unreserve, tvars
<1>5. CASE Tick /\ UNCHANGED cvars
  BY <1>5 DEF Tick, cvars
<1>6. CASE UNCHANGED vars
  BY <1>6 DEF vars, tvars, cvars
<1> QED BY <1>1, <1>2, <1>3, <1>4, <1>5, <1>6 DEF ClientNext

LEMMA StepCounted ==
    ASSUME TenantTypeOK, NoOrphans, Counted, [ClientNext]_vars
    PROVE  NoOrphans' /\ Counted'
<1>0. /\ client \in [Sandboxes -> Holds]
      /\ tenants \in [Tenants -> Infos \cup {NoTenant}]
  BY DEF TenantTypeOK, AccountsOK
<1>1. ASSUME NEW t \in Tenants, NEW spec \in Specs, NEW p \in Phases, Register(t, spec, p)
      PROVE  NoOrphans' /\ Counted'
  <2>1. /\ NewInfo(spec, p) # NoTenant => NewInfo(spec, p).usage["instances"] = 0
        /\ Respecified(tenants[t], spec, p).usage = tenants[t].usage
    BY DEF NewInfo, Respecified, Zero, UsageDims
  <2>2. /\ tenants[t] = NoTenant => tenants'[t] = NewInfo(spec, p)
        /\ tenants[t] # NoTenant => tenants'[t] = Respecified(tenants[t], spec, p)
        /\ \A u \in Tenants \ {t} : tenants'[u] = tenants[u]
        /\ UNCHANGED client
    BY <1>0, <1>1 DEF Register, RegisterTenant
  <2>3. tenants[t] # NoTenant => tenants'[t] # NoTenant
    <3>1. CASE tenants[t] # NoTenant
      <4>1. tenants[t] \in Infos
        BY <1>0, <3>1
      <4>2. Respecified(tenants[t], spec, p) \in Infos
        BY <4>1 DEF Respecified, Infos
      <4> QED BY <2>2, <3>1, <4>2, SentinelAssumption
    <3> QED BY <3>1
  <2> QED BY <2>1, <2>2, <2>3, CountedByUsage DEF Exists
<1>2. ASSUME NEW t \in Tenants, Unregister(t)
      PROVE  NoOrphans' /\ Counted'
  <2>1. Live(t) = {}
    <3>1. Cardinality(Live(t)) = 0
      BY <1>2 DEF Unregister, UnregisterTenant, Counted
    <3> QED BY <3>1, LiveFinite, FS_EmptySet
  <2>2. /\ tenants' = [tenants EXCEPT ![t] = NoTenant]
        /\ UNCHANGED client
    BY <1>2 DEF Unregister, UnregisterTenant, cvars
  <2>3. \A u \in Tenants : Live(u)' = Live(u)
    BY <2>2, LiveUnchanged
  <2> QED BY <1>0, <2>1, <2>2, <2>3 DEF NoOrphans, Counted, Exists
<1>3. ASSUME UNCHANGED <<tenants, client>>
      PROVE  NoOrphans' /\ Counted'
  BY <1>3, CountedByUsage DEF Exists
<1>4. ASSUME NEW t \in Tenants, NEW p \in Phases, SetPhase(t, p)
      PROVE  NoOrphans' /\ Counted'
  <2>1. tenants[t] \in Infos /\ tenants' = [tenants EXCEPT ![t].phase = p] /\ UNCHANGED client
    BY <1>0, <1>4 DEF SetPhase, UpdateTenantStatus, Exists
  <2>2. [tenants[t] EXCEPT !.phase = p] \in Infos
        /\ [tenants[t] EXCEPT !.phase = p].usage = tenants[t].usage
    BY <2>1 DEF Infos
  <2>3. tenants'[t] = [tenants[t] EXCEPT !.phase = p]
        /\ \A u \in Tenants \ {t} : tenants'[u] = tenants[u]
    BY <1>0, <2>1
  <2> QED BY <2>1, <2>2, <2>3, CountedByUsage, SentinelAssumption DEF Exists
<1>5. ASSUME NEW s \in Sandboxes, NEW t \in Tenants, NEW r \in Requests, Ask(s, t, r)
      PROVE  NoOrphans' /\ Counted'
  <2>1. /\ client[s] = Nothing
        /\ \A u \in Sandboxes \ {s} : client'[u] = client[u]
        /\ client'[s] = Nothing \/ client'[s] = Admitted(t, r)
        /\ UNCHANGED tenants
    BY <1>0, <1>5 DEF Ask, CanCreateSandbox
  <2>2. \A u \in Tenants : Live(u)' = Live(u)
    BY <2>1 DEF Live, Nothing, Admitted
  <2> QED BY <2>1, <2>2 DEF NoOrphans, Counted, Exists
<1>6. ASSUME NEW s \in Sandboxes, NEW n \in Nodes, Allocate(s, n)
      PROVE  NoOrphans' /\ Counted'
  <2>1. client[s].tenant \in Tenants /\ client[s].request \in Requests
    BY <1>0, <1>6, HoldsCases DEF Allocate
  <2>t. PICK t \in Tenants : t = client[s].tenant
    BY <2>1
  <2>2. CASE Exists(t)
    <3>1. /\ tenants' = [tenants EXCEPT ![t] = Allocated(tenants[t], n, client[s].request)]
          /\ client' = [client EXCEPT ![s] = Allocation(t, client[s].request, n)]
          /\ tenants[t] \in Infos
      BY <1>0, <1>6, <2>t, <2>1, <2>2 DEF Allocate, AllocateResources, Exists
    <3>2. /\ Live(t)' = Live(t) \cup {s} /\ s \notin Live(t)
          /\ \A u \in Tenants \ {t} : Live(u)' = Live(u)
      BY <1>0, <1>6, <2>t, <3>1 DEF Live, Allocate, Allocation
    <3>3. Cardinality(Live(t) \cup {s}) = Cardinality(Live(t)) + 1
      BY <2>1, <3>2, LiveFinite, FS_AddElement
    <3>4. tenants'[t].usage["instances"] = tenants[t].usage["instances"] + 1
      BY <1>0, <2>1, <3>1, AllocatedCount
    <3>5. tenants'[t] # NoTenant
      <4>1. Allocated(tenants[t], n, client[s].request) \in Infos
        BY <2>1, <3>1, AllocateKeeps DEF Covered
      <4> QED BY <1>0, <2>1, <3>1, <4>1, SentinelAssumption
    <3>6. \A u \in Tenants \ {t} : tenants'[u] = tenants[u]
      BY <1>0, <3>1
    <3>7. NoOrphans'
      BY <3>2, <3>5, <3>6 DEF NoOrphans, Exists
    <3>8. Counted'
      BY <2>2, <3>2, <3>3, <3>4, <3>6 DEF Counted, Exists
    <3> QED BY <3>7, <3>8
  <2>3. CASE ~ Exists(t)
    <3>1. client' = [client EXCEPT ![s] = Nothing] /\ UNCHANGED tenants
      BY <1>6, <2>t, <2>3 DEF Allocate, tvars
    <3>2. \A u \in Tenants : Live(u)' = Live(u)
      BY <1>0, <1>6, <3>1 DEF Live, Allocate, Nothing
    <3> QED BY <3>1, <3>2 DEF NoOrphans, Counted, Exists
  <2> QED BY <2>2, <2>3
<1>7. ASSUME NEW s \in Sandboxes, Release(s)
      PROVE  NoOrphans' /\ Counted'
  <2>0. client[s].tenant \in Tenants
    BY <1>0, <1>7, HoldsCases DEF Release
  <2>t. PICK t \in Tenants : t = client[s].tenant
    BY <2>0
  <2>1. /\ client[s].request \in Requests /\ client[s].node \in Nodes
        /\ s \in Live(t)
    BY <1>0, <1>7, <2>t, HoldsCases DEF Release, Live
  <2>2. /\ tenants' = [tenants EXCEPT ![t] =
                          Released(tenants[t], client[s].node, client[s].request)]
        /\ client' = [client EXCEPT ![s] = Nothing]
        /\ tenants[t] \in Infos /\ Exists(t)
    BY <1>0, <1>7, <2>t, <2>1 DEF Release, ReleaseResources, Exists
  <2>3. /\ Live(t)' = Live(t) \ {s}
        /\ \A u \in Tenants \ {t} : Live(u)' = Live(u)
    BY <1>0, <2>t, <2>2 DEF Live, Nothing
  <2>4. Cardinality(Live(t) \ {s}) = Cardinality(Live(t)) - 1 /\ Cardinality(Live(t)) \in Nat
    BY <2>1, LiveFinite, FS_RemoveElement
  <2>5. tenants[t].usage["instances"] = Cardinality(Live(t)) /\ Cardinality(Live(t)) > 0
    <3>1. Cardinality(Live(t)) # 0
      BY <2>1, LiveFinite, FS_EmptySet
    <3> QED BY <2>1, <2>2, <2>4, <3>1 DEF Counted
  <2>6. tenants'[t].usage["instances"] = tenants[t].usage["instances"] - 1
    BY <1>0, <2>1, <2>2, <2>5, ReleasedCount
  <2>7. tenants'[t] # NoTenant
    <3>1. Released(tenants[t], client[s].node, client[s].request) \in Infos
      BY <2>1, <2>2, ReleaseKeeps DEF Covered
    <3> QED BY <1>0, <2>1, <2>2, <3>1, SentinelAssumption
  <2>8. \A u \in Tenants \ {t} : tenants'[u] = tenants[u]
    BY <1>0, <2>2
  <2>9. NoOrphans'
    BY <2>3, <2>7, <2>8 DEF NoOrphans, Exists
  <2>10. Counted'
    BY <2>2, <2>3, <2>4, <2>5, <2>6, <2>8 DEF Counted, Exists
  <2> QED BY <2>9, <2>10
<1>8. CASE resetDailyCounters /\ UNCHANGED cvars
  <2>1. \A info : DailyReset(info).usage = info.usage
    BY DEF DailyReset
  <2>2. \A info \in Infos : DailyReset(info) \in Infos
    BY DEF DailyReset, Infos, TenantTypeOK, AccountsOK
  <2>3. \A t \in Tenants : tenants'[t] = tenants[t]
            \/ (Exists(t) /\ tenants'[t] = DailyReset(tenants[t]))
    BY <1>8 DEF resetDailyCounters
  <2>4. UNCHANGED client
    BY <1>8 DEF cvars
  <2> QED BY <1>0, <2>1, <2>2, <2>3, <2>4, CountedByUsage, SentinelAssumption DEF Exists
<1> QED BY <1>1, <1>2, <1>3, <1>4, <1>5, <1>6, <1>7, <1>8, TenantSteps

-----------------------------------------------------------------------------
(* What the live sandboxes of a tenant hold *)

\* What each of the clients asked for, and that the fold in Total is its sum.
Asked(c, S, d) == [s \in S |-> Amount(c[s].request, d)]

LEMMA FoldIsSum ==
  ASSUME NEW c, NEW S, NEW d
  PROVE  (CHOOSE g : g = [s \in SUBSET S |->
             IF s = {} THEN 0 ELSE Amount(c[Pick(s)].request, d) + g[s \ {Pick(s)}]])[S]
            = Sum(Asked(c, S, d), S)
<1>1. \A s \in SUBSET S : s # {} => Asked(c, S, d)[Pick(s)] = Amount(c[Pick(s)].request, d)
  BY PickIn DEF Asked
<1>2. ASSUME NEW g
      PROVE  IsSum(g, Asked(c, S, d), S) <=> g = [s \in SUBSET S |->
                IF s = {} THEN 0 ELSE Amount(c[Pick(s)].request, d) + g[s \ {Pick(s)}]]
  BY <1>1 DEF IsSum
<1>3. (CHOOSE g : IsSum(g, Asked(c, S, d), S)) = (CHOOSE g : g = [s \in SUBSET S |->
         IF s = {} THEN 0 ELSE Amount(c[Pick(s)].request, d) + g[s \ {Pick(s)}]])
  BY <1>2
<1> QED BY <1>3, SumIsFold

LEMMA TotalLive ==
    ASSUME NEW t, NEW L, NEW d
    PROVE  /\ Live(t) = L => Total(Live(t), d) = Sum(Asked(client, L, d), L)
           /\ Live(t)' = L => Total(Live(t), d)' = Sum(Asked(client', L, d), L)
<1>1. ASSUME Live(t) = L
      PROVE  Total(Live(t), d) = Sum(Asked(client, L, d), L)
  BY <1>1, FoldIsSum DEF Total, MapThenSumSet, MapThenFoldSet, Pick
<1>2. ASSUME Live(t)' = L
      PROVE  Total(Live(t), d)' = Sum(Asked(client', L, d), L)
  BY <1>2, FoldIsSum DEF Total, MapThenSumSet, MapThenFoldSet, Pick
<1> QED BY <1>1, <1>2

LEMMA AskedSame ==
    ASSUME NEW S, IsFiniteSet(S), NEW c, NEW e, NEW d, \A s \in S : e[s].request = c[s].request
    PROVE  Sum(Asked(e, S, d), S) = Sum(Asked(c, S, d), S)
<1>1. \A s \in S : Asked(e, S, d)[s] = Asked(c, S, d)[s]
  BY DEF Asked
<1> QED BY <1>1, SumSame

LEMMA AskedIsNat ==
    ASSUME NEW S, IsFiniteSet(S), NEW c, NEW d, \A x \in S : c[x].request \in Requests
    PROVE  Sum(Asked(c, S, d), S) \in Nat
<1>1. PICK v : v = Asked(c, S, d)
  OBVIOUS
<1>2. \A x \in S : v[x] \in Nat
  BY <1>1, AmountType DEF Asked
<1> QED BY <1>1, <1>2, SumIsNat

LEMMA AskedOneMore ==
    ASSUME NEW S, IsFiniteSet(S), NEW s, s \notin S, NEW T, T = S \cup {s}, NEW c, NEW d,
           \A x \in T : c[x].request \in Requests
    PROVE  Sum(Asked(c, T, d), T) = Amount(c[s].request, d) + Sum(Asked(c, S, d), S)
<1>1. PICK v, w : v = Asked(c, T, d) /\ w = Asked(c, S, d)
  OBVIOUS
<1>2. \A x \in T : v[x] = Amount(c[x].request, d) /\ v[x] \in Nat
  BY <1>1, AmountType DEF Asked
<1>3. \A x \in S : w[x] = v[x] /\ w[x] \in Nat
  BY <1>1, <1>2 DEF Asked
<1>4. Sum(v, S \cup {s}) = v[s] + Sum(v, S)
  BY <1>2, SumAdd
<1>5. Sum(v, S) = Sum(w, S)
  BY <1>3, SumSame
<1> QED BY <1>1, <1>2, <1>4, <1>5

-----------------------------------------------------------------------------
(* The usage of one tenant *)

Matches(t) ==
    Exists(t) =>
        /\ \A d \in UsageDims : tenants[t].usage[d] = Total(Live(t), d)
        /\ \A n \in Nodes : tenants[t].onNode[n] = Cardinality(LiveOn(t, n))

LEMMA LiveRequests ==
    ASSUME client \in [Sandboxes -> Holds], NEW t, NEW s \in Live(t)
    PROVE  s \in Sandboxes /\ client[s].request \in Requests /\ client[s].node \in Nodes
BY HoldsCases DEF Live

\* Nobody of the tenant comes or goes.
LEMMA MatchesOther ==
    ASSUME NEW t \in Tenants, Matches(t),
           Live(t)' = Live(t), \A s \in Live(t) : client'[s] = client[s],
           tenants'[t] = tenants[t] \/
              /\ Exists(t)
              /\ tenants'[t].usage = tenants[t].usage /\ tenants'[t].onNode = tenants[t].onNode
    PROVE  Matches(t)'
<1>1. CASE ~ Exists(t)'
  BY <1>1 DEF Matches
<1>2. CASE Exists(t)'
  <2>1. \A n : LiveOn(t, n)' = LiveOn(t, n)
    BY DEF LiveOn
  <2>2. PICK L, c, e : L = Live(t) /\ c = client /\ e = client'
    OBVIOUS
  <2>3. IsFiniteSet(L) /\ \A s \in L : e[s].request = c[s].request
    BY <2>2, LiveFinite
  <2>4. \A d : Sum(Asked(e, L, d), L) = Sum(Asked(c, L, d), L)
    BY <2>3, AskedSame
  <2>5. \A d : /\ Total(Live(t), d) = Sum(Asked(client, L, d), L)
               /\ Total(Live(t), d)' = Sum(Asked(client', L, d), L)
    BY <2>2, TotalLive
  <2>6. \A d : Total(Live(t), d)' = Total(Live(t), d)
    BY <2>2, <2>4, <2>5
  <2>7. Exists(t) /\ tenants'[t].usage = tenants[t].usage /\ tenants'[t].onNode = tenants[t].onNode
    BY <1>2 DEF Exists
  <2> QED BY <2>1, <2>6, <2>7 DEF Matches
<1> QED BY <1>1, <1>2

\* A tenant without sandboxes starts from zero.
LEMMA MatchesNew ==
    ASSUME NEW t \in Tenants, Live(t)' = {},
           \A d \in UsageDims : tenants'[t].usage[d] = 0, \A n \in Nodes : tenants'[t].onNode[n] = 0
    PROVE  Matches(t)'
<1>2. \A d : Total(Live(t), d)' = 0
  BY TotalLive, SumEmpty
<1>3. \A n : LiveOn(t, n)' = {}
  BY DEF LiveOn
<1> QED BY <1>2, <1>3, FS_EmptySet DEF Matches

LEMMA UsageAfter ==
    ASSUME NEW i \in Infos, NEW r \in Requests, NEW n, NEW d \in UsageDims
    PROVE  /\ i.usage[d] \in Nat /\ Amount(r, d) \in Nat
           /\ Allocated(i, n, r).usage[d] = i.usage[d] + Amount(r, d)
           /\ Released(i, n, r).usage[d] =
                 IF i.usage[d] > Amount(r, d) THEN i.usage[d] - Amount(r, d) ELSE 0
<1>1. PICK u : u = i.usage
  OBVIOUS
<1>2. u \in [UsageDims -> Nat]
  BY <1>1 DEF Infos
<1>3. \A k \in UsageDims : Amount(r, k) \in Nat
  BY AmountType
<1>4. Allocated(i, n, r).usage = Plus(u, r) /\ Released(i, n, r).usage = Minus(u, r)
  BY <1>1 DEF Allocated, Released
<1> QED BY <1>1, <1>2, <1>3, <1>4, PlusType, MinusType

LEMMA MatchesAllocate ==
    ASSUME client \in [Sandboxes -> Holds], NEW t \in Tenants, Matches(t), Exists(t),
           tenants[t] \in Infos,
           NEW s \in Sandboxes, NEW n \in Nodes, NEW r \in Requests,
           client[s].holds # "allocation",
           client' = [client EXCEPT ![s] = Allocation(t, r, n)],
           tenants'[t] = Allocated(tenants[t], n, r)
    PROVE  Matches(t)'
<1>1. /\ Live(t)' = Live(t) \cup {s} /\ s \notin Live(t)
      /\ client'[s].request = r /\ client'[s].node = n
      /\ \A x \in Live(t) : client'[x] = client[x]
  BY DEF Live, Allocation
<1>2. PICK L : L = Live(t)
  OBVIOUS
<1>3. IsFiniteSet(L) /\ s \notin L /\ Live(t)' = L \cup {s}
  BY <1>1, <1>2, LiveFinite
<1>4. \A x \in L \cup {s} : client'[x].request \in Requests
  BY <1>1, <1>2, LiveRequests
<1>5. ASSUME NEW d \in UsageDims
      PROVE  tenants'[t].usage[d] = Total(Live(t), d)'
  <2>0. PICK c, e, M : c = client /\ e = client' /\ M = L \cup {s}
    OBVIOUS
  <2>1. /\ \A x \in M : e[x].request \in Requests
        /\ \A x \in L : e[x].request = c[x].request
    BY <1>1, <1>2, <1>4, <2>0
  <2>2. /\ Sum(Asked(e, M, d), M) = Amount(e[s].request, d) + Sum(Asked(e, L, d), L)
        /\ Sum(Asked(e, L, d), L) \in Nat
    <3>0. IsFiniteSet(L) /\ s \notin L /\ M = L \cup {s} /\ \A x \in M : e[x].request \in Requests
      BY <1>3, <2>0, <2>1
    <3>1. Sum(Asked(e, M, d), M) = Amount(e[s].request, d) + Sum(Asked(e, L, d), L)
      BY <3>0, AskedOneMore
    <3>2. Sum(Asked(e, L, d), L) \in Nat
      BY <1>3, <2>0, <2>1, AskedIsNat
    <3> QED BY <3>1, <3>2
  <2>3. Sum(Asked(e, L, d), L) = Sum(Asked(c, L, d), L)
    BY <1>3, <2>1, AskedSame
  <2>4. /\ Total(Live(t), d)' = Sum(Asked(e, M, d), M)
        /\ Total(Live(t), d) = Sum(Asked(c, L, d), L)
    <3>1. Live(t) = L /\ Live(t)' = M
      BY <1>2, <1>3, <2>0
    <3>2. /\ Total(Live(t), d)' = Sum(Asked(client', M, d), M)
          /\ Total(Live(t), d) = Sum(Asked(client, L, d), L)
      BY <3>1, TotalLive
    <3> QED BY <2>0, <3>2
  <2>5. PICK a, b : a = Sum(Asked(c, L, d), L) /\ b = Amount(r, d)
    OBVIOUS
  <2>6. Total(Live(t), d)' = b + a /\ Total(Live(t), d) = a /\ a \in Nat
    BY <1>1, <2>0, <2>2, <2>3, <2>4, <2>5
  <2>7. tenants'[t].usage[d] = tenants[t].usage[d] + b /\ b \in Nat
    BY <2>5, UsageAfter
  <2>8. tenants[t].usage[d] = a
    BY <2>6 DEF Matches
  <2> QED BY <2>6, <2>7, <2>8
<1>6. ASSUME NEW m \in Nodes
      PROVE  tenants'[t].onNode[m] = Cardinality(LiveOn(t, m)')
  <2>1. /\ m = n => LiveOn(t, m)' = LiveOn(t, m) \cup {s} /\ s \notin LiveOn(t, m)
        /\ m # n => LiveOn(t, m)' = LiveOn(t, m)
    BY <1>1 DEF LiveOn
  <2>2. /\ tenants[t].onNode \in [Nodes -> Nat]
        /\ tenants'[t].onNode = [tenants[t].onNode EXCEPT ![n] = @ + 1]
    BY DEF Allocated, Infos
  <2>3. IsFiniteSet(LiveOn(t, m))
    BY LiveFinite, FS_Subset DEF LiveOn
  <2>4. m = n => Cardinality(LiveOn(t, m)') = Cardinality(LiveOn(t, m)) + 1
    BY <2>1, <2>3, FS_AddElement
  <2> QED BY <2>1, <2>2, <2>4 DEF Matches
<1> QED BY <1>5, <1>6 DEF Matches

LEMMA MatchesRelease ==
    ASSUME client \in [Sandboxes -> Holds], NEW t \in Tenants, Matches(t), Exists(t),
           tenants[t] \in Infos,
           NEW s \in Live(t),
           client' = [client EXCEPT ![s] = Nothing],
           tenants'[t] = Released(tenants[t], client[s].node, client[s].request)
    PROVE  Matches(t)'
<1>0. PICK r, n : r = client[s].request /\ n = client[s].node
  OBVIOUS
<1>t. s \in Sandboxes /\ r \in Requests /\ n \in Nodes
  BY <1>0, LiveRequests
<1>1. /\ Live(t)' = Live(t) \ {s}
      /\ \A x \in Live(t) \ {s} : client'[x] = client[x]
  BY <1>t DEF Live, Nothing
<1>2. PICK L : L = Live(t) \ {s}
  OBVIOUS
<1>3. IsFiniteSet(L) /\ s \notin L /\ Live(t)' = L /\ Live(t) = L \cup {s}
  BY <1>1, <1>2, LiveFinite, FS_Subset
<1>4. \A x \in L \cup {s} : client[x].request \in Requests
  BY <1>3, LiveRequests
<1>5. ASSUME NEW d \in UsageDims
      PROVE  tenants'[t].usage[d] = Total(Live(t), d)'
  <2>0. PICK c, e, M : c = client /\ e = client' /\ M = L \cup {s}
    OBVIOUS
  <2>1. /\ \A x \in M : c[x].request \in Requests
        /\ \A x \in L : e[x].request = c[x].request
    BY <1>1, <1>2, <1>4, <2>0
  <2>2. /\ Sum(Asked(c, M, d), M) = Amount(c[s].request, d) + Sum(Asked(c, L, d), L)
        /\ Sum(Asked(c, L, d), L) \in Nat
    <3>1. Sum(Asked(c, M, d), M) = Amount(c[s].request, d) + Sum(Asked(c, L, d), L)
      BY <1>3, <2>0, <2>1, AskedOneMore
    <3>2. Sum(Asked(c, L, d), L) \in Nat
      BY <1>3, <2>0, <2>1, AskedIsNat
    <3> QED BY <3>1, <3>2
  <2>m. Sum(Asked(e, L, d), L) = Sum(Asked(c, L, d), L)
    BY <1>3, <2>1, AskedSame
  <2>3. PICK a, b : a = Total(Live(t), d)' /\ b = Amount(r, d)
    OBVIOUS
  <2>s. /\ Total(Live(t), d)' = Sum(Asked(e, L, d), L)
        /\ Total(Live(t), d) = Sum(Asked(c, M, d), M)
    <3>1. Live(t) = M /\ Live(t)' = L
      BY <1>3, <2>0
    <3>2. /\ Total(Live(t), d)' = Sum(Asked(client', L, d), L)
          /\ Total(Live(t), d) = Sum(Asked(client, M, d), M)
      BY <3>1, TotalLive
    <3> QED BY <2>0, <3>2
  <2>4. Total(Live(t), d) = b + a /\ a \in Nat
    BY <1>0, <2>0, <2>2, <2>3, <2>m, <2>s
  <2>5. /\ b \in Nat
        /\ tenants'[t].usage[d] = IF tenants[t].usage[d] > b THEN tenants[t].usage[d] - b ELSE 0
    <3>1. PICK i : i = tenants[t]
      OBVIOUS
    <3>2. i \in Infos /\ tenants'[t] = Released(i, n, r)
      BY <1>0, <3>1
    <3> QED BY <1>t, <2>3, <3>1, <3>2, UsageAfter
  <2>6. tenants[t].usage[d] = b + a
    BY <2>4 DEF Matches
  <2>7. tenants'[t].usage[d] = a
    BY <2>4, <2>5, <2>6
  <2> QED BY <2>3, <2>7
<1>6. ASSUME NEW m \in Nodes
      PROVE  tenants'[t].onNode[m] = Cardinality(LiveOn(t, m)')
  <2>1. /\ m = n => LiveOn(t, m)' = LiveOn(t, m) \ {s} /\ s \in LiveOn(t, m)
        /\ m # n => LiveOn(t, m)' = LiveOn(t, m)
    BY <1>0, <1>1 DEF LiveOn
  <2>2. /\ tenants[t].onNode \in [Nodes -> Nat]
        /\ tenants'[t].onNode = [tenants[t].onNode EXCEPT ![n] = IF @ > 0 THEN @ - 1 ELSE 0]
    BY <1>0 DEF Released, Infos
  <2>3. IsFiniteSet(LiveOn(t, m))
    BY LiveFinite, FS_Subset DEF LiveOn
  <2>4. ASSUME m = n
        PROVE  /\ Cardinality(LiveOn(t, m)') = Cardinality(LiveOn(t, m)) - 1
               /\ Cardinality(LiveOn(t, m)) \in Nat /\ Cardinality(LiveOn(t, m)) > 0
    <3>1. PICK O, P : O = LiveOn(t, m) /\ P = LiveOn(t, m)'
      OBVIOUS
    <3>2. IsFiniteSet(O) /\ s \in O /\ P = O \ {s}
      BY <2>1, <2>3, <2>4, <3>1
    <3>3. Cardinality(O) \in Nat /\ Cardinality(O) # 0 /\ Cardinality(P) = Cardinality(O) - 1
      BY <3>2, FS_CardinalityType, FS_EmptySet, FS_RemoveElement
    <3> QED BY <3>1, <3>3
  <2> QED BY <2>1, <2>2, <2>4 DEF Matches
<1> QED BY <1>5, <1>6 DEF Matches

LEMMA UsageOfEach == UsageMatches <=> \A t \in Tenants : Matches(t)
BY DEF UsageMatches, Matches

\* The tenants that keep their usage, with all their sandboxes.
LEMMA MatchesKept ==
    ASSUME UsageMatches, NEW t \in Tenants, Exists(t)' => Exists(t),
           \A s \in Sandboxes : client'[s] # client[s] =>
              client[s].holds # "allocation" /\ client'[s].holds # "allocation",
           Exists(t)' => tenants'[t].usage = tenants[t].usage /\ tenants'[t].onNode = tenants[t].onNode
    PROVE  Matches(t)'
<1>1. Live(t)' = Live(t) /\ \A s \in Live(t) : client'[s] = client[s]
  BY DEF Live
<1>2. CASE Exists(t)'
  BY <1>1, <1>2, UsageOfEach, MatchesOther
<1>3. CASE ~ Exists(t)'
  BY <1>3 DEF Matches
<1> QED BY <1>2, <1>3

LEMMA StepUsage ==
    ASSUME TenantTypeOK, NoOrphans, Counted, UsageMatches, [ClientNext]_vars
    PROVE  UsageMatches'
<1>0. /\ client \in [Sandboxes -> Holds]
      /\ tenants \in [Tenants -> Infos \cup {NoTenant}]
      /\ \A t \in Tenants : Exists(t) => tenants[t] \in Infos
      /\ \A t \in Tenants : Matches(t)
  BY UsageOfEach DEF TenantTypeOK, AccountsOK, Exists
<1> SUFFICES ASSUME NEW u \in Tenants PROVE Matches(u)'
  BY DEF UsageMatches, Matches
<1>1. ASSUME NEW t \in Tenants, NEW spec \in Specs, NEW p \in Phases, Register(t, spec, p)
      PROVE  Matches(u)'
  <2>1. /\ tenants[t] = NoTenant => tenants'[t] = NewInfo(spec, p)
        /\ tenants[t] # NoTenant => tenants'[t] = Respecified(tenants[t], spec, p)
        /\ \A v \in Tenants \ {t} : tenants'[v] = tenants[v]
        /\ UNCHANGED client
    BY <1>0, <1>1 DEF Register, RegisterTenant
  <2>2. CASE u = t /\ ~ Exists(t)
    <3>1. Live(u)' = {}
      BY <2>1, <2>2, LiveUnchanged DEF NoOrphans
    <3>2. /\ \A d \in UsageDims : tenants'[u].usage[d] = 0
          /\ \A n \in Nodes : tenants'[u].onNode[n] = 0
      BY <2>1, <2>2 DEF Exists, NewInfo, Zero
    <3> QED BY <3>1, <3>2, MatchesNew
  <2>3. CASE ~ (u = t /\ ~ Exists(t))
    <3>1. Exists(u)' => Exists(u)
      BY <2>1, <2>3 DEF Exists
    <3>2. Exists(u) => tenants'[u].usage = tenants[u].usage /\ tenants'[u].onNode = tenants[u].onNode
      BY <2>1, <2>3 DEF Exists, Respecified
    <3> QED BY <2>1, <3>1, <3>2, MatchesKept
  <2> QED BY <2>2, <2>3
<1>2. ASSUME NEW t \in Tenants, Unregister(t)
      PROVE  Matches(u)'
  <2>1. tenants' = [tenants EXCEPT ![t] = NoTenant] /\ UNCHANGED client
    BY <1>2 DEF Unregister, UnregisterTenant, cvars
  <2>2. tenants'[u] = NoTenant \/ tenants'[u] = tenants[u]
    BY <1>0, <2>1
  <2> QED BY <2>1, <2>2, MatchesKept DEF Exists
<1>3. CASE UNCHANGED <<tenants, client>>
  BY <1>3, MatchesKept DEF Exists
<1>4. ASSUME NEW t \in Tenants, NEW p \in Phases, SetPhase(t, p)
      PROVE  Matches(u)'
  <2>1. tenants[t] \in Infos /\ tenants' = [tenants EXCEPT ![t].phase = p] /\ UNCHANGED client /\ Exists(t)
    BY <1>0, <1>4 DEF SetPhase, UpdateTenantStatus
  <2>2. /\ [tenants[t] EXCEPT !.phase = p].usage = tenants[t].usage
        /\ [tenants[t] EXCEPT !.phase = p].onNode = tenants[t].onNode
    BY <2>1 DEF Infos
  <2>3. tenants'[t] = [tenants[t] EXCEPT !.phase = p]
        /\ \A v \in Tenants \ {t} : tenants'[v] = tenants[v]
    BY <1>0, <2>1
  <2>4. Exists(u)' => Exists(u)
    BY <2>1, <2>3 DEF Exists
  <2>5. tenants'[u].usage = tenants[u].usage /\ tenants'[u].onNode = tenants[u].onNode
    BY <2>2, <2>3
  <2> QED BY <2>1, <2>4, <2>5, MatchesKept
<1>5. ASSUME NEW s \in Sandboxes, NEW t \in Tenants, NEW r \in Requests, Ask(s, t, r)
      PROVE  Matches(u)'
  <2>1. /\ client[s] = Nothing
        /\ \A v \in Sandboxes \ {s} : client'[v] = client[v]
        /\ client'[s] = Nothing \/ client'[s] = Admitted(t, r)
        /\ UNCHANGED tenants
    BY <1>0, <1>5 DEF Ask, CanCreateSandbox
  <2>2. client[s].holds # "allocation" /\ client'[s].holds # "allocation"
    BY <2>1 DEF Nothing, Admitted
  <2> QED BY <2>1, <2>2, MatchesKept DEF Exists
<1>6. ASSUME NEW s \in Sandboxes, NEW n \in Nodes, Allocate(s, n)
      PROVE  Matches(u)'
  <2>1. client[s].holds = "admission" /\ client[s].tenant \in Tenants /\ client[s].request \in Requests
    BY <1>0, <1>6, HoldsCases DEF Allocate
  <2>t. PICK t \in Tenants, r \in Requests : t = client[s].tenant /\ r = client[s].request
    BY <2>1
  <2>2. CASE Exists(t)
    <3>1. /\ tenants' = [tenants EXCEPT ![t] = Allocated(tenants[t], n, r)]
          /\ client' = [client EXCEPT ![s] = Allocation(t, r, n)]
          /\ tenants[t] \in Infos
      BY <1>0, <1>6, <2>t, <2>2 DEF Allocate, AllocateResources
    <3>2. CASE u = t
      <4>1. tenants'[t] = Allocated(tenants[t], n, r)
        BY <1>0, <3>1
      <4>2. Matches(t)'
        BY <1>0, <2>1, <2>2, <3>1, <4>1, MatchesAllocate
      <4> QED BY <3>2, <4>2
    <3>3. CASE u # t
      <4>1. tenants'[u] = tenants[u]
        BY <1>0, <3>1, <3>3
      <4>2. Live(u)' = Live(u) /\ \A x \in Live(u) : client'[x] = client[x]
        BY <1>0, <2>1, <3>1, <3>3 DEF Live, Allocation
      <4> QED BY <1>0, <4>1, <4>2, MatchesOther
    <3> QED BY <3>2, <3>3
  <2>3. CASE ~ Exists(t)
    <3>1. client' = [client EXCEPT ![s] = Nothing] /\ UNCHANGED tenants
      BY <1>6, <2>t, <2>3 DEF Allocate, tvars
    <3>2. \A x \in Sandboxes : client'[x] # client[x] =>
             client[x].holds # "allocation" /\ client'[x].holds # "allocation"
      BY <1>0, <2>1, <3>1 DEF Nothing
    <3> QED BY <3>1, <3>2, MatchesKept DEF Exists
  <2> QED BY <2>2, <2>3
<1>7. ASSUME NEW s \in Sandboxes, Release(s)
      PROVE  Matches(u)'
  <2>1. client[s].holds = "allocation" /\ client[s].tenant \in Tenants
    BY <1>0, <1>7, HoldsCases DEF Release
  <2>t. PICK t \in Tenants : t = client[s].tenant
    BY <2>1
  <2>2. s \in Live(t)
    BY <2>1, <2>t DEF Live
  <2>3. /\ tenants' = [tenants EXCEPT ![t] =
                          Released(tenants[t], client[s].node, client[s].request)]
        /\ client' = [client EXCEPT ![s] = Nothing]
        /\ tenants[t] \in Infos /\ Exists(t)
    BY <1>0, <1>7, <2>t DEF Release, ReleaseResources
  <2>4. CASE u = t
    <3>1. tenants'[t] = Released(tenants[t], client[s].node, client[s].request)
      BY <1>0, <2>3
    <3>2. Matches(t)'
      BY <1>0, <2>2, <2>3, <3>1, MatchesRelease
    <3> QED BY <2>4, <3>2
  <2>5. CASE u # t
    <3>1. tenants'[u] = tenants[u]
      BY <1>0, <2>3, <2>5
    <3>2. Live(u)' = Live(u) /\ \A x \in Live(u) : client'[x] = client[x]
      BY <1>0, <2>t, <2>3, <2>5 DEF Live, Nothing
    <3> QED BY <1>0, <3>1, <3>2, MatchesOther
  <2> QED BY <2>4, <2>5
<1>8. CASE resetDailyCounters /\ UNCHANGED cvars
  <2>1. tenants'[u] = tenants[u] \/ (Exists(u) /\ tenants'[u] = DailyReset(tenants[u]))
    BY <1>8 DEF resetDailyCounters
  <2>2. tenants'[u] # tenants[u] =>
           tenants'[u].usage = tenants[u].usage /\ tenants'[u].onNode = tenants[u].onNode
    BY <2>1 DEF DailyReset
  <2>3. UNCHANGED client
    BY <1>8 DEF cvars
  <2>4. Exists(u)' => Exists(u)
    BY <2>1 DEF Exists
  <2> QED BY <2>2, <2>3, <2>4, MatchesKept
<1> QED BY <1>1, <1>2, <1>3, <1>4, <1>5, <1>6, <1>7, <1>8, TenantSteps

-----------------------------------------------------------------------------
(* The bound of the rate limiter *)

LEMMA OneMore ==
    ASSUME NEW g \in Nat, NEW m \in Nat
    PROVE  (g + 1) * m = g * m + m
OBVIOUS

LEMMA TimeSplits ==
    ASSUME NEW l \in Nat, NEW from \in Nat, NEW middle \in Nat, NEW to \in Nat
    PROVE  l * (to - from) = l * (middle - from) + (to - middle) * l
OBVIOUS

\* A request keeps the bound of its bucket: the tokens that are added are those
\* the limit allows for the time since the last refill, and one is taken for
\* every request that passes.
LEMMA ConsumeBound ==
    ASSUME NEW b \in Buckets, b # NoTenant, now \in Nat, b.lastRefill <= now,
           NEW g \in Nat, NEW made \in Nat,
           g * Minute + b.tokens <= b.burst * Minute + b.limit * (b.lastRefill - made)
    PROVE  (IF refill(b).tokens >= Minute THEN g + 1 ELSE g) * Minute + Consumed(b).tokens
               <= Consumed(b).burst * Minute
                    + Consumed(b).limit * (Consumed(b).lastRefill - made)
<1> DEFINE gain == (now - b.lastRefill) * b.limit
           before == b.limit * (b.lastRefill - made)
           after == b.limit * (now - made)
           top == b.burst * Minute
           spent == g * Minute
           c == Consumed(b)
<1>1. /\ b.tokens \in Nat /\ b.limit \in Nat /\ b.lastRefill \in Nat /\ b.burst \in Nat
      /\ Minute \in Nat
  BY TimeAssumption DEF Buckets
<1>2. /\ gain \in Int /\ before \in Int /\ after \in Int /\ top \in Int /\ spent \in Int
      /\ after = before + gain
      /\ spent + b.tokens <= top + before
      /\ (g + 1) * Minute = spent + Minute
  BY <1>1, TimeSplits, OneMore
<1>3. /\ refill(b).tokens \in Nat /\ refill(b).tokens <= b.tokens + gain
  BY RefillType DEF Buckets
<1>4. /\ c.burst = b.burst /\ c.limit = b.limit /\ c.lastRefill = now
      /\ c.tokens = IF refill(b).tokens >= Minute
                    THEN refill(b).tokens - Minute ELSE refill(b).tokens
  BY ConsumeType
<1>5. c.burst * Minute = top /\ c.limit * (c.lastRefill - made) = after
  BY <1>4
<1> HIDE DEF c, gain, before, after, top, spent
<1>6. CASE refill(b).tokens >= Minute
  <2>1. spent + Minute + c.tokens <= top + after
    BY <1>1, <1>2, <1>3, <1>4, <1>6
  <2> QED BY <1>2, <1>5, <1>6, <2>1 DEF c
<1>7. CASE ~ (refill(b).tokens >= Minute)
  <2>1. spent + c.tokens <= top + after
    BY <1>1, <1>2, <1>3, <1>4, <1>7
  <2> QED BY <1>5, <1>7, <2>1 DEF c, spent
<1> QED BY <1>6, <1>7

\* The bound of one tenant.
RateOf(b, g, made) ==
    b # NoTenant =>
        /\ made <= b.lastRefill
        /\ g * Minute + b.tokens <= b.burst * Minute + b.limit * (b.lastRefill - made)

LEMMA RateOfEach ==
    SinceOK /\ RateBound <=> \A t \in Tenants : RateOf(buckets[t], granted[t], since[t])
BY DEF SinceOK, RateBound, RateOf

LEMMA StepRate ==
    ASSUME TenantTypeOK, SinceOK, RateBound, [ClientNext]_vars
    PROVE  SinceOK' /\ RateBound'
<1>0. /\ \A t \in Tenants : RateOf(buckets[t], granted[t], since[t])
      /\ buckets \in [Tenants -> Buckets \cup {NoTenant}]
      /\ now \in Nat
      /\ granted \in [Tenants -> Nat] /\ since \in [Tenants -> Nat]
  BY RateOfEach DEF TenantTypeOK, AccountsOK
<1> SUFFICES ASSUME NEW u \in Tenants
             PROVE  RateOf(buckets'[u], granted'[u], since'[u])
  BY DEF RateOf, SinceOK, RateBound
<1>1. ASSUME NEW t \in Tenants, NEW spec \in Specs, NEW p \in Phases, Register(t, spec, p)
      PROVE  RateOf(buckets'[u], granted'[u], since'[u])
  <2>1. CASE spec.hard = Unparsable \/ spec.rateLimit = NoTenant
    <3>1. UNCHANGED <<buckets, granted, since>>
      BY <1>0, <1>1, <2>1 DEF Register, RegisterTenant
    <3> QED BY <1>0, <3>1
  <2>2. CASE ~ (spec.hard = Unparsable \/ spec.rateLimit = NoTenant)
    <3> DEFINE b == NewBucket(spec.rateLimit)
    <3>1. spec.rateLimit \in [limit : Nat, burst : Nat]
      BY <2>2, SpecsAssumption
    <3>2. b \in Buckets /\ b.tokens = b.burst * Minute /\ b.lastRefill = now
      BY <1>0, <3>1, NewBucketType
    <3>3. buckets' = [buckets EXCEPT ![t] = b]
      BY <1>1, <2>2 DEF Register, RegisterTenant
    <3> HIDE DEF b
    <3>4. b # NoTenant
      BY <3>2, SentinelAssumption
    <3>5. buckets'[t] # NoTenant
      BY <1>0, <3>3, <3>4
    <3>6. granted' = [granted EXCEPT ![t] = 0] /\ since' = [since EXCEPT ![t] = now]
      BY <1>1, <2>2, <3>5 DEF Register
    <3>7. RateOf(b, 0, now)
      <4>1. b.limit \in Nat /\ b.tokens \in Nat /\ b.burst \in Nat
        BY <3>2 DEF Buckets
      <4>2. b.limit * (now - now) = 0 /\ 0 * Minute = 0
        BY <1>0, <4>1, TimeAssumption
      <4>3. b.limit * (b.lastRefill - now) = 0
        BY <3>2, <4>2
      <4>4. 0 * Minute + b.tokens <= b.burst * Minute + b.limit * (b.lastRefill - now)
        BY <3>2, <4>1, <4>2, <4>3
      <4> QED BY <1>0, <3>2, <4>4 DEF RateOf
    <3> QED BY <1>0, <3>3, <3>6, <3>7
  <2> QED BY <2>1, <2>2
<1>2. ASSUME NEW t \in Tenants, Unregister(t)
      PROVE  RateOf(buckets'[u], granted'[u], since'[u])
  <2>1. /\ buckets' = [buckets EXCEPT ![t] = NoTenant]
        /\ UNCHANGED <<granted, since>>
    BY <1>2 DEF Unregister, UnregisterTenant, cvars
  <2>2. buckets'[u] = NoTenant \/ buckets'[u] = buckets[u]
    BY <1>0, <2>1
  <2> QED BY <1>0, <2>1, <2>2 DEF RateOf
<1>3. ASSUME NEW s \in Sandboxes, NEW t \in Tenants, NEW r \in Requests, Ask(s, t, r)
      PROVE  RateOf(buckets'[u], granted'[u], since'[u])
  <2>1. /\ buckets' = [buckets EXCEPT ![t] = Consumed(buckets[t])]
        /\ UNCHANGED since
    BY <1>3 DEF Ask, CanCreateSandbox, consume
  <2>2. CASE u # t
    <3>1. buckets'[u] = buckets[u] /\ granted'[u] = granted[u]
      BY <1>0, <1>3, <2>1, <2>2 DEF Ask
    <3> QED BY <1>0, <2>1, <3>1
  <2>3. CASE u = t /\ buckets[t] = NoTenant
    <3>1. buckets'[u] = NoTenant
      BY <1>0, <2>1, <2>3 DEF Consumed
    <3> QED BY <3>1 DEF RateOf
  <2>4. CASE u = t /\ buckets[t] # NoTenant
    <3>1. /\ buckets[t] \in Buckets /\ buckets[t].lastRefill <= now
          /\ since[t] <= buckets[t].lastRefill
          /\ granted[t] * Minute + buckets[t].tokens <= buckets[t].burst * Minute
                + buckets[t].limit * (buckets[t].lastRefill - since[t])
          /\ granted[t] \in Nat /\ since[t] \in Nat
      BY <1>0, <2>4 DEF TenantTypeOK, AccountsOK, RateOf
    <3>2. buckets'[t] = Consumed(buckets[t])
      BY <1>0, <2>1
    <3>3. granted'[t] = IF refill(buckets[t]).tokens >= Minute
                        THEN granted[t] + 1 ELSE granted[t]
      BY <1>0, <1>3, <2>4 DEF Ask, HasToken
    <3>4. Consumed(buckets[t]).lastRefill = now
      BY <1>0, <2>4, <3>1, ConsumeType
    <3>5. since[t] <= now
      BY <1>0, <3>1 DEF Buckets
    <3>6. (IF refill(buckets[t]).tokens >= Minute THEN granted[t] + 1 ELSE granted[t]) * Minute
               + Consumed(buckets[t]).tokens
            <= Consumed(buckets[t]).burst * Minute + Consumed(buckets[t]).limit
                  * (Consumed(buckets[t]).lastRefill - since[t])
      BY <1>0, <2>4, <3>1, ConsumeBound
    <3>7. granted'[t] * Minute + buckets'[t].tokens <= buckets'[t].burst * Minute
             + buckets'[t].limit * (buckets'[t].lastRefill - since[t])
      BY <3>2, <3>3, <3>6
    <3>8. since'[t] <= buckets'[t].lastRefill
      BY <2>1, <3>2, <3>4, <3>5
    <3> QED BY <2>1, <2>4, <3>7, <3>8 DEF RateOf
  <2> QED BY <2>2, <2>3, <2>4
<1>4. \/ UNCHANGED <<buckets, granted, since>>
      \/ \E t \in Tenants, spec \in Specs, p \in Phases : Register(t, spec, p)
      \/ \E t \in Tenants : Unregister(t)
      \/ \E s \in Sandboxes, t \in Tenants, r \in Requests : Ask(s, t, r)
  <2>1. CASE \E t \in Tenants, spec \in Specs : reconcileQuota(t, spec.hard)
    BY <2>1 DEF reconcileQuota, RegisterQuota
  <2>2. CASE \E t \in Tenants : reconcileTerminatingTenant(t)
    BY <2>2 DEF reconcileTerminatingTenant, UnregisterQuota
  <2>3. CASE \E t \in Tenants, r \in Requests : ReserveFor(t, r)
    BY <2>3 DEF ReserveFor, Reserve, ReserveFails
  <2>4. CASE \E h \in held : GiveBack(h)
    BY <2>4 DEF GiveBack, Unreserve, tvars
  <2>5. CASE (resetDailyCounters \/ Tick) /\ UNCHANGED cvars
    BY <2>5 DEF resetDailyCounters, Tick, cvars
  <2>6. CASE UNCHANGED vars
    BY <2>6 DEF vars, tvars, cvars
  <2>7. CASE \E t \in Tenants, p \in Phases : SetPhase(t, p)
    BY <2>7 DEF SetPhase, UpdateTenantStatus
  <2>8. CASE \E s \in Sandboxes : Release(s) \/ \E n \in Nodes : Allocate(s, n)
    BY <2>8 DEF Release, ReleaseResources, Allocate, AllocateResources, tvars
  <2> QED BY <2>1, <2>2, <2>3, <2>4, <2>5, <2>6, <2>7, <2>8 DEF ClientNext
<1>5. CASE UNCHANGED <<buckets, granted, since>>
  BY <1>0, <1>5
<1> QED BY <1>1, <1>2, <1>3, <1>4, <1>5

-----------------------------------------------------------------------------
(* The theorems *)

LEMMA ClientInitInv ==
    ASSUME ClientInit
    PROVE  CInv
<1>1. AInv
  BY InitAccounts DEF ClientInit
<1>2. TenantTypeOK
  BY <1>1 DEF TenantTypeOK, AInv, ClientInit, Holds
<1>3. \A t \in Tenants : ~ Exists(t) /\ buckets[t] = NoTenant
  BY DEF ClientInit, TenantInit, Exists
<1>4. \A t \in Tenants : Live(t) = {}
  BY DEF ClientInit, Live, Nothing
<1>5. HeldOK
  BY DEF ClientInit, HeldOK
<1> QED BY <1>1, <1>2, <1>3, <1>4, <1>5
       DEF CInv, AInv, NoOrphans, Counted, UsageMatches, SinceOK, RateBound

LEMMA ClientStepInv ==
    ASSUME CInv, [ClientNext]_vars
    PROVE  CInv'
BY StepTypes, StepCounted, StepUsage, StepRate DEF CInv

LEMMA ClientInv == ClientSpec => []CInv
<1>1. ClientInit => CInv
  BY ClientInitInv
<1>2. CInv /\ [ClientNext]_vars => CInv'
  BY ClientStepInv
<1> QED BY <1>1, <1>2, PTL DEF ClientSpec

\* The accounts of TenantManager, QuotaManager and RateLimiter keep their types,
\* no amount goes negative and no bucket exceeds its burst.
THEOREM ClientTypes == ClientSpec => []TenantTypeOK
BY ClientInv, PTL DEF CInv

\* The quota never counts more than the tenant uses.
THEOREM ClientQuota == ClientSpec => []QuotaNeverOvercounts
BY ClientInv, PTL DEF CInv

\* UnregisterTenant never takes the accounts of a sandbox that still holds
\* resources.
THEOREM ClientNoOrphans == ClientSpec => []NoOrphans
BY ClientInv, PTL DEF CInv

\* AllocateResources and ReleaseResources keep a tenant's ResourceUsage and its
\* SandboxCount equal to what the live sandboxes hold, over every node and amount.
THEOREM ClientUsage == ClientSpec => []UsageMatches
BY ClientInv, PTL DEF CInv

\* The rate limiter lets no more creations pass than burst and limit allow,
\* however refills and requests interleave.
THEOREM ClientRate == ClientSpec => []RateBound
BY ClientInv, PTL DEF CInv

\* The accounts and the rate limiter of a tenant hold what they promise, whatever
\* falls between an admission and its allocation.
THEOREM ClientSafe == ClientSpec => []TenantSafe
BY ClientTypes, ClientNoOrphans, ClientQuota, ClientRate, PTL DEF TenantSafe

-----------------------------------------------------------------------------
(* Logs *)

\* The lines of the files l, then those of the buffer b, in a strict order.
InOrder(l, b) ==
    /\ \A f, g \in 1..Len(l) : \A i \in 1..Len(l[f]), j \in 1..Len(l[g]) :
          f < g \/ (f = g /\ i < j) => l[f][i] < l[g][j]
    /\ \A f \in 1..Len(l) : \A i \in 1..Len(l[f]), j \in 1..Len(b) : l[f][i] < b[j]
    /\ \A i, j \in 1..Len(b) : i < j => b[i] < b[j]

Held(l, b, x) ==
    \/ \E f \in 1..Len(l) : \E i \in 1..Len(l[f]) : l[f][i] = x
    \/ \E i \in 1..Len(b) : b[i] = x

LogFiles == Seq(Seq(Nat))

LEMMA HeldNoBuffer ==
    ASSUME NEW l, NEW x
    PROVE  Held(l, <<>>, x) <=> \E f \in 1..Len(l) : \E i \in 1..Len(l[f]) : l[f][i] = x
<1>1. Len(<<>>) = 0 /\ \A i \in 1..0 : FALSE
  OBVIOUS
<1> QED
  BY <1>1 DEF Held

\* One more line, after all others.
LEMMA LineAdded ==
    ASSUME NEW l \in LogFiles, NEW b \in Seq(Nat), NEW n \in Nat, InOrder(l, b),
           \A x \in Nat : Held(l, b, x) => x < n
    PROVE  /\ Append(b, n) \in Seq(Nat) /\ InOrder(l, Append(b, n))
           /\ \A x : Held(l, Append(b, n), x) <=> Held(l, b, x) \/ x = n
<1>1. PICK k \in Nat : k = Len(b)
  OBVIOUS
<1>2. PICK c : c = Append(b, n)
  OBVIOUS
<1>0. c \in Seq(Nat)
  BY <1>2
<1>3. Len(c) = k + 1 /\ \A i \in 1..(k + 1) : c[i] = IF i = k + 1 THEN n ELSE b[i]
  BY <1>1, <1>2
<1>4. \A i \in 1..k : b[i] < n
  <2> SUFFICES ASSUME NEW i \in 1..k PROVE b[i] < n
    OBVIOUS
  <2>1. b[i] \in Nat /\ Held(l, b, b[i])
    BY <1>1 DEF Held
  <2> QED
    BY <2>1
<1>5. \A f \in 1..Len(l) : \A i \in 1..Len(l[f]) : l[f][i] < n
  <2> SUFFICES ASSUME NEW f \in 1..Len(l), NEW i \in 1..Len(l[f]) PROVE l[f][i] < n
    OBVIOUS
  <2>1. l[f] \in Seq(Nat)
    BY DEF LogFiles
  <2>2. l[f][i] \in Nat /\ Held(l, b, l[f][i])
    BY <2>1 DEF Held
  <2> QED
    BY <2>2
<1>6. \A i, j \in 1..(k + 1) : i < j => c[i] < c[j]
  <2> SUFFICES ASSUME NEW i \in 1..(k + 1), NEW j \in 1..(k + 1), i < j PROVE c[i] < c[j]
    OBVIOUS
  <2>1. i \in 1..k /\ c[i] = b[i]
    BY <1>3
  <2>2. CASE j = k + 1
    BY <1>3, <1>4, <2>1, <2>2
  <2>3. CASE j # k + 1
    <3>1. j \in 1..k /\ c[j] = b[j]
      BY <1>3, <2>3
    <3> QED
      BY <1>1, <2>1, <3>1 DEF InOrder
  <2> QED
    BY <2>2, <2>3
<1>7. \A f \in 1..Len(l) : \A i \in 1..Len(l[f]), j \in 1..(k + 1) : l[f][i] < c[j]
  <2> SUFFICES ASSUME NEW f \in 1..Len(l), NEW i \in 1..Len(l[f]), NEW j \in 1..(k + 1) PROVE l[f][i] < c[j]
    OBVIOUS
  <2>1. CASE j = k + 1
    BY <1>3, <1>5, <2>1
  <2>2. CASE j # k + 1
    <3>1. j \in 1..k /\ c[j] = b[j]
      BY <1>3, <2>2
    <3> QED
      BY <1>1, <3>1 DEF InOrder
  <2> QED
    BY <2>1, <2>2
<1>8. InOrder(l, c)
  BY <1>3, <1>6, <1>7 DEF InOrder
<1>9. ASSUME NEW x PROVE Held(l, c, x) <=> Held(l, b, x) \/ x = n
  <2>1. (\E i \in 1..(k + 1) : c[i] = x) <=> (\E i \in 1..k : b[i] = x) \/ x = n
    <3>1. ASSUME NEW i \in 1..(k + 1), c[i] = x PROVE (\E h \in 1..k : b[h] = x) \/ x = n
      BY <1>3, <3>1
    <3>2. ASSUME NEW i \in 1..k, b[i] = x PROVE \E h \in 1..(k + 1) : c[h] = x
      BY <1>3, <3>2
    <3>3. c[k + 1] = n /\ k + 1 \in 1..(k + 1)
      BY <1>3
    <3> QED
      BY <3>1, <3>2, <3>3
  <2> QED
    BY <1>1, <1>3, <2>1 DEF Held
<1> QED
  BY <1>0, <1>2, <1>8, <1>9

Flushed(l, b) == [l EXCEPT ![Len(l)] = @ \o b]

\* The buffer goes to the end of the last file.
LEMMA BufferFlushed ==
    ASSUME NEW l \in LogFiles, NEW b \in Seq(Nat), InOrder(l, b), Len(l) > 0
    PROVE  /\ Flushed(l, b) \in LogFiles /\ Len(Flushed(l, b)) = Len(l) /\ InOrder(Flushed(l, b), <<>>)
           /\ \A x : Held(Flushed(l, b), <<>>, x) <=> Held(l, b, x)
<1>1. PICK n \in Nat, k \in Nat : n = Len(l) /\ k = Len(b)
  BY DEF LogFiles
<1>2. n \in 1..n /\ n > 0
  BY <1>1
<1>3. PICK q \in Seq(Nat) : q = l[n]
  BY <1>1, <1>2 DEF LogFiles
<1>4. PICK h \in Nat : h = Len(q)
  OBVIOUS
<1>5. PICK r : r = q \o b
  OBVIOUS
<1>12. PICK m : m = Flushed(l, b)
  OBVIOUS
<1>6. Len(r) = h + k /\ \A i \in 1..(h + k) : r[i] = IF i <= h THEN q[i] ELSE b[i - h]
  BY <1>1, <1>3, <1>4, <1>5, ConcatProperties
<1>13. r \in Seq(Nat)
  BY <1>3, <1>5
<1>7. m \in LogFiles /\ Len(m) = n /\ m[n] = r /\ \A f \in 1..n : f # n => m[f] = l[f]
  <2>1. m = [l EXCEPT ![n] = r]
    BY <1>1, <1>2, <1>3, <1>5, <1>12 DEF Flushed
  <2>2. PICK S : S = Seq(Nat)
    OBVIOUS
  <2>3. l \in Seq(S) /\ r \in S /\ Len(l) = n
    BY <1>1, <1>13, <2>2 DEF LogFiles
  <2>4. m \in Seq(S) /\ Len(m) = n /\ m[n] = r /\ \A f \in 1..n : f # n => m[f] = l[f]
    BY <1>2, <2>1, <2>3
  <2> QED
    BY <2>2, <2>4 DEF LogFiles
<1>8. \A i, j \in 1..(h + k) : i < j => r[i] < r[j]
  <2> SUFFICES ASSUME NEW i \in 1..(h + k), NEW j \in 1..(h + k), i < j PROVE r[i] < r[j]
    OBVIOUS
  <2>1. CASE j <= h
    <3>1. r[i] = q[i] /\ r[j] = q[j] /\ i \in 1..h /\ j \in 1..h
      BY <1>6, <2>1
    <3> QED
      BY <1>1, <1>2, <1>3, <1>4, <3>1 DEF InOrder
  <2>2. CASE i <= h /\ j > h
    <3>1. r[i] = q[i] /\ r[j] = b[j - h] /\ i \in 1..h /\ j - h \in 1..k
      BY <1>6, <2>2
    <3> QED
      BY <1>1, <1>2, <1>3, <1>4, <3>1 DEF InOrder
  <2>3. CASE i > h
    <3>1. r[i] = b[i - h] /\ r[j] = b[j - h] /\ i - h \in 1..k /\ j - h \in 1..k /\ i - h < j - h
      BY <1>6, <2>3
    <3> QED
      BY <1>1, <3>1 DEF InOrder
  <2> QED
    BY <2>1, <2>2, <2>3
<1>9. \A f \in 1..n : f < n => \A i \in 1..Len(l[f]), j \in 1..(h + k) : l[f][i] < r[j]
  <2> SUFFICES ASSUME NEW f \in 1..n, f < n, NEW i \in 1..Len(l[f]), NEW j \in 1..(h + k) PROVE l[f][i] < r[j]
    OBVIOUS
  <2>1. CASE j <= h
    <3>1. r[j] = q[j] /\ j \in 1..h
      BY <1>6, <2>1
    <3> QED
      BY <1>1, <1>2, <1>3, <1>4, <3>1 DEF InOrder
  <2>2. CASE j > h
    <3>1. PICK g \in 1..k : g = j - h
      BY <2>2
    <3>2. r[j] = b[g]
      BY <1>6, <2>2, <3>1
    <3>3. l[f][i] < b[g]
      BY <1>1 DEF InOrder
    <3> QED
      BY <3>2, <3>3
  <2> QED
    BY <2>1, <2>2
<1>10. InOrder(m, <<>>)
  <2>1. ASSUME NEW f \in 1..n, NEW g \in 1..n, NEW i \in 1..Len(m[f]), NEW j \in 1..Len(m[g]), f < g \/ (f = g /\ i < j)
        PROVE  m[f][i] < m[g][j]
    <3>1. CASE g # n
      <4>1. f # n /\ m[f] = l[f] /\ m[g] = l[g]
        BY <1>7, <2>1, <3>1
      <4> QED
        BY <1>1, <2>1, <4>1 DEF InOrder
    <3>2. CASE g = n /\ f # n
      <4>1. f < n /\ m[f] = l[f] /\ m[g] = r /\ j \in 1..(h + k)
        BY <1>6, <1>7, <2>1, <3>2
      <4> QED
        BY <1>9, <2>1, <4>1
    <3>3. CASE g = n /\ f = n
      <4>1. m[f] = r /\ m[g] = r /\ i \in 1..(h + k) /\ j \in 1..(h + k) /\ i < j
        BY <1>6, <1>7, <2>1, <3>3
      <4> QED
        BY <1>8, <4>1
    <3> QED
      BY <3>1, <3>2, <3>3
  <2> QED
    BY <1>7, <2>1 DEF InOrder
<1>11. ASSUME NEW x PROVE Held(m, <<>>, x) <=> Held(l, b, x)
  <2>1. ASSUME NEW f \in 1..n, NEW i \in 1..Len(m[f]), m[f][i] = x PROVE Held(l, b, x)
    <3>1. CASE f # n
      BY <1>1, <1>7, <2>1, <3>1 DEF Held
    <3>2. CASE f = n /\ i <= h
      <4>1. q[i] = x /\ i \in 1..h
        BY <1>6, <1>7, <2>1, <3>2
      <4> QED
        BY <1>1, <1>2, <1>3, <1>4, <4>1 DEF Held
    <3>3. CASE f = n /\ i > h
      <4>1. b[i - h] = x /\ i - h \in 1..k
        BY <1>6, <1>7, <2>1, <3>3
      <4> QED
        BY <1>1, <4>1 DEF Held
    <3> QED
      BY <3>1, <3>2, <3>3
  <2>2. ASSUME NEW f \in 1..n, NEW i \in 1..Len(l[f]), l[f][i] = x PROVE Held(m, <<>>, x)
    <3>1. CASE f # n
      BY <1>7, <2>2, <3>1 DEF Held
    <3>2. CASE f = n
      <4>1. i \in 1..(h + k) /\ m[n][i] = x /\ Len(m[n]) = h + k
        BY <1>3, <1>4, <1>6, <1>7, <2>2, <3>2
      <4> QED
        BY <1>2, <1>7, <4>1 DEF Held
    <3> QED
      BY <3>1, <3>2
  <2>3. ASSUME NEW i \in 1..k, b[i] = x PROVE Held(m, <<>>, x)
    <3>1. i + h \in 1..(h + k) /\ ~ (i + h <= h) /\ (i + h) - h = i
      BY <2>3
    <3>2. m[n][i + h] = x /\ Len(m[n]) = h + k
      BY <1>6, <1>7, <2>3, <3>1
    <3> QED
      BY <1>2, <1>7, <3>1, <3>2 DEF Held
  <2>4. Held(m, <<>>, x) <=> \E f \in 1..n : \E i \in 1..Len(m[f]) : m[f][i] = x
    <3>1. Held(m, <<>>, x) <=> \E f \in 1..Len(m) : \E i \in 1..Len(m[f]) : m[f][i] = x
      BY HeldNoBuffer
    <3> QED
      BY <1>7, <3>1
  <2>5. Held(l, b, x) => Held(m, <<>>, x)
    BY <1>1, <2>2, <2>3 DEF Held
  <2> QED
    BY <2>1, <2>4, <2>5
<1> QED
  BY <1>1, <1>7, <1>10, <1>11, <1>12

\* A file is created, and nothing is in it.
LEMMA FileCreated ==
    ASSUME NEW l \in LogFiles, InOrder(l, <<>>)
    PROVE  /\ Append(l, <<>>) \in LogFiles /\ Len(Append(l, <<>>)) = Len(l) + 1 /\ InOrder(Append(l, <<>>), <<>>)
           /\ \A x : Held(Append(l, <<>>), <<>>, x) <=> Held(l, <<>>, x)
<1>1. PICK n \in Nat : n = Len(l)
  BY DEF LogFiles
<1>2. PICK m : m = Append(l, <<>>)
  OBVIOUS
<1>3. m \in LogFiles /\ Len(m) = n + 1 /\ m[n + 1] = <<>> /\ \A f \in 1..n : m[f] = l[f]
  <2>1. PICK S : S = Seq(Nat)
    OBVIOUS
  <2>2. l \in Seq(S) /\ <<>> \in S
    BY <2>1 DEF LogFiles
  <2>3. m \in Seq(S) /\ Len(m) = n + 1 /\ m[n + 1] = <<>> /\ \A f \in 1..n : m[f] = l[f]
    BY <1>1, <1>2, <2>2
  <2> QED
    BY <2>1, <2>3 DEF LogFiles
<1>4. \A f \in 1..(n + 1) : \A i \in 1..Len(m[f]) : f \in 1..n
  <2> SUFFICES ASSUME NEW f \in 1..(n + 1), NEW i \in 1..Len(m[f]), f \notin 1..n PROVE FALSE
    OBVIOUS
  <2>1. f = n + 1 /\ Len(<<>>) = 0
    OBVIOUS
  <2> QED
    BY <1>3, <2>1
<1>5. InOrder(m, <<>>)
  BY <1>1, <1>3, <1>4 DEF InOrder
<1>6. ASSUME NEW x PROVE Held(m, <<>>, x) <=> Held(l, <<>>, x)
  <2>1. ASSUME NEW f \in 1..(n + 1), NEW i \in 1..Len(m[f]), m[f][i] = x PROVE Held(l, <<>>, x)
    BY <1>1, <1>3, <1>4, <2>1 DEF Held
  <2>2. ASSUME NEW f \in 1..n, NEW i \in 1..Len(l[f]), l[f][i] = x PROVE Held(m, <<>>, x)
    <3>1. f \in 1..(n + 1) /\ m[f] = l[f]
      BY <1>3
    <3> QED
      BY <1>3, <2>2, <3>1 DEF Held
  <2> QED
    BY <1>1, <1>3, <2>1, <2>2 DEF Held
<1> QED
  BY <1>1, <1>2, <1>3, <1>5, <1>6

\* The buffer is lost: its lines are those that no file has.
LEMMA BufferDropped ==
    ASSUME NEW l \in LogFiles, NEW b \in Seq(Nat), InOrder(l, b)
    PROVE  InOrder(l, <<>>) /\ \A x : Held(l, <<>>, x) <=> Held(l, b, x) /\ x \notin ToSet(b)
<1>1. InOrder(l, <<>>)
  BY DEF InOrder
<1>2. DOMAIN b = 1..Len(b)
  OBVIOUS
<1>3. \A x : x \in ToSet(b) <=> \E i \in 1..Len(b) : b[i] = x
  BY <1>2 DEF ToSet
<1>4. ASSUME NEW f \in 1..Len(l), NEW i \in 1..Len(l[f]), NEW j \in 1..Len(b) PROVE l[f][i] # b[j]
  <2>1. l[f] \in Seq(Nat)
    BY DEF LogFiles
  <2>2. l[f][i] \in Nat
    BY <2>1
  <2>4. b[j] \in Nat
    OBVIOUS
  <2>3. l[f][i] < b[j]
    BY DEF InOrder
  <2> QED
    BY <2>2, <2>3, <2>4
<1>5. ASSUME NEW x PROVE Held(l, <<>>, x) <=> Held(l, b, x) /\ x \notin ToSet(b)
  <2>1. Held(l, <<>>, x) <=> \E f \in 1..Len(l) : \E i \in 1..Len(l[f]) : l[f][i] = x
    BY HeldNoBuffer
  <2>2. Held(l, b, x) <=> Held(l, <<>>, x) \/ x \in ToSet(b)
    BY <1>3, <2>1 DEF Held
  <2>3. ~ (Held(l, <<>>, x) /\ x \in ToSet(b))
    BY <1>3, <1>4, <2>1
  <2> QED
    BY <2>2, <2>3
<1> QED
  BY <1>1, <1>5

-----------------------------------------------------------------------------

\* The files l and the buffer b have the first n lines but for those of g.
Kept(l, b, n, g) == InOrder(l, b) /\ \A x : Held(l, b, x) <=> x \in 1..n /\ x \notin g

LEMMA KeptAdded ==
    ASSUME NEW l \in LogFiles, NEW b \in Seq(Nat), NEW n \in Nat, NEW g, g \subseteq 1..n, Kept(l, b, n, g)
    PROVE  Append(b, n + 1) \in Seq(Nat) /\ Kept(l, Append(b, n + 1), n + 1, g)
<1>1. \A x \in Nat : Held(l, b, x) => x < n + 1
  BY DEF Kept
<1>2. PICK c : c = Append(b, n + 1)
  OBVIOUS
<1>3. n + 1 \in Nat /\ InOrder(l, b)
  BY DEF Kept
<1>4. c \in Seq(Nat) /\ InOrder(l, c) /\ \A x : Held(l, c, x) <=> Held(l, b, x) \/ x = n + 1
  BY <1>1, <1>2, <1>3, LineAdded
<1>5. \A x : x \in 1..(n + 1) /\ x \notin g <=> (x \in 1..n /\ x \notin g) \/ x = n + 1
  OBVIOUS
<1>6. Kept(l, c, n + 1, g)
  BY <1>4, <1>5 DEF Kept
<1> QED
  BY <1>2, <1>4, <1>6

LEMMA KeptFlushed ==
    ASSUME NEW l \in LogFiles, NEW b \in Seq(Nat), NEW n, NEW g, Kept(l, b, n, g), Len(l) > 0
    PROVE  Flushed(l, b) \in LogFiles /\ Len(Flushed(l, b)) = Len(l) /\ Kept(Flushed(l, b), <<>>, n, g)
BY BufferFlushed DEF Kept

LEMMA KeptCreated ==
    ASSUME NEW l \in LogFiles, NEW n, NEW g, Kept(l, <<>>, n, g)
    PROVE  Append(l, <<>>) \in LogFiles /\ Len(Append(l, <<>>)) = Len(l) + 1 /\ Kept(Append(l, <<>>), <<>>, n, g)
BY FileCreated DEF Kept

LEMMA KeptDropped ==
    ASSUME NEW l \in LogFiles, NEW b \in Seq(Nat), NEW n, NEW g, Kept(l, b, n, g)
    PROVE  ToSet(b) \subseteq 1..n /\ Kept(l, <<>>, n, g \cup ToSet(b))
<1>1. InOrder(l, <<>>) /\ \A x : Held(l, <<>>, x) <=> Held(l, b, x) /\ x \notin ToSet(b)
  BY BufferDropped DEF Kept
<1>2. \A x \in ToSet(b) : Held(l, b, x)
  <2>1. DOMAIN b = 1..Len(b)
    OBVIOUS
  <2> QED
    BY <2>1 DEF ToSet, Held
<1> QED
  BY <1>1, <1>2 DEF Kept

\* A line that is lost as it is written.
LEMMA KeptLess ==
    ASSUME NEW l, NEW b, NEW n \in Nat, NEW g, Kept(l, b, n, g)
    PROVE  Kept(l, b, n + 1, g \cup {n + 1})
BY DEF Kept

WriterHas(f, b) ==
    /\ logWriter = [file |-> f, buf |-> b]
    /\ f = 0 => b = <<>> /\ holders = {}
    /\ Kept(logs, b, Len(accepted), lost)

\* The stream: the buffer belongs to the last file, lines are numbered as they
\* are accepted, and what was not lost is held, in order.
StreamInv ==
    /\ logs \in LogFiles
    /\ \E b \in Seq(Nat), f \in {0, Len(logs)} : WriterHas(f, b)
    /\ current \in {0, Len(logs)}
    /\ accepted \in Seq(Nat)
    /\ \A i \in 1..Len(accepted) : accepted[i] = i
    /\ lost \subseteq 1..Len(accepted)

\* One line more.
LEMMA Numbered ==
    ASSUME NEW a \in Seq(Nat), \A i \in 1..Len(a) : a[i] = i, NEW c, c = Append(a, Len(a) + 1)
    PROVE  c \in Seq(Nat) /\ Len(c) = Len(a) + 1 /\ \A i \in 1..Len(c) : c[i] = i
<1>1. PICK n \in Nat : n = Len(a)
  OBVIOUS
<1>2. c \in Seq(Nat) /\ Len(c) = n + 1 /\ \A i \in 1..(n + 1) : c[i] = IF i = n + 1 THEN n + 1 ELSE a[i]
  BY <1>1
<1>3. \A i \in 1..(n + 1) : c[i] = i
  BY <1>1, <1>2
<1> QED
  BY <1>1, <1>2, <1>3

\* At first there is nothing.
LEMMA StreamStarts == LogInit => StreamInv
<1> SUFFICES ASSUME LogInit PROVE StreamInv
  OBVIOUS
<1>1. Kept(<<>>, <<>>, 0, {})
  BY DEF Kept, InOrder, Held
<1>2. <<>> \in LogFiles /\ Len(<<>>) = 0
  BY DEF LogFiles
<1>3. logs = <<>> /\ accepted = <<>> /\ lost = {} /\ current = 0 /\ holders = {} /\ logWriter = [file |-> 0, buf |-> <<>>]
  BY DEF LogInit, NoWriter
<1> QED
  <2>1. WriterHas(0, <<>>) /\ <<>> \in Seq(Nat)
    BY <1>1, <1>2, <1>3 DEF WriterHas
  <2>2. Len(logs) = 0 /\ current \in {0, Len(logs)} /\ Len(accepted) = 0 /\ lost \subseteq 1..Len(accepted)
    BY <1>2, <1>3
  <2>3. \A i \in 1..Len(accepted) : accepted[i] = i
    BY <2>2
  <2>4. logs \in LogFiles /\ accepted \in Seq(Nat) /\ 0 \in {0, Len(logs)}
    BY <1>2, <1>3, <2>2
  <2> QED
    BY <2>1, <2>2, <2>3, <2>4 DEF StreamInv

LEMMA StreamStep ==
    ASSUME StreamInv, [LogNext]_logVars
    PROVE  StreamInv'
<1>1. PICK n \in Nat : n = Len(accepted)
  BY DEF StreamInv, WriterHas
<1>2. PICK b \in Seq(Nat), f \in {0, Len(logs)} :
          /\ logWriter = [file |-> f, buf |-> b]
          /\ f = 0 => b = <<>> /\ holders = {}
          /\ Kept(logs, b, n, lost)
  BY <1>1 DEF StreamInv, WriterHas
<1>3. PICK k \in Nat : k = Len(logs)
  BY DEF StreamInv, LogFiles
<1>4. logWriter.file = f /\ logWriter.buf = b
  BY <1>2
<1>5. logs \in LogFiles /\ accepted \in Seq(Nat) /\ lost \subseteq 1..n /\ current \in {0, k}
  BY <1>1, <1>3 DEF StreamInv, WriterHas
<1>6. ASSUME UNCHANGED <<logs, logWriter, accepted, lost>>, current' \in {0, current}, holders' \subseteq holders
      PROVE  StreamInv'
  BY <1>6 DEF StreamInv, WriterHas
<1>7. ASSUME UNCHANGED <<accepted, lost>>, logs' = Flushed(logs, b), f # 0, current' = current,
             logWriter' = [file |-> f, buf |-> <<>>] \/ (logWriter' = NoWriter /\ holders' = {})
      PROVE  StreamInv'
  <2>1. f = k /\ k > 0
    BY <1>2, <1>3, <1>7
  <2>2. logs' \in LogFiles /\ Len(logs') = k /\ Kept(logs', <<>>, n, lost)
    BY <1>2, <1>3, <1>5, <1>7, <2>1, KeptFlushed
  <2>3. PICK e \in {0, Len(logs')} : logWriter' = [file |-> e, buf |-> <<>>] /\ (e = 0 => holders' = {})
    BY <1>7, <2>1, <2>2 DEF NoWriter
  <2> QED
    <3>1. WriterHas(e, <<>>)' /\ <<>> \in Seq(Nat)
      BY <1>1, <1>7, <2>2, <2>3 DEF WriterHas
    <3>2. current' \in {0, Len(logs')} /\ accepted' = accepted /\ lost' = lost
      BY <1>3, <1>5, <1>7, <2>2
    <3> QED
      BY <1>1, <2>2, <3>1, <3>2 DEF StreamInv
<1>8. CASE UNCHANGED logVars
  BY <1>6, <1>8 DEF logVars, streamVars, indexVars
<1>9. ASSUME NEW c \in LogClients, Open(c) PROVE StreamInv'
  <2>1. CASE f # 0
    <3>1. UNCHANGED <<logs, current, logWriter, accepted, lost>>
      BY <1>4, <1>9, <2>1 DEF Open
    <3> QED
      BY <1>1, <1>2, <2>1, <3>1 DEF StreamInv, WriterHas
  <2>2. CASE f = 0 /\ current # 0
    <3>1. UNCHANGED <<logs, current, accepted, lost>> /\ logWriter' = [file |-> current, buf |-> <<>>] /\ b = <<>>
      BY <1>2, <1>4, <1>9, <2>2 DEF Open
    <3> QED
      BY <1>1, <1>2, <1>3, <1>5, <2>2, <3>1 DEF StreamInv, WriterHas
  <2>3. CASE f = 0 /\ current = 0
    <3>1. /\ UNCHANGED <<accepted, lost>> /\ logs' = Append(logs, <<>>) /\ current' = k + 1
          /\ logWriter' = [file |-> k + 1, buf |-> <<>>] /\ b = <<>>
      BY <1>2, <1>3, <1>4, <1>9, <2>3 DEF Open
    <3>2. logs' \in LogFiles /\ Len(logs') = k + 1 /\ Kept(logs', <<>>, n, lost)
      BY <1>2, <1>3, <1>5, <3>1, KeptCreated
    <3>3. k + 1 # 0
      OBVIOUS
    <3> QED
      BY <1>1, <1>5, <3>1, <3>2, <3>3 DEF StreamInv, WriterHas
  <2> QED
    BY <2>1, <2>2, <2>3
<1>10. ASSUME NEW c \in LogClients, WriteLine(c) PROVE StreamInv'
  <2>1. f # 0 /\ f = k /\ k > 0
    BY <1>2, <1>3, <1>10 DEF WriteLine
  <2>2. accepted' = Append(accepted, n + 1) /\ UNCHANGED <<current, holders, lost>>
    BY <1>1, <1>10 DEF WriteLine
  <2>3. accepted' \in Seq(Nat) /\ Len(accepted') = n + 1 /\ \A i \in 1..Len(accepted') : accepted'[i] = i
    BY <1>1, <1>5, <2>2, Numbered DEF StreamInv, WriterHas
  <2>4. lost \subseteq 1..(n + 1)
    BY <1>5
  <2>5. CASE Len(b) < LogBuffer
    <3>1. logs' = logs /\ logWriter' = [file |-> f, buf |-> Append(b, n + 1)]
      BY <1>1, <1>2, <1>10, <2>5 DEF WriteLine
    <3>2. Append(b, n + 1) \in Seq(Nat) /\ Kept(logs, Append(b, n + 1), n + 1, lost)
      BY <1>2, <1>5, KeptAdded
    <3> QED
      BY <1>3, <1>5, <2>1, <2>2, <2>3, <2>4, <3>1, <3>2 DEF StreamInv, WriterHas
  <2>6. CASE ~ (Len(b) < LogBuffer)
    <3>1. logs' = Flushed(logs, b) /\ logWriter' = [file |-> f, buf |-> <<n + 1>>]
      BY <1>1, <1>2, <1>3, <1>10, <2>1, <2>6 DEF WriteLine, Flushed
    <3>2. logs' \in LogFiles /\ Len(logs') = k /\ Kept(logs', <<>>, n, lost)
      BY <1>2, <1>3, <1>5, <2>1, <3>1, KeptFlushed
    <3>3. <<n + 1>> = Append(<<>>, n + 1) /\ <<>> \in Seq(Nat)
      OBVIOUS
    <3>4. <<n + 1>> \in Seq(Nat) /\ Kept(logs', <<n + 1>>, n + 1, lost)
      BY <1>5, <3>2, <3>3, KeptAdded
    <3> QED
      BY <1>3, <1>5, <2>1, <2>2, <2>3, <2>4, <3>1, <3>2, <3>4 DEF StreamInv, WriterHas
  <2> QED
    BY <2>5, <2>6
<1>11. ASSUME NEW c \in LogClients, CloseHandle(c) PROVE StreamInv'
  <2>1. f # 0
    BY <1>2, <1>11 DEF CloseHandle
  <2>2. /\ UNCHANGED <<current, accepted, lost>> /\ logWriter' = [file |-> f, buf |-> <<>>]
        /\ logs' = Flushed(logs, b)
    BY <1>2, <1>3, <1>11, <2>1 DEF CloseHandle, Flushed
  <2> QED
    BY <1>7, <2>1, <2>2
<1>12. ASSUME NEW c \in LogClients, WriteAfterClose(c) PROVE StreamInv'
  <2>1. /\ accepted' = Append(accepted, n + 1) /\ lost' = lost \cup {n + 1}
        /\ UNCHANGED <<logs, current, logWriter, holders>>
    BY <1>1, <1>12 DEF WriteAfterClose
  <2>2. accepted' \in Seq(Nat) /\ Len(accepted') = n + 1 /\ \A i \in 1..Len(accepted') : accepted'[i] = i
    BY <1>1, <1>5, <2>1, Numbered DEF StreamInv, WriterHas
  <2>3. Kept(logs, b, n + 1, lost') /\ lost' \subseteq 1..(n + 1)
    BY <1>2, <1>5, <2>1, KeptLess
  <2> QED
    BY <1>2, <1>5, <1>3, <2>1, <2>2, <2>3 DEF StreamInv, WriterHas
<1>13. CASE CloseStream
  <2>1. f # 0 /\ UNCHANGED <<current, accepted, lost>> /\ logWriter' = NoWriter /\ holders' = {} /\ logs' = Flushed(logs, b)
    BY <1>2, <1>3, <1>13 DEF CloseStream, Flushed
  <2> QED
    BY <1>7, <2>1
<1>14. CASE RotateLogs \/ CleanupOldLogFiles
  BY <1>6, <1>14 DEF RotateLogs, CleanupOldLogFiles
<1>15. ASSUME UNCHANGED streamVars PROVE StreamInv'
  BY <1>6, <1>15 DEF streamVars
<1>16. CASE CrashAndLoadIndex
  <2>1. /\ UNCHANGED <<logs, current, accepted>> /\ logWriter' = [file |-> 0, buf |-> <<>>] /\ holders' = {}
        /\ lost' = lost \cup ToSet(b)
    BY <1>4, <1>16 DEF CrashAndLoadIndex, NoWriter
  <2>2. ToSet(b) \subseteq 1..n /\ Kept(logs, <<>>, n, lost')
    BY <1>2, <1>5, <2>1, KeptDropped
  <2> QED
    <3>1. WriterHas(0, <<>>)' /\ <<>> \in Seq(Nat)
      BY <1>1, <2>1, <2>2 DEF WriterHas
    <3>2. lost' \subseteq 1..n
      BY <1>5, <2>1, <2>2
    <3> QED
      BY <1>1, <1>3, <1>5, <2>1, <3>1, <3>2 DEF StreamInv
<1>17. CASE \/ \E m \in 1..MaxLines : Index(m)
            \/ CleanupOldEntries
            \/ \E g \in Flushers : FlushIndex(g) \/ FlushWritten(g) \/ FlushRename(g)
  BY <1>15, <1>17 DEF Index, CleanupOldEntries, FlushIndex, FlushWritten, FlushRename
<1> QED
  BY <1>8, <1>9, <1>10, <1>11, <1>12, <1>13, <1>14, <1>16, <1>17 DEF LogNext

LEMMA LinesComplete == StreamInv => LogComplete
<1> SUFFICES ASSUME StreamInv PROVE LogComplete
  OBVIOUS
<1>1. PICK n \in Nat : n = Len(accepted)
  BY DEF StreamInv
<1>2. PICK b \in Seq(Nat) : b = logWriter.buf /\ Kept(logs, b, n, lost)
  BY <1>1 DEF StreamInv, WriterHas
<1>3. PICK k \in Nat : k = Len(logs)
  BY DEF StreamInv, LogFiles
<1>4. PICK pieces : pieces = Append(logs, b)
  OBVIOUS
<1>5. /\ DOMAIN pieces = 1..(k + 1) /\ pieces[k + 1] = b
      /\ \A f \in 1..k : pieces[f] = logs[f]
      /\ \A f \in 1..(k + 1) : pieces[f] \in Seq(Nat)
  <2>1. PICK S : S = Seq(Nat)
    OBVIOUS
  <2>2. logs \in Seq(S) /\ b \in S
    BY <2>1 DEF StreamInv, LogFiles
  <2>3. DOMAIN pieces = 1..(k + 1) /\ pieces[k + 1] = b /\ \A f \in 1..k : pieces[f] = logs[f]
    BY <1>3, <1>4, <2>2
  <2>4. \A f \in 1..(k + 1) : pieces[f] \in S
    BY <1>3, <2>2, <2>3
  <2> QED
    BY <2>1, <2>3, <2>4
<1>6. \A f \in 1..(k + 1) : DOMAIN pieces[f] = 1..Len(pieces[f])
  BY <1>5
<1>7. ASSUME NEW f \in 1..(k + 1), NEW g \in 1..(k + 1), NEW i \in 1..Len(pieces[f]), NEW j \in 1..Len(pieces[g]),
             f < g \/ (f = g /\ i < j)
      PROVE  pieces[f][i] < pieces[g][j]
  <2>1. InOrder(logs, b)
    BY <1>2 DEF Kept
  <2>2. CASE g # k + 1
    <3>2. g \in 1..k /\ (f < g \/ f = g)
      BY <1>7, <2>2
    <3>3. f \in 1..k
      BY <3>2
    <3>1. f \in 1..k /\ g \in 1..k /\ pieces[f] = logs[f] /\ pieces[g] = logs[g]
      BY <1>5, <3>2, <3>3
    <3> QED
      BY <1>3, <1>7, <2>1, <3>1 DEF InOrder
  <2>3. CASE g = k + 1 /\ f # k + 1
    <3>1. f \in 1..k /\ pieces[f] = logs[f] /\ pieces[g] = b
      BY <1>5, <1>7, <2>3
    <3> QED
      BY <1>3, <2>1, <3>1 DEF InOrder
  <2>4. CASE g = k + 1 /\ f = k + 1
    <3>1. i < j /\ pieces[f] = b /\ pieces[g] = b
      BY <1>5, <1>7, <2>4
    <3> QED
      BY <2>1, <3>1 DEF InOrder
  <2> QED
    BY <2>2, <2>3, <2>4
<1>8. \A x : Held(logs, b, x) <=> \E f \in 1..(k + 1) : \E i \in 1..Len(pieces[f]) : pieces[f][i] = x
  <2>1. ASSUME NEW x, NEW f \in 1..(k + 1), NEW i \in 1..Len(pieces[f]), pieces[f][i] = x PROVE Held(logs, b, x)
    <3>1. CASE f = k + 1
      BY <1>5, <2>1, <3>1 DEF Held
    <3>2. CASE f # k + 1
      <4>1. f \in 1..k
        BY <3>2
      <4> QED
        BY <1>3, <1>5, <2>1, <4>1 DEF Held
    <3> QED
      BY <3>1, <3>2
  <2>2. ASSUME NEW x, Held(logs, b, x) PROVE \E f \in 1..(k + 1) : \E i \in 1..Len(pieces[f]) : pieces[f][i] = x
    <3>1. CASE \E f \in 1..k : \E i \in 1..Len(logs[f]) : logs[f][i] = x
      <4>1. \A f \in 1..k : f \in 1..(k + 1)
        OBVIOUS
      <4> QED
        BY <1>5, <3>1, <4>1
    <3>2. CASE \E i \in 1..Len(b) : b[i] = x
      BY <1>5, <3>2
    <3> QED
      BY <1>3, <2>2, <3>1, <3>2 DEF Held
  <2> QED
    BY <2>1, <2>2
<1>9. ToSet(accepted) = 1..n
  <2>1. DOMAIN accepted = 1..n /\ \A i \in 1..n : accepted[i] = i
    BY <1>1 DEF StreamInv
  <2> QED
    BY <2>1 DEF ToSet
<1>10. UNION {ToSet(pieces[f]) : f \in 1..(k + 1)} = (1..n) \ lost
  <2>1. \A x : x \in UNION {ToSet(pieces[f]) : f \in 1..(k + 1)} <=> \E f \in 1..(k + 1) : \E i \in 1..Len(pieces[f]) : pieces[f][i] = x
    BY <1>6 DEF ToSet
  <2>2. \A x : Held(logs, b, x) <=> x \in (1..n) \ lost
    BY <1>2 DEF Kept
  <2> QED
    BY <1>8, <2>1, <2>2
<1> QED
  <2>1. \A f, g \in DOMAIN pieces : \A i \in DOMAIN pieces[f], j \in DOMAIN pieces[g] :
           f < g \/ (f = g /\ i < j) => pieces[f][i] < pieces[g][j]
    BY <1>5, <1>6, <1>7
  <2>2. UNION {ToSet(pieces[f]) : f \in DOMAIN pieces} = ToSet(accepted) \ lost
    BY <1>5, <1>9, <1>10
  <2>3. pieces = Append(logs, logWriter.buf)
    BY <1>2, <1>4
  <2> QED
    BY <2>1, <2>2, <2>3 DEF LogComplete

\* The index: whoever flushes has the temporary file to itself.
IndexInv ==
    /\ onDisk.whole
    /\ \A f \in Flushers : flushing[f] = "renames" => tmpFile.whole
    /\ \A f, g \in Flushers : flushing[f] # "no" /\ flushing[g] # "no" => f = g
    /\ DOMAIN flushing = Flushers

LEMMA IndexStep ==
    ASSUME OneFlusher, IndexInv, [LogNext]_logVars
    PROVE  IndexInv'
<1>1. ASSUME UNCHANGED <<onDisk, tmpFile, flushing>> PROVE IndexInv'
  BY <1>1 DEF IndexInv
<1>2. CASE UNCHANGED logVars
  BY <1>1, <1>2 DEF logVars, indexVars
<1>3. CASE \/ \E c \in LogClients : Open(c) \/ WriteLine(c) \/ CloseHandle(c) \/ WriteAfterClose(c)
           \/ CloseStream \/ RotateLogs \/ CleanupOldLogFiles
  <2>1. UNCHANGED indexVars
    BY <1>3 DEF Open, WriteLine, CloseHandle, WriteAfterClose, CloseStream, RotateLogs, CleanupOldLogFiles
  <2> QED
    BY <1>1, <2>1 DEF indexVars
<1>4. CASE (\E n \in 1..MaxLines : Index(n)) \/ CleanupOldEntries
  BY <1>1, <1>4 DEF Index, CleanupOldEntries
<1>5. ASSUME NEW f \in Flushers, FlushIndex(f) PROVE IndexInv'
  BY <1>5 DEF FlushIndex, Locked, IndexInv
<1>6. ASSUME NEW f \in Flushers, FlushWritten(f) PROVE IndexInv'
  BY <1>6 DEF FlushWritten, IndexInv
<1>7. ASSUME NEW f \in Flushers, FlushRename(f) PROVE IndexInv'
  BY <1>7 DEF FlushRename, IndexInv
<1>8. CASE CrashAndLoadIndex
  BY <1>8 DEF CrashAndLoadIndex, IndexInv
<1> QED
  BY <1>2, <1>3, <1>4, <1>5, <1>6, <1>7, <1>8 DEF LogNext

\* Write, Close and RotateLogs (collector.go): the files and the buffer have what
\* was accepted and not lost to a crash or a Close, in order.
THEOREM LogsAlwaysComplete == LogSpec => []LogComplete
<1>1. LogSpec => []StreamInv
  BY StreamStarts, StreamStep, PTL DEF LogSpec
<1> QED
  BY <1>1, LinesComplete, PTL

\* FlushIndex and LoadIndex (persistence.go) as well: the index on disk is whole.
THEOREM LogsAlwaysSafe == ASSUME OneFlusher PROVE LogSpec => []LogsSafe
<1>1. LogInit => IndexInv
  BY DEF LogInit, IndexInv, NoIndex
<1>2. LogSpec => []IndexInv
  BY <1>1, IndexStep, PTL DEF LogSpec
<1>3. IndexInv => IndexWhole
  BY DEF IndexInv, IndexWhole
<1> QED
  BY <1>2, <1>3, LogsAlwaysComplete, PTL DEF LogsSafe

-----------------------------------------------------------------------------
(* The MCP hub *)

MessageStates == {"none", "ended", "wantsList", "list", "wantsTool", "lookup", "runs", "answer"}

\* The lines of stdin that ask for an answer.
Asking(ls) == {i \in DOMAIN ls : NeedsAnswer(ls[i])}

\* The lines es are answered in their order, and all of those that asked but for
\* the last one, if at says that it is being handled.
Answered(es, ls, at) ==
    /\ \A i, j \in DOMAIN es : i < j => es[i] < es[j]
    /\ IF at \in {"none", "ended"} THEN ToSet(es) = Asking(ls)
       ELSE Len(ls) \in Asking(ls) /\ ToSet(es) = Asking(ls) \ {Len(ls)}

HubInv ==
    /\ messages \in [HubCalls -> [at : MessageStates, server : ToolServers \cup {"none"}]]
    /\ lines \in Seq(LineKinds) /\ answers \in Seq(Nat)
    /\ ToolHasServer
    /\ Answered(answers, lines, messages[Stdin].at)

\* One message goes on, and is still handled or still is not.
LEMMA MessageGoesOn ==
    ASSUME HubInv, NEW m \in HubCalls, NEW at \in MessageStates, MessageAt(m, at),
           UNCHANGED <<servers, lines, answers>>,
           m = Stdin => (at \in {"none", "ended"} <=> messages[m].at \in {"none", "ended"}),
           at = "runs" => messages[m].server \in servers
    PROVE  HubInv'
<1>1. /\ messages' \in [HubCalls -> [at : MessageStates, server : ToolServers \cup {"none"}]]
      /\ messages'[m].at = at /\ messages'[m].server = messages[m].server
      /\ \A c \in HubCalls : c # m => messages'[c] = messages[c]
  BY DEF HubInv, MessageAt
<1>2. ToolHasServer'
  <2> SUFFICES ASSUME NEW c \in HubCalls, messages'[c].at = "runs" PROVE messages'[c].server \in servers
    BY DEF ToolHasServer
  <2> QED
    BY <1>1 DEF HubInv, ToolHasServer
<1>3. messages'[Stdin].at \in {"none", "ended"} <=> messages[Stdin].at \in {"none", "ended"}
  BY <1>1 DEF HubCalls
<1>4. Answered(answers, lines, messages[Stdin].at)'
  BY <1>3 DEF HubInv, Answered
<1> QED
  BY <1>1, <1>2, <1>4 DEF HubInv

\* A message of HTTP comes or is answered.
LEMMA HttpMessage ==
    ASSUME HubInv, NEW m \in HttpCalls, NEW a \in [at : MessageStates, server : ToolServers \cup {"none"}],
           a.at # "runs", messages' = [messages EXCEPT ![m] = a], UNCHANGED <<servers, lines, answers>>
    PROVE  HubInv'
<1>1. m \in HubCalls /\ m # Stdin /\ Stdin \in HubCalls
  BY HubAssumption DEF HubCalls
<1>2. /\ messages' \in [HubCalls -> [at : MessageStates, server : ToolServers \cup {"none"}]]
      /\ messages'[m] = a
      /\ \A c \in HubCalls : c # m => messages'[c] = messages[c]
  BY <1>1 DEF HubInv
<1>3. ToolHasServer'
  <2> SUFFICES ASSUME NEW c \in HubCalls, messages'[c].at = "runs" PROVE messages'[c].server \in servers
    BY DEF ToolHasServer
  <2> QED
    BY <1>2 DEF HubInv, ToolHasServer
<1>4. messages'[Stdin] = messages[Stdin]
  BY <1>1, <1>2
<1> QED
  BY <1>2, <1>3, <1>4 DEF HubInv

LEMMA ReceivedFacts ==
    ASSUME NEW k \in LineKinds, NEW s \in ToolServers
    PROVE  /\ Received(k, s) \in [at : MessageStates, server : ToolServers \cup {"none"}]
           /\ Received(k, s).at \notin {"runs", "none", "ended"}
BY DEF Received, MessageStates

\* A line is read.
LEMMA LineRead ==
    ASSUME NEW ls \in Seq(LineKinds), NEW k \in LineKinds, NEW es, Answered(es, ls, "none"),
           NEW at, at \notin {"none", "ended"}
    PROVE  /\ Append(ls, k) \in Seq(LineKinds)
           /\ Answered(es, Append(ls, k), IF NeedsAnswer(k) THEN at ELSE "none")
<1>1. PICK n \in Nat : n = Len(ls)
  OBVIOUS
<1>2. PICK ms : ms = Append(ls, k)
  OBVIOUS
<1>3. ms \in Seq(LineKinds) /\ Len(ms) = n + 1 /\ DOMAIN ms = 1..(n + 1) /\ ms[n + 1] = k /\ \A i \in 1..n : ms[i] = ls[i]
  BY <1>1, <1>2
<1>4. DOMAIN ls = 1..n
  BY <1>1
<1>5. Asking(ms) = Asking(ls) \cup (IF NeedsAnswer(k) THEN {n + 1} ELSE {}) /\ n + 1 \notin Asking(ls)
  BY <1>3, <1>4 DEF Asking
<1> QED
  BY <1>2, <1>3, <1>5 DEF Answered

\* The last line is answered.
LEMMA LineAnswered ==
    ASSUME NEW ls \in Seq(LineKinds), NEW es \in Seq(Nat), NEW at, at \notin {"none", "ended"}, Answered(es, ls, at)
    PROVE  Append(es, Len(ls)) \in Seq(Nat) /\ Answered(Append(es, Len(ls)), ls, "none")
<1>1. PICK n \in Nat, k \in Nat : n = Len(ls) /\ k = Len(es)
  OBVIOUS
<1>2. PICK bs : bs = Append(es, n)
  OBVIOUS
<1>3. bs \in Seq(Nat) /\ DOMAIN bs = 1..(k + 1) /\ bs[k + 1] = n /\ \A i \in 1..k : bs[i] = es[i]
  BY <1>1, <1>2
<1>4. DOMAIN es = 1..k /\ Asking(ls) \subseteq 1..n
  BY <1>1 DEF Asking
<1>5. ToSet(es) = Asking(ls) \ {n} /\ n \in Asking(ls)
  BY <1>1 DEF Answered
<1>6. ToSet(bs) = ToSet(es) \cup {n}
  <2>1. \A x : x \in ToSet(bs) <=> \E i \in 1..(k + 1) : bs[i] = x
    BY <1>3 DEF ToSet
  <2>2. \A x : x \in ToSet(es) <=> \E i \in 1..k : es[i] = x
    BY <1>4 DEF ToSet
  <2>3. ASSUME NEW i \in 1..(k + 1), i # k + 1 PROVE i \in 1..k
    BY <2>3
  <2>4. \A i \in 1..k : i \in 1..(k + 1)
    OBVIOUS
  <2>5. k + 1 \in 1..(k + 1)
    OBVIOUS
  <2> QED
    BY <1>3, <2>1, <2>2, <2>3, <2>4, <2>5
<1>7. \A i \in 1..k : es[i] < n
  <2> SUFFICES ASSUME NEW i \in 1..k PROVE es[i] < n
    OBVIOUS
  <2>1. es[i] \in 1..n /\ es[i] # n
    BY <1>4, <1>5 DEF ToSet
  <2> QED
    BY <2>1
<1>8. \A i, j \in 1..(k + 1) : i < j => bs[i] < bs[j]
  <2> SUFFICES ASSUME NEW i \in 1..(k + 1), NEW j \in 1..(k + 1), i < j PROVE bs[i] < bs[j]
    OBVIOUS
  <2>1. i \in 1..k /\ bs[i] = es[i]
    BY <1>3
  <2>2. CASE j = k + 1
    BY <1>3, <1>7, <2>1, <2>2
  <2>3. CASE j # k + 1
    <3>1. j \in 1..k /\ bs[j] = es[j]
      BY <1>3, <2>3
    <3> QED
      BY <1>4, <2>1, <3>1 DEF Answered
  <2> QED
    BY <2>2, <2>3
<1>9. ToSet(bs) = Asking(ls)
  BY <1>5, <1>6
<1> QED
  BY <1>1, <1>2, <1>3, <1>8, <1>9 DEF Answered

LEMMA HubStep ==
    ASSUME HubInv, [HubNext]_hubVars
    PROVE  HubInv'
<1>0. Stdin \in HubCalls /\ HttpCalls \subseteq HubCalls
  BY DEF HubCalls
<1>1. ASSUME UNCHANGED <<messages, lines, answers, servers>> PROVE HubInv'
  BY <1>1 DEF HubInv, ToolHasServer
<1>2. CASE UNCHANGED hubVars
  BY <1>1, <1>2 DEF hubVars
<1>3. CASE \E r \in Registrars : (\E s \in ToolServers, what \in {"register", "unregister"} : WantServer(r, s, what)) \/ AwaitHub(r)
  BY <1>1, <1>3 DEF WantServer, AwaitHub
<1>4. ASSUME NEW r \in Registrars, RegisterServer(r) PROVE HubInv'
  <2>1. \A m \in HubCalls : messages[m].at # "runs"
    BY <1>4 DEF RegisterServer, HubReaders
  <2>2. UNCHANGED <<messages, lines, answers>>
    BY <1>4 DEF RegisterServer
  <2> QED
    BY <2>1, <2>2 DEF HubInv, ToolHasServer
<1>5. ASSUME NEW m \in HubCalls, dispatch(m) PROVE HubInv'
  <2>1. PICK at \in {"list", "answer", "lookup", "runs"} :
            /\ MessageAt(m, at) /\ messages[m].at \notin {"none", "ended"}
            /\ at = "runs" => messages[m].server \in servers
    BY <1>5 DEF dispatch, handleToolsList, ToolsListed, handleToolsCall, ToolNotFound, CallTool, ToolReturns
  <2>2. UNCHANGED <<servers, lines, answers>>
    BY <1>5 DEF dispatch, handleToolsList, ToolsListed, handleToolsCall, ToolNotFound, CallTool, ToolReturns
  <2>3. at \in MessageStates /\ at \notin {"none", "ended"}
    BY DEF MessageStates
  <2> QED
    BY <2>1, <2>2, <2>3, MessageGoesOn
<1>6. ASSUME NEW m \in HttpCalls, handleMCP(m) PROVE HubInv'
  <2>1. PICK k \in LineKinds, s \in ToolServers : messages' = [messages EXCEPT ![m] = Received(k, s)]
    BY <1>6 DEF handleMCP
  <2>2. UNCHANGED <<servers, lines, answers>>
    BY <1>6 DEF handleMCP
  <2> QED
    BY <2>1, <2>2, ReceivedFacts, HttpMessage
<1>7. ASSUME NEW m \in HttpCalls, HttpAnswer(m) PROVE HubInv'
  <2>1. Waiting \in [at : MessageStates, server : ToolServers \cup {"none"}] /\ Waiting.at # "runs"
    BY DEF Waiting, MessageStates
  <2>2. messages' = [messages EXCEPT ![m] = Waiting] /\ UNCHANGED <<servers, lines, answers>>
    BY <1>7 DEF HttpAnswer
  <2> QED
    BY <2>1, <2>2, HttpMessage
<1>8. CASE Shutdown
  BY <1>1, <1>8 DEF Shutdown
<1>9. CASE ServeStdio
  <2>1. PICK k \in LineKinds, s \in ToolServers :
            /\ lines' = Append(lines, k)
            /\ messages' = IF ~NeedsAnswer(k) THEN messages ELSE [messages EXCEPT ![Stdin] = Received(k, s)]
    BY <1>9 DEF ServeStdio
  <2>2. messages[Stdin].at = "none" /\ UNCHANGED <<servers, answers>>
    BY <1>9 DEF ServeStdio
  <2>3. PICK a \in [at : MessageStates, server : ToolServers \cup {"none"}] :
            a = Received(k, s) /\ a.at \notin {"runs", "none", "ended"}
    BY ReceivedFacts
  <2>4. lines' \in Seq(LineKinds) /\ Answered(answers, lines', IF NeedsAnswer(k) THEN a.at ELSE "none")
    BY <2>1, <2>2, <2>3, LineRead DEF HubInv
  <2>5. CASE NeedsAnswer(k)
    <3>1. messages' = [messages EXCEPT ![Stdin] = a]
      BY <2>1, <2>3, <2>5
    <3>2. /\ messages' \in [HubCalls -> [at : MessageStates, server : ToolServers \cup {"none"}]]
          /\ messages'[Stdin] = a /\ \A c \in HubCalls : c # Stdin => messages'[c] = messages[c]
      BY <1>0, <3>1 DEF HubInv
    <3>3. ToolHasServer'
      <4> SUFFICES ASSUME NEW c \in HubCalls, messages'[c].at = "runs" PROVE messages'[c].server \in servers
        BY <2>2 DEF ToolHasServer
      <4> QED
        BY <2>3, <3>2 DEF HubInv, ToolHasServer
    <3> QED
      BY <2>2, <2>4, <2>5, <3>2, <3>3 DEF HubInv
  <2>6. CASE ~ NeedsAnswer(k)
    BY <2>1, <2>2, <2>4, <2>6 DEF HubInv, ToolHasServer
  <2> QED
    BY <2>5, <2>6
<1>10. CASE StdioAnswer
  <2>1. /\ messages[Stdin].at = "answer" /\ messages' = [messages EXCEPT ![Stdin] = Waiting]
        /\ answers' = Append(answers, Len(lines)) /\ UNCHANGED <<servers, lines>>
    BY <1>10 DEF StdioAnswer
  <2>2. answers' \in Seq(Nat) /\ Answered(answers', lines, "none")
    BY <2>1, LineAnswered DEF HubInv
  <2>3. Waiting \in [at : MessageStates, server : ToolServers \cup {"none"}] /\ Waiting.at = "none"
    BY DEF Waiting, MessageStates
  <2>4. /\ messages' \in [HubCalls -> [at : MessageStates, server : ToolServers \cup {"none"}]]
        /\ messages'[Stdin] = Waiting /\ \A c \in HubCalls : c # Stdin => messages'[c] = messages[c]
    BY <1>0, <2>1, <2>3 DEF HubInv
  <2>5. ToolHasServer'
    <3> SUFFICES ASSUME NEW c \in HubCalls, messages'[c].at = "runs" PROVE messages'[c].server \in servers
      BY <2>1 DEF ToolHasServer
    <3> QED
      BY <2>3, <2>4 DEF HubInv, ToolHasServer
  <2> QED
    BY <2>1, <2>2, <2>3, <2>4, <2>5 DEF HubInv
<1>11. CASE StdioEnds
  <2>1. messages[Stdin].at = "none" /\ MessageAt(Stdin, "ended") /\ UNCHANGED <<servers, lines, answers>>
    BY <1>11 DEF StdioEnds
  <2>2. "ended" \in MessageStates
    BY DEF MessageStates
  <2> QED
    BY <1>0, <2>1, <2>2, MessageGoesOn
<1> QED
  BY <1>2, <1>3, <1>4, <1>5, <1>6, <1>7, <1>8, <1>9, <1>10, <1>11 DEF HubNext

\* dispatch (hub.go) and ServeStdio (stdio.go): a tool that runs keeps its server,
\* and the answers on stdout are those of the lines, in their order.
THEOREM HubKeepsOrder == HubSpec => [](ToolHasServer /\ StdioInOrder)
<1>1. HubInit => HubInv
  <2> SUFFICES ASSUME HubInit PROVE HubInv
    OBVIOUS
  <2>1. Waiting \in [at : MessageStates, server : ToolServers \cup {"none"}] /\ Waiting.at = "none"
    BY DEF Waiting, MessageStates
  <2>2. messages \in [HubCalls -> [at : MessageStates, server : ToolServers \cup {"none"}]]
    BY <2>1 DEF HubInit
  <2>3. \A m \in HubCalls : messages[m].at = "none"
    BY <2>1 DEF HubInit
  <2>4. Answered(<<>>, <<>>, "none")
    BY DEF Answered, Asking, ToSet
  <2>5. lines = <<>> /\ answers = <<>> /\ Stdin \in HubCalls
    BY DEF HubInit, HubCalls
  <2> QED
    BY <2>2, <2>3, <2>4, <2>5 DEF HubInv, ToolHasServer
<1>2. HubSpec => []HubInv
  BY <1>1, HubStep, PTL DEF HubSpec
<1>3. HubInv => ToolHasServer /\ StdioInOrder
  BY DEF HubInv, StdioInOrder, Answered, Asking
<1> QED
  BY <1>2, <1>3, PTL
=============================================================================
