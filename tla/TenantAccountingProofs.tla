----------------------- MODULE TenantAccountingProofs -----------------------
(***************************************************************************)
(* Proofs about the tenant accounts.  The two accounts of a tenant, its    *)
(* ResourceUsage and the Used of its quota, are changed by the same        *)
(* amounts and clamped at zero alike, so the second stays below the first  *)
(* step by step; this needs no discipline of the callers, and the lemmas   *)
(* are stated on one account so that a composed step can use them twice.   *)
(***************************************************************************)
EXTENDS TenantAccounting, TLAPS

\* The quota q counts at most what the tenant info uses.
Covered(q, info) ==
    q # NoTenant => \A d \in UsageDims :
        q.used[d] <= IF info # NoTenant THEN info.usage[d] ELSE 0

LEMMA AmountType ==
    ASSUME NEW r \in Requests, NEW d
    PROVE  Amount(r, d) \in Nat
BY RequestsAssumption DEF Amount

LEMMA PlusType ==
    ASSUME NEW D, NEW a \in [D -> Nat], NEW r, \A d \in D : Amount(r, d) \in Nat
    PROVE  /\ Plus(a, r) \in [D -> Nat]
           /\ \A d \in D : Plus(a, r)[d] = a[d] + Amount(r, d)
BY DEF Plus

LEMMA MinusType ==
    ASSUME NEW D, NEW a \in [D -> Nat], NEW r, \A d \in D : Amount(r, d) \in Nat
    PROVE  /\ Minus(a, r) \in [D -> Nat]
           /\ \A d \in D : Minus(a, r)[d] =
                 IF a[d] > Amount(r, d) THEN a[d] - Amount(r, d) ELSE 0
BY DEF Minus

\* Allocating keeps both accounts typed and the quota below the usage.
LEMMA AllocateKeeps ==
    ASSUME NEW info \in Infos, NEW q \in Quotas \cup {NoTenant}, Covered(q, info),
           NEW r \in Requests, NEW n \in Nodes
    PROVE  /\ Allocated(info, n, r) \in Infos
           /\ Charge(q, r) \in Quotas \cup {NoTenant}
           /\ Covered(Charge(q, r), Allocated(info, n, r))
<1> DEFINE usage == Plus(info.usage, r)
<1>1. /\ usage \in [UsageDims -> Nat]
      /\ \A d \in UsageDims : usage[d] = info.usage[d] + Amount(r, d)
  BY AmountType, PlusType DEF Infos
<1> HIDE DEF usage
<1>2. Allocated(info, n, r) =
         [spec |-> info.spec, phase |-> info.phase, usage |-> usage,
          total |-> info.total + 1, daily |-> info.daily + 1,
          dailyReset |-> info.dailyReset, onNode |-> [info.onNode EXCEPT ![n] = @ + 1]]
  BY DEF Allocated, usage
<1>3. Allocated(info, n, r) \in Infos /\ Allocated(info, n, r).usage = usage
  BY <1>1, <1>2 DEF Infos
<1>4. Allocated(info, n, r) # NoTenant
  BY <1>3, SentinelAssumption
<1>5. CASE q = NoTenant
  BY <1>5, <1>3 DEF Charge, Covered
<1>6. CASE q \in Quotas /\ q # NoTenant
  <2> DEFINE used == Plus(q.used, r)
  <2>1. /\ used \in Quantities
        /\ \A d \in QuotaDims : used[d] = q.used[d] + Amount(r, d)
    BY <1>6, AmountType, PlusType DEF Quotas, Quantities
  <2> HIDE DEF used
  <2>2. Charge(q, r) = [q EXCEPT !.used = used]
    BY <1>6 DEF Charge, used
  <2>3. Charge(q, r) \in Quotas /\ Charge(q, r).used = used
    BY <1>6, <2>1, <2>2 DEF Quotas
  <2>4. ASSUME NEW d \in UsageDims PROVE used[d] <= usage[d]
    <3>1. q.used[d] <= info.usage[d]
      BY <1>6, SentinelAssumption DEF Covered
    <3>2. /\ q.used[d] \in Nat /\ info.usage[d] \in Nat
          /\ used[d] = q.used[d] + Amount(r, d)
      BY <1>6, <2>1 DEF Quotas, Quantities, QuotaDims, Infos
    <3> QED BY <3>1, <3>2, <1>1, AmountType
  <2> QED BY <2>3, <2>4, <1>3, <1>4 DEF Covered
<1> QED BY <1>5, <1>6

\* Releasing does too, however often it is called.
LEMMA ReleaseKeeps ==
    ASSUME NEW info \in Infos, NEW q \in Quotas \cup {NoTenant}, Covered(q, info),
           NEW r \in Requests, NEW n \in Nodes
    PROVE  /\ Released(info, n, r) \in Infos
           /\ Refund(q, r) \in Quotas \cup {NoTenant}
           /\ Covered(Refund(q, r), Released(info, n, r))
<1> DEFINE usage == Minus(info.usage, r)
<1>1. /\ usage \in [UsageDims -> Nat]
      /\ \A d \in UsageDims : usage[d] =
            IF info.usage[d] > Amount(r, d) THEN info.usage[d] - Amount(r, d) ELSE 0
  BY AmountType, MinusType DEF Infos
<1> HIDE DEF usage
<1>2. Released(info, n, r) =
         [spec |-> info.spec, phase |-> info.phase, usage |-> usage,
          total |-> info.total, daily |-> info.daily, dailyReset |-> info.dailyReset,
          onNode |-> [info.onNode EXCEPT ![n] = IF @ > 0 THEN @ - 1 ELSE 0]]
  BY DEF Released, usage
<1>3. Released(info, n, r) \in Infos /\ Released(info, n, r).usage = usage
  BY <1>1, <1>2 DEF Infos
<1>4. Released(info, n, r) # NoTenant
  BY <1>3, SentinelAssumption
<1>5. CASE q = NoTenant
  BY <1>5, <1>3 DEF Refund, Covered
<1>6. CASE q \in Quotas /\ q # NoTenant
  <2> DEFINE used == Minus(q.used, r)
  <2>1. /\ used \in Quantities
        /\ \A d \in QuotaDims : used[d] =
              IF q.used[d] > Amount(r, d) THEN q.used[d] - Amount(r, d) ELSE 0
    BY <1>6, AmountType, MinusType DEF Quotas, Quantities
  <2> HIDE DEF used
  <2>2. Refund(q, r) = [q EXCEPT !.used = used]
    BY <1>6 DEF Refund, used
  <2>3. Refund(q, r) \in Quotas /\ Refund(q, r).used = used
    BY <1>6, <2>1, <2>2 DEF Quotas
  <2>4. ASSUME NEW d \in UsageDims PROVE used[d] <= usage[d]
    <3>1. q.used[d] <= info.usage[d]
      BY <1>6, SentinelAssumption DEF Covered
    <3>2. /\ q.used[d] \in Nat /\ info.usage[d] \in Nat
          /\ used[d] = IF q.used[d] > Amount(r, d) THEN q.used[d] - Amount(r, d) ELSE 0
      BY <1>6, <2>1 DEF Quotas, Quantities, QuotaDims, Infos
    <3> QED BY <3>1, <3>2, <1>1, AmountType
  <2> QED BY <2>3, <2>4, <1>3, <1>4 DEF Covered
<1> QED BY <1>5, <1>6

-----------------------------------------------------------------------------
(* The token bucket *)

LEMMA Products ==
    ASSUME NEW x \in Nat, NEW y \in Nat
    PROVE  x * y \in Nat
OBVIOUS

LEMMA RefillType ==
    ASSUME NEW b \in Buckets, now \in Nat, b.lastRefill <= now
    PROVE  /\ refill(b) \in Buckets
           /\ refill(b).tokens <= b.burst * Minute
           /\ refill(b).tokens <= b.tokens + (now - b.lastRefill) * b.limit
           /\ refill(b).burst = b.burst
           /\ refill(b).limit = b.limit
           /\ refill(b).lastRefill = now
<1> DEFINE gain == (now - b.lastRefill) * b.limit
           top == b.burst * Minute
<1>1. /\ b.tokens \in Nat /\ b.burst \in Nat /\ b.limit \in Nat /\ b.lastRefill \in Nat
      /\ now - b.lastRefill \in Nat
  BY DEF Buckets
<1>2. gain \in Nat /\ top \in Nat
  BY <1>1, Products, TimeAssumption
<1>3. refill(b) = [tokens |-> IF b.tokens + gain > top THEN top ELSE b.tokens + gain,
                   burst |-> b.burst, limit |-> b.limit, lastRefill |-> now]
  BY DEF refill
<1> HIDE DEF gain, top
<1>4. /\ refill(b) \in Buckets
      /\ refill(b).tokens <= top
      /\ refill(b).tokens <= b.tokens + gain
      /\ refill(b).burst = b.burst /\ refill(b).limit = b.limit
      /\ refill(b).lastRefill = now
  BY <1>1, <1>2, <1>3 DEF Buckets
<1> QED BY <1>4 DEF gain, top

LEMMA ConsumeType ==
    ASSUME NEW b \in Buckets, b # NoTenant, now \in Nat, b.lastRefill <= now
    PROVE  /\ Consumed(b) \in Buckets
           /\ Consumed(b).burst = b.burst /\ Consumed(b).limit = b.limit
           /\ Consumed(b).lastRefill = now
           /\ Consumed(b).tokens = IF refill(b).tokens >= Minute
                                   THEN refill(b).tokens - Minute ELSE refill(b).tokens
           /\ Consumed(b).tokens <= refill(b).tokens
<1> DEFINE c == refill(b)
<1>1. /\ c \in Buckets /\ c.burst = b.burst /\ c.limit = b.limit /\ c.lastRefill = now
  BY RefillType
<1>2. Consumed(b) = IF c.tokens >= Minute THEN [c EXCEPT !.tokens = @ - Minute] ELSE c
  BY DEF Consumed
<1> HIDE DEF c
<1>3. /\ Consumed(b) \in Buckets
      /\ Consumed(b).burst = b.burst /\ Consumed(b).limit = b.limit
      /\ Consumed(b).lastRefill = now
      /\ Consumed(b).tokens = IF c.tokens >= Minute THEN c.tokens - Minute ELSE c.tokens
      /\ Consumed(b).tokens <= c.tokens
  BY <1>1, <1>2, TimeAssumption DEF Buckets
<1> QED BY <1>3 DEF c

-----------------------------------------------------------------------------
(* The invariant of the accounts, and that every call keeps it *)

Accounts(t, info, q, b) ==
    /\ info \in Infos \cup {NoTenant}
    /\ q \in Quotas \cup {NoTenant}
    /\ Covered(q, info)
    /\ b \in Buckets \cup {NoTenant}
    /\ b # NoTenant => b.tokens <= b.burst * Minute /\ b.lastRefill <= now

AInv == AccountsOK /\ QuotaNeverOvercounts

\* A step that changes the accounts of t only is right when the new ones are.
LEMMA OneTenant ==
    ASSUME AInv, NEW t \in Tenants, NEW info, NEW q, NEW b,
           Accounts(t, info, q, b),
           tenants' = [tenants EXCEPT ![t] = info],
           quotas' = [quotas EXCEPT ![t] = q],
           buckets' = [buckets EXCEPT ![t] = b],
           UNCHANGED <<now, nextReset>>
    PROVE  AInv'
<1>1. AccountsOK'
  BY DEF AInv, AccountsOK, Accounts
<1>2. QuotaNeverOvercounts'
  BY DEF AInv, AccountsOK, QuotaNeverOvercounts, Accounts, Covered, Exists
<1> QED BY <1>1, <1>2 DEF AInv

LEMMA AccountsNow ==
    ASSUME AInv, NEW t \in Tenants
    PROVE  Accounts(t, tenants[t], quotas[t], buckets[t])
BY DEF AInv, AccountsOK, QuotaNeverOvercounts, Accounts, Covered, Exists

LEMMA Unchanged ==
    ASSUME AInv, UNCHANGED tvars
    PROVE  AInv'
BY DEF AInv, AccountsOK, QuotaNeverOvercounts, Exists, tvars

LEMMA InitAccounts ==
    ASSUME TenantInit
    PROVE  AInv
BY DEF TenantInit, AInv, AccountsOK, QuotaNeverOvercounts

LEMMA NewQuotaType ==
    ASSUME NEW hard \in Quantities, NEW info
    PROVE  NewQuota(hard) \in Quotas /\ (info \in Infos \cup {NoTenant} => Covered(NewQuota(hard), info))
<1>1. NewQuota(hard) \in Quotas
  BY DEF NewQuota, Quotas, Quantities, Zero
<1>2. \A d \in UsageDims : NewQuota(hard).used[d] = 0
  BY DEF NewQuota, Zero, QuotaDims
<1>3. ASSUME info \in Infos \cup {NoTenant}, NEW d \in UsageDims
      PROVE  0 <= IF info # NoTenant THEN info.usage[d] ELSE 0
  BY <1>3 DEF Infos
<1> QED BY <1>1, <1>2, <1>3 DEF Covered

LEMMA NewBucketType ==
    ASSUME NEW rate \in [limit : Nat, burst : Nat], now \in Nat
    PROVE  /\ NewBucket(rate) \in Buckets
           /\ NewBucket(rate).tokens = NewBucket(rate).burst * Minute
           /\ NewBucket(rate).lastRefill = now
<1>1. rate.burst \in Nat /\ rate.limit \in Nat /\ rate.burst * Minute \in Nat
  BY Products, TimeAssumption
<1> DEFINE top == rate.burst * Minute
<1>2. NewBucket(rate) = [tokens |-> top, burst |-> rate.burst, limit |-> rate.limit,
                         lastRefill |-> now]
  BY DEF NewBucket
<1>3. top \in Nat
  BY <1>1
<1> HIDE DEF top
<1>4. /\ NewBucket(rate) \in Buckets /\ NewBucket(rate).tokens = top
      /\ NewBucket(rate).burst = rate.burst /\ NewBucket(rate).lastRefill = now
  BY <1>1, <1>2, <1>3 DEF Buckets
<1> QED BY <1>4 DEF top

LEMMA RegisterKeeps ==
    ASSUME AInv, NEW t \in Tenants, NEW spec \in Specs, NEW phase \in Phases,
           RegisterTenant(t, spec, phase)
    PROVE  AInv'
<1> DEFINE info == IF tenants[t] = NoTenant THEN NewInfo(spec, phase)
                   ELSE Respecified(tenants[t], spec, phase)
           q == IF spec.hard = Unparsable THEN quotas[t] ELSE NewQuota(spec.hard)
           b == IF spec.hard = Unparsable \/ spec.rateLimit = NoTenant THEN buckets[t]
                ELSE NewBucket(spec.rateLimit)
<1>0. /\ Accounts(t, tenants[t], quotas[t], buckets[t])
      /\ now \in Nat
      /\ spec.hard \in Quantities \cup {Unparsable}
      /\ spec.rateLimit \in [limit : Nat, burst : Nat] \cup {NoTenant}
  BY AccountsNow, SpecsAssumption DEF AInv, AccountsOK
<1>1. /\ info \in Infos
      /\ tenants[t] # NoTenant => info.usage = tenants[t].usage
      /\ tenants[t] = NoTenant => info.usage = [d \in UsageDims |-> 0]
  <2>1. CASE tenants[t] = NoTenant
    <3>1. info = NewInfo(spec, phase)
      BY <2>1
    <3> HIDE DEF info
    <3>2. NewInfo(spec, phase) \in Infos
          /\ NewInfo(spec, phase).usage = [d \in UsageDims |-> 0]
      BY <1>0 DEF NewInfo, Infos, Zero
    <3> QED BY <3>1, <3>2, <2>1
  <2>2. CASE tenants[t] # NoTenant
    <3>1. info = Respecified(tenants[t], spec, phase)
      BY <2>2
    <3> HIDE DEF info
    <3>2. tenants[t] \in Infos
      BY <1>0, <2>2 DEF Accounts
    <3>3. Respecified(tenants[t], spec, phase) \in Infos
          /\ Respecified(tenants[t], spec, phase).usage = tenants[t].usage
      BY <3>2 DEF Respecified, Infos
    <3> QED BY <3>1, <3>3, <2>2
  <2> QED BY <2>1, <2>2
<1>2. q \in Quotas \cup {NoTenant} /\ Covered(q, info)
  <2> HIDE DEF info
  <2>1. CASE spec.hard = Unparsable
    <3>1. q = quotas[t]
      BY <2>1
    <3>2. info # NoTenant
      BY <1>1, SentinelAssumption
    <3>3. CASE tenants[t] = NoTenant
      BY <3>1, <3>2, <3>3, <1>0, <1>1 DEF Accounts, Covered
    <3>4. CASE tenants[t] # NoTenant
      BY <3>1, <3>2, <3>4, <1>0, <1>1 DEF Accounts, Covered
    <3> QED BY <3>3, <3>4
  <2>2. CASE spec.hard # Unparsable
    BY <2>2, <1>0, <1>1, NewQuotaType
  <2> QED BY <2>1, <2>2
<1>3. b \in Buckets \cup {NoTenant}
      /\ (b # NoTenant => b.tokens <= b.burst * Minute /\ b.lastRefill <= now)
  <2>1. CASE spec.hard = Unparsable \/ spec.rateLimit = NoTenant
    BY <2>1, <1>0 DEF Accounts
  <2>2. CASE ~ (spec.hard = Unparsable \/ spec.rateLimit = NoTenant)
    <3>1. b = NewBucket(spec.rateLimit)
      BY <2>2
    <3> HIDE DEF b
    <3>2. /\ NewBucket(spec.rateLimit) \in Buckets
          /\ NewBucket(spec.rateLimit).tokens = NewBucket(spec.rateLimit).burst * Minute
          /\ NewBucket(spec.rateLimit).lastRefill = now
      BY <2>2, <1>0, NewBucketType
    <3>3. b \in Buckets /\ b.tokens = b.burst * Minute /\ b.lastRefill = now
      BY <3>1, <3>2
    <3>4. b.tokens \in Nat
      BY <3>3 DEF Buckets
    <3> QED BY <3>3, <3>4, <1>0
  <2> QED BY <2>1, <2>2
<1>4. /\ tenants' = [tenants EXCEPT ![t] = info]
      /\ quotas' = [quotas EXCEPT ![t] = q]
      /\ buckets' = [buckets EXCEPT ![t] = b]
      /\ UNCHANGED <<now, nextReset>>
  BY DEF RegisterTenant, AInv, AccountsOK
<1>5. Accounts(t, info, q, b)
  BY <1>1, <1>2, <1>3 DEF Accounts
<1> HIDE DEF info, q, b
<1> QED BY <1>4, <1>5, OneTenant

LEMMA UnregisterKeeps ==
    ASSUME AInv, NEW t \in Tenants, UnregisterTenant(t)
    PROVE  AInv'
<1>1. Accounts(t, NoTenant, NoTenant, NoTenant)
  BY DEF Accounts, Covered
<1> QED BY <1>1, OneTenant DEF UnregisterTenant

LEMMA AllocateResourcesKeeps ==
    ASSUME AInv, NEW t \in Tenants, NEW n \in Nodes, NEW r \in Requests,
           AllocateResources(t, n, r)
    PROVE  AInv'
<1>1. Accounts(t, tenants[t], quotas[t], buckets[t]) /\ tenants[t] \in Infos
  BY AccountsNow DEF AllocateResources, Exists, Accounts
<1>2. Accounts(t, Allocated(tenants[t], n, r), Charge(quotas[t], r), buckets[t])
  BY <1>1, AllocateKeeps DEF Accounts
<1>3. buckets' = [buckets EXCEPT ![t] = buckets[t]]
  BY DEF AllocateResources, AInv, AccountsOK
<1> QED BY <1>2, <1>3, OneTenant DEF AllocateResources

LEMMA ReleaseResourcesKeeps ==
    ASSUME AInv, NEW t \in Tenants, NEW n \in Nodes, NEW r \in Requests,
           ReleaseResources(t, n, r)
    PROVE  AInv'
<1>1. Accounts(t, tenants[t], quotas[t], buckets[t]) /\ tenants[t] \in Infos
  BY AccountsNow DEF ReleaseResources, Exists, Accounts
<1>2. Accounts(t, Released(tenants[t], n, r), Refund(quotas[t], r), buckets[t])
  BY <1>1, ReleaseKeeps DEF Accounts
<1>3. buckets' = [buckets EXCEPT ![t] = buckets[t]]
  BY DEF ReleaseResources, AInv, AccountsOK
<1> QED BY <1>2, <1>3, OneTenant DEF ReleaseResources

LEMMA CanCreateKeeps ==
    ASSUME AInv, NEW t \in Tenants, NEW r \in Requests, NEW admitted \in BOOLEAN,
           CanCreateSandbox(t, r, admitted)
    PROVE  AInv'
<1>1. Accounts(t, tenants[t], quotas[t], buckets[t]) /\ now \in Nat
  BY AccountsNow DEF AInv, AccountsOK
<1> DEFINE b == Consumed(buckets[t])
<1>2. b \in Buckets \cup {NoTenant}
      /\ (b # NoTenant => b.tokens <= b.burst * Minute /\ b.lastRefill <= now)
  <2>1. CASE buckets[t] = NoTenant
    BY <2>1 DEF Consumed
  <2>2. CASE buckets[t] # NoTenant
    <3>1. buckets[t] \in Buckets /\ buckets[t].lastRefill <= now
      BY <2>2, <1>1 DEF Accounts
    <3>2. /\ b \in Buckets /\ b.burst = buckets[t].burst /\ b.lastRefill = now
          /\ b.tokens <= refill(buckets[t]).tokens
      BY <3>1, <2>2, <1>1, ConsumeType
    <3>3. refill(buckets[t]) \in Buckets
          /\ refill(buckets[t]).tokens <= buckets[t].burst * Minute
      BY <3>1, <1>1, RefillType
    <3> HIDE DEF b
    <3> DEFINE top == buckets[t].burst * Minute
    <3>4. top \in Nat
      BY <3>1, Products, TimeAssumption DEF Buckets
    <3>5. b.burst * Minute = top /\ refill(buckets[t]).tokens <= top
      BY <3>2, <3>3
    <3> HIDE DEF top
    <3>6. b.tokens \in Nat /\ refill(buckets[t]).tokens \in Nat
      BY <3>2, <3>3 DEF Buckets
    <3>7. b.tokens <= top
      BY <3>2, <3>4, <3>5, <3>6
    <3> QED BY <3>2, <3>5, <3>7, <1>1
  <2> QED BY <2>1, <2>2
<1>3. Accounts(t, tenants[t], quotas[t], b)
  BY <1>1, <1>2 DEF Accounts
<1>4. /\ buckets' = [buckets EXCEPT ![t] = b]
      /\ tenants' = [tenants EXCEPT ![t] = tenants[t]]
      /\ quotas' = [quotas EXCEPT ![t] = quotas[t]]
      /\ UNCHANGED <<now, nextReset>>
  BY DEF CanCreateSandbox, consume, AInv, AccountsOK
<1> HIDE DEF b
<1> QED BY <1>3, <1>4, OneTenant

\* A step on the quota of t that leaves its Used alone, or clears it.
LEMMA QuotaStepKeeps ==
    ASSUME AInv, NEW t \in Tenants, NEW q,
           q \in Quotas \cup {NoTenant}, Covered(q, tenants[t]),
           quotas' = [quotas EXCEPT ![t] = q],
           UNCHANGED <<tenants, buckets, now, nextReset>>
    PROVE  AInv'
<1>1. Accounts(t, tenants[t], q, buckets[t])
  BY AccountsNow DEF Accounts
<1>2. /\ tenants' = [tenants EXCEPT ![t] = tenants[t]]
      /\ buckets' = [buckets EXCEPT ![t] = buckets[t]]
  BY DEF AInv, AccountsOK
<1> QED BY <1>1, <1>2, OneTenant

LEMMA RegisterQuotaKeeps ==
    ASSUME AInv, NEW t \in Tenants, NEW hard \in Quantities, RegisterQuota(t, hard)
    PROVE  AInv'
<1>1. tenants[t] \in Infos \cup {NoTenant}
  BY DEF AInv, AccountsOK
<1>2. NewQuota(hard) \in Quotas /\ Covered(NewQuota(hard), tenants[t])
  BY <1>1, NewQuotaType
<1>3. quotas' = [quotas EXCEPT ![t] = NewQuota(hard)]
  BY SentinelAssumption DEF RegisterQuota
<1> QED BY <1>2, <1>3, QuotaStepKeeps DEF RegisterQuota

LEMMA UnregisterQuotaKeeps ==
    ASSUME AInv, NEW t \in Tenants, UnregisterQuota(t)
    PROVE  AInv'
<1>1. Covered(NoTenant, tenants[t])
  BY DEF Covered
<1> QED BY <1>1, QuotaStepKeeps DEF UnregisterQuota

LEMMA ReservationType ==
    ASSUME NEW r \in Requests, NEW d
    PROVE  Amount(Reservation(r), d) \in Nat
BY RequestsAssumption DEF Amount, Reservation

\* Reservations do not touch what the quota counts as used.
LEMMA ReservedKeeps ==
    ASSUME AInv, NEW t \in Tenants, quotas[t] # NoTenant, NEW x \in Quantities,
           quotas' = [quotas EXCEPT ![t].reserved = x],
           UNCHANGED <<tenants, buckets, now, nextReset>>
    PROVE  AInv'
<1>1. quotas[t] \in Quotas /\ Covered(quotas[t], tenants[t])
  BY AccountsNow DEF Accounts
<1> DEFINE q == [quotas[t] EXCEPT !.reserved = x]
<1>2. q \in Quotas /\ q.used = quotas[t].used
  BY <1>1 DEF Quotas
<1>3. quotas' = [quotas EXCEPT ![t] = q]
  OBVIOUS
<1> HIDE DEF q
<1>4. Covered(q, tenants[t])
  BY <1>1, <1>2 DEF Covered
<1> QED BY <1>2, <1>3, <1>4, QuotaStepKeeps

LEMMA ReserveKeeps ==
    ASSUME AInv, NEW t \in Tenants, NEW r \in Requests,
           Reserve(t, r) \/ ReserveFails(t, r) \/ Unreserve(t, r)
    PROVE  AInv'
<1>1. quotas[t] # NoTenant /\ UNCHANGED <<tenants, buckets, now, nextReset>>
  BY DEF Reserve, ReserveFails, Unreserve
<1>2. quotas[t] \in Quotas /\ quotas[t].reserved \in Quantities
  BY <1>1 DEF AInv, AccountsOK, Quotas
<1>3. CASE Reserve(t, r)
  <2>1. Plus(quotas[t].reserved, Reservation(r)) \in Quantities
    BY <1>2, ReservationType, PlusType DEF Quantities
  <2>2. quotas' = [quotas EXCEPT ![t].reserved = Plus(quotas[t].reserved, Reservation(r))]
    BY <1>3 DEF Reserve
  <2> QED BY <1>1, <2>1, <2>2, ReservedKeeps
<1>4. CASE ReserveFails(t, r)
  <2> DEFINE x == [quotas[t].reserved EXCEPT !["cpu"] = @ + Amount(r, "cpu")]
  <2>1. x \in Quantities
    BY <1>2, AmountType DEF Quantities, QuotaDims, UsageDims
  <2>2. quotas' = [quotas EXCEPT ![t].reserved = x]
    BY <1>4 DEF ReserveFails
  <2> HIDE DEF x
  <2> QED BY <1>1, <2>1, <2>2, ReservedKeeps
<1>5. CASE Unreserve(t, r)
  <2>1. Minus(quotas[t].reserved, Reservation(r)) \in Quantities
    BY <1>2, ReservationType, MinusType DEF Quantities
  <2>2. quotas' = [quotas EXCEPT ![t].reserved = Minus(quotas[t].reserved, Reservation(r))]
    BY <1>5 DEF Unreserve
  <2> QED BY <1>1, <2>1, <2>2, ReservedKeeps
<1> QED BY <1>3, <1>4, <1>5

LEMMA StatusKeeps ==
    ASSUME AInv, NEW t \in Tenants, NEW phase \in Phases, UpdateTenantStatus(t, phase)
    PROVE  AInv'
<1> DEFINE info == [tenants[t] EXCEPT !.phase = phase]
<1>1. Accounts(t, tenants[t], quotas[t], buckets[t]) /\ tenants[t] \in Infos
  BY AccountsNow DEF UpdateTenantStatus, Exists, Accounts
<1>2. info \in Infos /\ info.usage = tenants[t].usage
  BY <1>1 DEF Infos
<1>3. tenants' = [tenants EXCEPT ![t] = info]
  BY DEF UpdateTenantStatus
<1> HIDE DEF info
<1>4. info # NoTenant /\ tenants[t] # NoTenant
  BY <1>1, <1>2, SentinelAssumption
<1>5. Accounts(t, info, quotas[t], buckets[t])
  BY <1>1, <1>2, <1>4 DEF Accounts, Covered
<1>6. /\ quotas' = [quotas EXCEPT ![t] = quotas[t]]
      /\ buckets' = [buckets EXCEPT ![t] = buckets[t]]
      /\ UNCHANGED <<now, nextReset>>
  BY DEF UpdateTenantStatus, AInv, AccountsOK
<1> QED BY <1>3, <1>5, <1>6, OneTenant

LEMMA ClockKeeps ==
    ASSUME AInv, resetDailyCounters \/ Tick
    PROVE  AInv'
<1>1. CASE resetDailyCounters
  <2>1. \A info \in Infos : DailyReset(info) \in Infos /\ DailyReset(info).usage = info.usage
    BY <1>1 DEF AInv, AccountsOK, DailyReset, Infos
  <2>2. ASSUME NEW t \in Tenants
        PROVE  /\ tenants'[t] \in Infos \cup {NoTenant}
               /\ tenants'[t] = NoTenant <=> tenants[t] = NoTenant
               /\ tenants[t] # NoTenant => tenants'[t].usage = tenants[t].usage
    <3>1. tenants'[t] = tenants[t] \/ (Exists(t) /\ tenants'[t] = DailyReset(tenants[t]))
      BY <1>1 DEF resetDailyCounters
    <3>2. tenants[t] \in Infos \cup {NoTenant}
      BY DEF AInv, AccountsOK
    <3> QED BY <2>1, <3>1, <3>2, SentinelAssumption DEF Exists
  <2>3. DOMAIN tenants' = Tenants /\ tenants' = [t \in Tenants |-> tenants'[t]]
    BY <1>1 DEF resetDailyCounters
  <2>4. tenants' \in [Tenants -> Infos \cup {NoTenant}]
    BY <2>2, <2>3
  <2>5. AccountsOK'
    BY <1>1, <2>4, TimeAssumption DEF resetDailyCounters, AInv, AccountsOK
  <2>6. QuotaNeverOvercounts'
    BY <1>1, <2>2 DEF resetDailyCounters, AInv, QuotaNeverOvercounts, Exists
  <2> QED BY <2>5, <2>6 DEF AInv
<1>2. CASE Tick
  <2>1. \A t \in Tenants : buckets[t] # NoTenant => buckets[t].lastRefill <= now + 1
    BY DEF AInv, AccountsOK, Buckets
  <2>2. AccountsOK'
    BY <1>2, <2>1 DEF Tick, AInv, AccountsOK
  <2>3. QuotaNeverOvercounts'
    BY <1>2 DEF Tick, AInv, QuotaNeverOvercounts, Exists
  <2> QED BY <2>2, <2>3 DEF AInv
<1> QED BY <1>1, <1>2
=============================================================================
