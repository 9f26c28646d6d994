---------------------------- MODULE TemplatePool ----------------------------
(***************************************************************************)
(* The pool of pre-warmed sandboxes of one template                        *)
(* (pkg/sandbox/runtime/template_pool.go).  Registering the template again *)
(* puts an empty pool in the place of the old one, to which goroutines may *)
(* still refer: pools are numbered, and the last is the registered one.    *)
(* Every method takes the pool's lock once and is one action; creating a   *)
(* sandbox takes three.  A handle's number is used again when nothing      *)
(* refers to it.                                                           *)
(*                                                                         *)
(* No code but the tests calls Acquire and Release: a client is taken to   *)
(* hold one sandbox at a time and to release it once.                      *)
(***************************************************************************)
EXTENDS Integers, Sequences, FiniteSets, SequencesExt

CONSTANTS
    PoolKeys,       \* the sandboxKeys that clients use
    TargetSize, MinSize, MaxSize, ScaleUpThreshold,  \* the TemplatePoolConfig
    TemplateHandles,\* numbers of the handles that the provider makes
    MaxPools,       \* bound on registrations
    MaxCreators,    \* bound on createPooledSandbox goroutines at a time
    NoHandle

ASSUME TemplateAssumption ==
    /\ {MinSize, MaxSize, TargetSize, ScaleUpThreshold, MaxPools, MaxCreators} \subseteq Nat
    /\ NoHandle \notin TemplateHandles
    /\ IsFiniteSet(PoolKeys)

VARIABLES
    pools,     \* available, inUse and creating of every pool that was registered
    live,      \* the handles that are not cleaned up
    fresh,     \* of those, the ones younger than TTL
    holds,     \* the handle a client got from Acquire
    creators,  \* createPooledSandbox goroutines: pool and handle; pool 0: not looked up
    warmed,    \* warmUpAll has run
    maintains, \* where the maintenance goroutine is
    closed     \* Stop: "no", stopCh "closed", or "drained"

templateVars == <<pools, live, fresh, holds, creators, warmed, maintains, closed>>

NewPool == [available |-> <<>>, inUse |-> [k \in PoolKeys |-> NoHandle], creating |-> 0]
NewCreator == [pool |-> 0, handle |-> NoHandle]

TemplateInit ==
    /\ pools = <<NewPool>>
    /\ live = {} /\ fresh = {}
    /\ holds = [k \in PoolKeys |-> NoHandle]
    /\ creators = <<>>
    /\ warmed = FALSE
    /\ maintains = "off"
    /\ closed = "no"

Now == Len(pools)
Used(p) == {k \in PoolKeys : pools[p].inUse[k] # NoHandle}
Size(p) == Len(pools[p].available) + Cardinality(Used(p))

CleanUp(hs) == live' = live \ hs /\ fresh' = fresh \ hs

-----------------------------------------------------------------------------
RegisterTemplatePool ==
    /\ Now < MaxPools
    /\ pools' = Append(pools, NewPool)
    /\ UNCHANGED <<live, fresh, holds, creators, warmed, maintains, closed>>

\* The oldest entry.  Nothing changes when there is none.
Acquire(k) ==
    /\ holds[k] = NoHandle /\ pools[Now].available # <<>>
    /\ LET h == Head(pools[Now].available) IN
       /\ pools' = [pools EXCEPT ![Now].available = Tail(@), ![Now].inUse[k] = h]
       /\ holds' = [holds EXCEPT ![k] = h]
    /\ UNCHANGED <<live, fresh, creators, warmed, maintains, closed>>

\* A client that holds a handle of a pool that was replaced or drained has no
\* entry, and nothing happens.
Release(k, recycle) ==
    LET h == pools[Now].inUse[k]
        keep == recycle /\ Len(pools[Now].available) < MaxSize IN
    /\ holds[k] # NoHandle
    /\ holds' = [holds EXCEPT ![k] = NoHandle]
    /\ IF h # NoHandle /\ keep
       THEN /\ pools' = [pools EXCEPT ![Now].inUse[k] = NoHandle, ![Now].available = Append(@, h)]
            /\ UNCHANGED <<live, fresh>>
       ELSE /\ pools' = [pools EXCEPT ![Now].inUse[k] = NoHandle]
            /\ CleanUp({h})
    /\ UNCHANGED <<creators, warmed, maintains, closed>>

-----------------------------------------------------------------------------
(* createPooledSandbox *)

\* go m.createPooledSandbox, n times.
Creators(n) ==
    /\ Len(creators) + n <= MaxCreators
    /\ creators' = creators \o [i \in 1..n |-> NewCreator]

CreateBegins(i) ==
    /\ creators[i].pool = 0
    /\ creators' = [creators EXCEPT ![i].pool = Now]
    /\ pools' = [pools EXCEPT ![Now].creating = @ + 1]
    /\ UNCHANGED <<live, fresh, holds, warmed, maintains, closed>>

Referred ==
    live \cup {holds[k] : k \in PoolKeys}

ProviderCreates(i) ==
    /\ creators[i].pool # 0 /\ creators[i].handle = NoHandle
    /\ TemplateHandles \ Referred # {}
    /\ LET h == CHOOSE g \in TemplateHandles \ Referred : TRUE IN
       /\ creators' = [creators EXCEPT ![i].handle = h]
       /\ live' = live \cup {h} /\ fresh' = fresh \cup {h}
    /\ UNCHANGED <<pools, holds, warmed, maintains, closed>>

\* The provider is missing or fails.
ProviderFails(i) ==
    /\ creators[i].pool # 0 /\ creators[i].handle = NoHandle
    /\ creators' = RemoveAt(creators, i)
    /\ pools' = [pools EXCEPT ![creators[i].pool].creating = @ - 1]
    /\ UNCHANGED <<live, fresh, holds, warmed, maintains, closed>>

\* Mutant: a sandbox that is too much is dropped without a Cleanup.
CreateEndsCareless(i) ==
    LET h == creators[i].handle  p == creators[i].pool
        room == Len(pools[p].available) < MaxSize IN
    /\ h # NoHandle
    /\ creators' = RemoveAt(creators, i)
    /\ pools' = [pools EXCEPT ![p].creating = @ - 1,
                              ![p].available = IF room THEN Append(@, h) ELSE @]
    /\ UNCHANGED <<live, fresh, holds, warmed, maintains, closed>>

\* The entry goes to the pool that was looked up, registered or not.
CreateEnds(i) ==
    LET h == creators[i].handle  p == creators[i].pool
        room == Len(pools[p].available) < MaxSize IN
    /\ h # NoHandle
    /\ creators' = RemoveAt(creators, i)
    /\ pools' = [pools EXCEPT ![p].creating = @ - 1,
                              ![p].available = IF room THEN Append(@, h) ELSE @]
    /\ IF room THEN UNCHANGED <<live, fresh>> ELSE CleanUp({h})
    /\ UNCHANGED <<holds, warmed, maintains, closed>>

-----------------------------------------------------------------------------
(* The goroutines of Start, and Stop *)

Missing(size, total) == IF total < size THEN size - total ELSE 0

StartPools ==
    /\ maintains = "off" /\ maintains' = "idle"
    /\ UNCHANGED <<pools, live, fresh, holds, creators, warmed, closed>>

\* The goroutines that createPooledSandbox has not counted yet are not seen.
warmUpAll ==
    /\ maintains # "off" /\ ~ warmed /\ warmed' = TRUE
    /\ Creators(Missing(TargetSize, Size(Now) + pools[Now].creating))
    /\ UNCHANGED <<pools, live, fresh, holds, maintains, closed>>

replenishAll ==
    /\ maintains = "idle" /\ closed = "no" /\ maintains' = "evict"
    /\ Creators(Missing(MinSize, Size(Now) + pools[Now].creating))
    /\ UNCHANGED <<pools, live, fresh, holds, warmed, closed>>

\* The handles of a list that are not expired, in their order.
Unexpired(list) ==
    LET kept[i \in 0..Len(list)] ==
            IF i = 0 THEN <<>>
            ELSE IF list[i] \in fresh THEN Append(kept[i - 1], list[i]) ELSE kept[i - 1]
    IN kept[Len(list)]

\* Only CreatedAt counts: a sandbox that was recycled expires all the same.
evictExpired ==
    /\ maintains = "evict" /\ maintains' = "scale"
    /\ pools' = [pools EXCEPT ![Now].available = Unexpired(@)]
    /\ CleanUp(ToSet(pools[Now].available) \ fresh)
    /\ UNCHANGED <<holds, creators, warmed, closed>>

\* scalePools, and updateStats, on which nothing depends.
scalePools ==
    /\ maintains = "scale" /\ maintains' = "idle"
    /\ LET total == Size(Now) IN
       Creators(IF /\ total > 0 /\ total < MaxSize
                   /\ (Cardinality(Used(Now)) * 100) \div total > ScaleUpThreshold
                THEN 1 ELSE 0)
    /\ UNCHANGED <<pools, live, fresh, holds, warmed, closed>>

Ages(h) ==
    /\ h \in fresh
    /\ fresh' = fresh \ {h}
    /\ UNCHANGED <<pools, live, holds, creators, warmed, maintains, closed>>

StopPools ==
    /\ closed = "no" /\ closed' = "closed"
    /\ UNCHANGED <<pools, live, fresh, holds, creators, warmed, maintains>>

\* Sandboxes in use are cleaned up too.  What is created later stays.
drainAll ==
    /\ closed = "closed" /\ closed' = "drained"
    /\ CleanUp(ToSet(pools[Now].available) \cup {pools[Now].inUse[k] : k \in PoolKeys})
    /\ pools' = [pools EXCEPT ![Now] = [NewPool EXCEPT !.creating = pools[Now].creating]]
    /\ UNCHANGED <<holds, creators, warmed, maintains>>

-----------------------------------------------------------------------------
Creating ==
    \E i \in DOMAIN creators :
        CreateBegins(i) \/ ProviderCreates(i) \/ ProviderFails(i) \/ CreateEnds(i)

Maintenance == replenishAll \/ evictExpired \/ scalePools

TemplateNext ==
    \/ RegisterTemplatePool
    \/ \E k \in PoolKeys : Acquire(k) \/ \E recycle \in BOOLEAN : Release(k, recycle)
    \/ Creating
    \/ StartPools \/ warmUpAll \/ Maintenance
    \/ \E h \in TemplateHandles : Ages(h)
    \/ StopPools \/ drainAll

\* The goroutines run, and provider.Create returns.
TemplateFairness ==
    /\ WF_templateVars(Creating) /\ WF_templateVars(Maintenance)

TemplateSpec == TemplateInit /\ [][TemplateNext]_templateVars /\ TemplateFairness

-----------------------------------------------------------------------------
\* Every handle of a pool is there once, in the list or under one key, and is not
\* cleaned up: no two clients share a sandbox and none gets a dead one, whatever
\* the order of recycling, expiry, replacing and draining.
HandlesUsable ==
    \A p, q \in DOMAIN pools :
        /\ \A i \in DOMAIN pools[p].available :
              /\ pools[p].available[i] \in live
              /\ \A j \in DOMAIN pools[q].available :
                    pools[p].available[i] = pools[q].available[j] => p = q /\ i = j
              /\ \A k \in PoolKeys : pools[q].inUse[k] # pools[p].available[i]
        /\ \A k \in Used(p) :
              /\ pools[p].inUse[k] \in live
              /\ \A l \in Used(q) : pools[p].inUse[k] = pools[q].inUse[l] => p = q /\ k = l

\* "MaxSize is the maximum pool size", of the sandboxes that wait; with those in
\* use there may be more.
WithinMaxSize == \A p \in DOMAIN pools : Len(pools[p].available) <= MaxSize

\* A sandbox that is not cleaned up can be found in some pool, or is about to be
\* put into one.
NothingLost ==
    live \subseteq
        {creators[i].handle : i \in DOMAIN creators} \cup
        UNION {ToSet(pools[p].available) \cup {pools[p].inUse[k] : k \in PoolKeys} : p \in DOMAIN pools}

\* After Start a pool below MinSize does not stay so without anybody creating a
\* sandbox for it, even when all of warmUpAll's have failed.
Replenished == []<>(maintains = "off" \/ closed # "no" \/ Size(Now) + Len(creators) >= MinSize)

\* A handle of a template pool has one place, is alive there and is not forgotten,
\* however recycling, expiry, replenishing and draining interleave.
TemplatesSafe == HandlesUsable /\ WithinMaxSize /\ NothingLost
=============================================================================
