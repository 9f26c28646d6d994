---------------------------- MODULE RuntimePool ----------------------------
(***************************************************************************)
(* The runtime manager (pkg/sandbox/runtime/manager.go) and the pool of    *)
(* pre-warmed handles of one runtime type (pool.go).  The manager's        *)
(* methods exclude each other through rm.mu; the pool has its own lock and *)
(* does not look at rm.handles, so that what its goroutines do while       *)
(* CreateRuntime is under way may as well come after it: each method is    *)
(* one action.  createPooledSandbox and the maintenance round are several. *)
(* Handles are numbered in the order the provider makes them; 0 is none.   *)
(* The provider is external: Create may fail, and so may Start and Resume. *)
(* Dev tools, timeouts and the pool's statistics are left out: nothing     *)
(* here depends on them.                                                   *)
(***************************************************************************)
EXTENDS Integers, Sequences, FiniteSets

CONSTANTS
    Keys,        \* "name/namespace" of the sandboxes
    PoolSize,    \* config.PoolSize of the runtime type
    Sizes,       \* the sizes ResizePool is called with
    MaxHandles,  \* bound on the handles the provider makes
    MaxWorkers   \* bound on createPooledSandbox goroutines

ASSUME KeysAssumption == IsFiniteSet(Keys)
ASSUME PoolSizeAssumption == PoolSize \in Nat
ASSUME SizesAssumption == Sizes \subseteq Nat
ASSUME BoundsAssumption == MaxHandles \in Nat /\ MaxWorkers \in Nat

VARIABLES
    made,       \* handles the provider has made
    ready,      \* the handles with ready = true
    handles,    \* rm.handles
    available,  \* pool.Available
    inUse,      \* pool.InUse
    creating,   \* pool.Creating
    targetSize, \* pool.TargetSize
    spawned,    \* createPooledSandbox goroutines before Creating++,
    running,    \* in provider.Create,
    finishing,  \* and before the deferred Creating--
    reads,      \* how many of the three sizes warmUpPools has read; 4: it has returned
    seen,       \* their sum
    loop,       \* where the maintenance goroutine is
    stop        \* Stop: "no", stopCh "closed", or pools "drained"

workerVars == <<spawned, running, finishing>>
startVars == <<reads, seen>>
poolVars == <<available, inUse, creating, targetSize>>
handleVars == <<made, ready>>
vars == <<handles, workerVars, startVars, poolVars, handleVars, loop, stop>>

Handles == 1..made
Held == {k \in Keys : inUse[k] # 0}
Total == Len(available) + Cardinality(Held) + creating

PoolInit ==
    /\ made = 0 /\ ready = {}
    /\ handles = [k \in Keys |-> 0]
    /\ available = <<>>
    /\ inUse = [k \in Keys |-> 0]
    /\ creating = 0
    /\ targetSize = PoolSize
    /\ spawned = 0 /\ running = 0 /\ finishing = 0
    /\ reads = 0 /\ seen = 0
    /\ loop = "idle"
    /\ stop = "no"

-----------------------------------------------------------------------------
(* RuntimeManager *)

\* A new handle of the provider.
Make ==
    /\ made < MaxHandles
    /\ made' = made + 1

\* The first available handle, whatever the sandbox asks for; an entry that the
\* key had in InUse is overwritten.
GetFromPool(k) ==
    /\ available # <<>>
    /\ available' = Tail(available)
    /\ inUse' = [inUse EXCEPT ![k] = Head(available)]
    /\ UNCHANGED <<creating, targetSize>>

\* From the pool first, else a new one.  A handle that the key had before is
\* overwritten and not cleaned up.
CreateRuntime(k) ==
    /\ \/ /\ GetFromPool(k)
          /\ handles' = [handles EXCEPT ![k] = Head(available)]
          /\ UNCHANGED handleVars
       \/ /\ available = <<>>
          /\ Make
          /\ ready' = ready \cup {made + 1}
          /\ handles' = [handles EXCEPT ![k] = made + 1]
          /\ UNCHANGED poolVars
    /\ UNCHANGED <<workerVars, startVars, loop, stop>>

\* StartRuntime and ResumeRuntime, when the provider does not fail.
StartRuntime(k) ==
    /\ handles[k] # 0
    /\ ready' = ready \cup {handles[k]}
    /\ UNCHANGED <<made, handles, poolVars, workerVars, startVars, loop, stop>>

\* The provider's Stop reports no error.  PauseRuntime changes no state here.
StopRuntime(k) ==
    /\ handles[k] # 0
    /\ ready' = ready \ {handles[k]}
    /\ UNCHANGED <<made, handles, poolVars, workerVars, startVars, loop, stop>>

\* Neither Cleanup nor ReturnToPool is called.
RemoveRuntime(k) ==
    /\ handles[k] # 0
    /\ handles' = [handles EXCEPT ![k] = 0]
    /\ UNCHANGED <<poolVars, workerVars, startVars, handleVars, loop, stop>>

-----------------------------------------------------------------------------
(* PoolManager *)

\* Cleanup of the handles hs.
Cleanup(hs) == ready' = ready \ hs

\* Mutant: a handle that was stopped goes back into the pool.
ReturnToPoolUnready(k) ==
    LET h == inUse[k] IN
    /\ h # 0
    /\ handles[k] # h
    /\ inUse' = [inUse EXCEPT ![k] = 0]
    /\ IF Len(available) < targetSize
       THEN available' = Append(available, h) /\ UNCHANGED ready
       ELSE UNCHANGED available /\ Cleanup({h})
    /\ UNCHANGED <<made, creating, targetSize, handles, workerVars, startVars, loop, stop>>

\* No code calls it.  A caller is taken to have removed the runtime before, so
\* that the handle it gives back is not one the manager still works with.
ReturnToPool(k) ==
    LET h == inUse[k] IN
    /\ h # 0
    /\ handles[k] # h
    /\ inUse' = [inUse EXCEPT ![k] = 0]
    /\ IF h \in ready /\ Len(available) < targetSize
       THEN available' = Append(available, h) /\ UNCHANGED ready
       ELSE UNCHANGED available /\ Cleanup({h})
    /\ UNCHANGED <<made, creating, targetSize, handles, workerVars, startVars, loop, stop>>

\* go pm.createPooledSandbox, once per handle that is missing.
Spawn(total) ==
    LET needed == IF total < targetSize THEN targetSize - total ELSE 0 IN
    /\ spawned + running + finishing + needed <= MaxWorkers
    /\ spawned' = spawned + needed
    /\ UNCHANGED <<running, finishing>>

\* The sizes in the order warmUpPools reads them.
sizesRead == <<Len(available), Cardinality(Held), creating>>

\* warmUpPools reads the sizes without pool.mu, a data race: the other goroutines
\* may run between any two of the reads.
warmUpRead ==
    /\ reads < 3
    /\ reads' = reads + 1
    /\ seen' = seen + sizesRead[reads + 1]
    /\ UNCHANGED <<handles, poolVars, workerVars, handleVars, loop, stop>>

warmUpPools ==
    /\ reads = 3
    /\ Spawn(seen)
    /\ reads' = 4
    /\ seen' = 0
    /\ UNCHANGED <<handles, poolVars, handleVars, loop, stop>>

\* pm.mu is read-locked by a warm-up under way, which keeps writers out.
WriteLockable == reads \in {0, 4}

\* wait.Until looks at stopCh before each round.
maintenanceRound ==
    /\ loop = "idle"
    /\ stop = "no"
    /\ loop' = "replenish"
    /\ UNCHANGED <<handles, poolVars, workerVars, startVars, handleVars, stop>>

\* Handles in use count against the target; goroutines that were spawned and
\* have not counted themselves yet do not.
replenishPools ==
    /\ loop = "replenish"
    /\ Spawn(Total)
    /\ loop' = "evict"
    /\ UNCHANGED <<handles, poolVars, startVars, handleVars, stop>>

\* The handles over the target, from the tail.
evictIdleSandboxes ==
    LET keep == IF Len(available) > targetSize THEN targetSize ELSE Len(available)
        over == {available[i] : i \in (keep + 1)..Len(available)}
    IN  /\ loop = "evict"
        /\ available' = SubSeq(available, 1, keep)
        /\ Cleanup(over)
        /\ loop' = "idle"
        /\ UNCHANGED <<made, inUse, creating, targetSize, handles, workerVars, startVars, stop>>

\* createPooledSandbox counts itself, asks the provider, stores or cleans up
\* the handle, and counts itself out.
createStarts ==
    /\ spawned > 0
    /\ spawned' = spawned - 1
    /\ running' = running + 1
    /\ creating' = creating + 1
    /\ UNCHANGED <<finishing, available, inUse, targetSize, handles, startVars,
                   handleVars, loop, stop>>

createStores ==
    /\ running > 0
    /\ Make
    /\ running' = running - 1
    /\ finishing' = finishing + 1
    /\ IF Len(available) < targetSize
       THEN /\ available' = Append(available, made + 1)
            /\ ready' = ready \cup {made + 1}
       ELSE UNCHANGED <<available, ready>>
    /\ UNCHANGED <<spawned, inUse, creating, targetSize, handles, startVars, loop, stop>>

\* Mutant: a failed creation returns without the deferred Creating--.
createFailsEarly ==
    /\ running > 0
    /\ running' = running - 1
    /\ UNCHANGED <<spawned, finishing, handles, poolVars, startVars, handleVars, loop, stop>>

\* The provider is missing or fails.
createFails ==
    /\ running > 0
    /\ running' = running - 1
    /\ finishing' = finishing + 1
    /\ UNCHANGED <<spawned, handles, poolVars, startVars, handleVars, loop, stop>>

createEnds ==
    /\ finishing > 0
    /\ finishing' = finishing - 1
    /\ creating' = creating - 1
    /\ UNCHANGED <<spawned, running, available, inUse, targetSize, handles, startVars,
                   handleVars, loop, stop>>

\* Handles over a smaller target stay until the next round evicts them.
ResizePool(n) ==
    /\ WriteLockable
    /\ targetSize' = n
    /\ UNCHANGED <<available, inUse, creating, handles, workerVars, startVars,
                   handleVars, loop, stop>>

\* Stop of the pool manager, its first step.
StopManager ==
    /\ stop = "no"
    /\ stop' = "closed"
    /\ UNCHANGED <<handles, poolVars, workerVars, startVars, handleVars, loop>>

\* The rest of Stop.  Goroutines in flight go on and fill the pool again.
drainPools ==
    /\ stop = "closed"
    /\ WriteLockable
    /\ stop' = "drained"
    /\ Cleanup({available[i] : i \in 1..Len(available)} \cup {inUse[k] : k \in Held})
    /\ available' = <<>>
    /\ inUse' = [k \in Keys |-> 0]
    /\ UNCHANGED <<made, creating, targetSize, handles, workerVars, startVars, loop>>

Maintenance == maintenanceRound \/ replenishPools \/ evictIdleSandboxes
Worker == createStarts \/ createStores \/ createFails \/ createEnds

PoolNext ==
    \/ \E k \in Keys : CreateRuntime(k) \/ StartRuntime(k) \/ StopRuntime(k) \/ RemoveRuntime(k)
    \/ \E k \in Keys : ReturnToPool(k)
    \/ warmUpRead \/ warmUpPools
    \/ Maintenance \/ Worker
    \/ \E n \in Sizes : ResizePool(n)
    \/ StopManager \/ drainPools

PoolSpec == PoolInit /\ [][PoolNext]_vars

\* The goroutines of Start run; nothing is assumed of the callers or of whether
\* a creation succeeds.
FairPoolSpec ==
    /\ PoolSpec
    /\ WF_vars(Maintenance)
    /\ WF_vars(createStarts) /\ WF_vars(createStores \/ createFails) /\ WF_vars(createEnds)

-----------------------------------------------------------------------------
(* Properties *)

\* Every field of the manager and of the pool keeps its type.
PoolTypeOK ==
    /\ made \in Nat /\ ready \subseteq Handles
    /\ handles \in [Keys -> Handles \cup {0}]
    /\ available \in Seq(Handles)
    /\ inUse \in [Keys -> Handles \cup {0}]
    /\ creating \in Nat /\ targetSize \in Nat
    /\ spawned \in Nat /\ running \in Nat /\ finishing \in Nat
    /\ reads \in 0..4 /\ seen \in Nat
    /\ loop \in {"idle", "replenish", "evict"}
    /\ stop \in {"no", "closed", "drained"}

Serves(k) == {handles[k], inUse[k]} \ {0}

\* No handle serves two sandboxes, and none that serves a sandbox is offered by
\* the pool, however creations, returns, shutdown and the pool's goroutines
\* interleave.
Exclusive ==
    /\ \A i, j \in 1..Len(available) : available[i] = available[j] => i = j
    /\ \A k \in Keys : \A i \in 1..Len(available) : available[i] \notin Serves(k)
    /\ \A k, l \in Keys : k # l => Serves(k) \cap Serves(l) = {}

\* GetFromPool does not look at the state of the handle it gives out, so what the
\* pool offers has to be ready: neither stopped nor cleaned up.
AvailableReady ==
    \A i \in 1..Len(available) : available[i] \in ready

\* Creating is the number of goroutines between their two updates of it, whatever
\* way they end: replenishPools relies on it.
CreatingCounted == creating = running + finishing

\* A pool below its target is not given up: as long as it runs, there is another
\* attempt to fill it, however many have failed.
FillGoesOn ==
    Len(available) + Cardinality(Held) < targetSize ~>
        \/ running > 0
        \/ Len(available) + Cardinality(Held) >= targetSize
        \/ stop # "no"

\* What the pool keeps while its goroutines, its clients and the shutdown
\* interleave: one owner per handle, only ready handles on offer, a count of the
\* creations under way that can be relied on.
PoolSafe == PoolTypeOK /\ Exclusive /\ AvailableReady /\ CreatingCounted
=============================================================================
