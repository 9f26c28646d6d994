-------------------------- MODULE SchedulingQueue --------------------------
(***************************************************************************)
(* The scheduler's PriorityQueue (pkg/scheduler/queue/queue.go): an active *)
(* heap with a side map from sandbox key to heap item, a queue of          *)
(* sandboxes that failed scheduling, and the backoff bookkeeping.  Every   *)
(* public method and both background flushes run under q.mu, so each is    *)
(* one action.  The heap is the set of its wrappers: what Pop returns is a *)
(* wrapper no other one precedes under Less.  The clock is the sequence of *)
(* q.clock.Now() readings; readings are taken to be strictly increasing.   *)
(***************************************************************************)
EXTENDS Integers, FiniteSets

CONSTANTS
    Keys,                  \* "namespace/name" of the sandboxes
    Specs,                 \* [priority, tenant]: what getPriority reads of a Sandbox
    maxSchedulingAttempts, \* bound on SandboxInfo.Attempts (Scheduler's field)
    baseBackoffDuration,   \* in clock units
    maxBackoffDuration,
    MaxClock               \* bound: no new event after this clock reading

Tenants == {"free", "standard", "premium"}

ASSUME SpecsAssumption == Specs \subseteq [priority : Int, tenant : Tenants]
ASSUME AttemptsAssumption == maxSchedulingAttempts \in Nat \ {0}
ASSUME BackoffAssumption ==
    /\ baseBackoffDuration \in Nat \ {0}
    /\ maxBackoffDuration \in Nat \ {0}
    /\ baseBackoffDuration <= maxBackoffDuration
\* baseBackoffDuration * 2^(attempts-1) does not leave int64 (it would from
\* attempt 35 on with the code's one second): the flag's default is 5 attempts.
ASSUME NoOverflowAssumption ==
    \A n \in 1..maxSchedulingAttempts :
        baseBackoffDuration * 2^(n - 1) \in Nat \ {0}
ASSUME ClockAssumption == MaxClock \in Nat \ {0}

VARIABLES
    activeQ,        \* pq.items: set of sandboxInfoWrappers [info, timestamp]
    itemMap,        \* pq.itemMap: timestamp of the wrapper a key points at, 0 = no entry
    unschedulableQ, \* uq.items: set of [info, retryAfter]
    backoffMap,     \* q.backoffMap: backoff of a key, 0 = no entry
    clock           \* the next q.clock.Now()

qvars == <<activeQ, itemMap, unschedulableQ, backoffMap, clock>>

\* framework.SandboxInfo; Attempts starts at 1 in the informer handlers.
SandboxInfos == [key : Keys, spec : Specs, attempts : 1..maxSchedulingAttempts]
Wrappers == [info : SandboxInfos, timestamp : Nat \ {0}]
UnschedulableItems == [info : SandboxInfos, retryAfter : Nat]

-----------------------------------------------------------------------------
(* Helpers *)

\* The tier boost on top of Spec.Priority; the tenant's name is its tier.
getPriority(info) ==
    info.spec.priority +
        CASE info.spec.tenant = "premium"  -> 1000
          [] info.spec.tenant = "standard" -> 500
          [] OTHER                         -> 0

Less(w, v) ==
    IF getPriority(w.info) # getPriority(v.info)
    THEN getPriority(w.info) > getPriority(v.info)
    ELSE w.timestamp < v.timestamp

calculateBackoff(attempts) ==
    IF baseBackoffDuration * 2^(attempts - 1) > maxBackoffDuration
    THEN maxBackoffDuration
    ELSE baseBackoffDuration * 2^(attempts - 1)

Exists(key) == itemMap[key] # 0

\* What pq.itemMap[key] points at, as the set of the wrappers that match.
Mapped(key) ==
    {w \in activeQ : w.info.key = key /\ w.timestamp = itemMap[key]}

Without(queue, key) == {u \in queue : u.info.key # key}

Item(queue, key) == {u \in queue : u.info.key = key}

-----------------------------------------------------------------------------
(* Operations of the queue *)

QueueInit ==
    /\ activeQ = {}
    /\ itemMap = [k \in Keys |-> 0]
    /\ unschedulableQ = {}
    /\ backoffMap = [k \in Keys |-> 0]
    /\ clock = 1

\* A push without a look at itemMap: a second wrapper of the same key is
\* possible, and the map then points at the newer one.  backoffMap stays.
Add(info) ==
    /\ unschedulableQ' = Without(unschedulableQ, info.key)
    /\ activeQ' = activeQ \cup {[info |-> info, timestamp |-> clock]}
    /\ itemMap' = [itemMap EXCEPT ![info.key] = clock]
    /\ clock' = clock + 1
    /\ UNCHANGED backoffMap

\* sandboxInfo.Attempts++, then the backoff of the new attempt number.
AddUnschedulableIfNotPresent(info) ==
    LET retry   == [info EXCEPT !.attempts = @ + 1]
        backoff == calculateBackoff(retry.attempts)
    IN  /\ IF Exists(info.key)
           THEN UNCHANGED <<unschedulableQ, backoffMap>>
           ELSE /\ backoffMap' = [backoffMap EXCEPT ![info.key] = backoff]
                /\ unschedulableQ' =
                       Without(unschedulableQ, info.key) \cup
                           {[info |-> retry, retryAfter |-> clock + backoff]}
        /\ UNCHANGED <<activeQ, itemMap, clock>>

\* Mutant: the map entry of the popped sandbox is forgotten.
PopKeepsEntry(w) ==
    /\ w \in activeQ
    /\ \A v \in activeQ : ~ Less(v, w)
    /\ activeQ' = activeQ \ {w}
    /\ UNCHANGED <<itemMap, unschedulableQ, backoffMap, clock>>

\* heap.Pop.  priorityQueue.Pop deletes the map entry of the popped key, even
\* when that entry points at another wrapper of the key.
Pop(w) ==
    /\ w \in activeQ
    /\ \A v \in activeQ : ~ Less(v, w)
    /\ activeQ' = activeQ \ {w}
    /\ itemMap' = [itemMap EXCEPT ![w.info.key] = 0]
    /\ UNCHANGED <<unschedulableQ, backoffMap, clock>>

\* The mapped wrapper gets the new SandboxInfo and keeps its timestamp; only a
\* key without one is looked up in the unschedulable queue.
Update(info) ==
    /\ IF Exists(info.key)
       THEN /\ activeQ' = (activeQ \ Mapped(info.key)) \cup
                          {[w EXCEPT !.info = info] : w \in Mapped(info.key)}
            /\ UNCHANGED unschedulableQ
       ELSE /\ unschedulableQ' = Without(unschedulableQ, info.key) \cup
                   {[u EXCEPT !.info = info] : u \in Item(unschedulableQ, info.key)}
            /\ UNCHANGED activeQ
    /\ UNCHANGED <<itemMap, backoffMap, clock>>

\* Only the wrapper the map points at leaves the heap.
Delete(key) ==
    /\ activeQ' = activeQ \ Mapped(key)
    /\ itemMap' = [itemMap EXCEPT ![key] = 0]
    /\ unschedulableQ' = Without(unschedulableQ, key)
    /\ backoffMap' = [backoffMap EXCEPT ![key] = 0]
    /\ UNCHANGED clock

\* Mutant: the two times of the comparison are swapped.
DueSwapped(now) == {u \in unschedulableQ : now < u.retryAfter}

\* uq.Flush(now): the items with now.After(retryAfter).
Due(now) == {u \in unschedulableQ : now > u.retryAfter}

\* Mutant: one expired item is pushed and all of them are removed.
flushUnschedulableOne ==
    /\ Due(clock) # {}
    /\ LET u == CHOOSE u \in Due(clock) : TRUE IN
       /\ activeQ' = activeQ \cup {[info |-> u.info, timestamp |-> clock]}
       /\ itemMap' = [itemMap EXCEPT ![u.info.key] = clock]
    /\ unschedulableQ' = unschedulableQ \ Due(clock)
    /\ clock' = clock + 1
    /\ UNCHANGED backoffMap

\* Every expired item is pushed with the one `now`.  With nothing expired the
\* call changes nothing, which is a stuttering step.
flushUnschedulable ==
    LET flushed == {u.info.key : u \in Due(clock)} IN
    /\ Due(clock) # {}
    /\ unschedulableQ' = unschedulableQ \ Due(clock)
    /\ activeQ' = activeQ \cup
           {[info |-> u.info, timestamp |-> clock] : u \in Due(clock)}
    /\ itemMap' = [k \in Keys |-> IF k \in flushed THEN clock ELSE itemMap[k]]
    /\ backoffMap' = [k \in Keys |-> IF k \in flushed THEN 0 ELSE backoffMap[k]]
    /\ clock' = clock + 1

\* Drops the entries above the cap.
flushBackoff ==
    /\ backoffMap' = [k \in Keys |-> IF backoffMap[k] > maxBackoffDuration
                                     THEN 0 ELSE backoffMap[k]]
    /\ UNCHANGED <<activeQ, itemMap, unschedulableQ, clock>>

\* Time passes.  It only matters while somebody waits for its retry time.
Tick ==
    /\ \E u \in unschedulableQ : clock <= u.retryAfter
    /\ clock' = clock + 1
    /\ UNCHANGED <<activeQ, itemMap, unschedulableQ, backoffMap>>

-----------------------------------------------------------------------------
(* The queue with any client that respects the attempt limit *)

Retryable == {info \in SandboxInfos : info.attempts < maxSchedulingAttempts}

QueueNext ==
    \/ /\ clock < MaxClock
       /\ \/ \E info \in SandboxInfos : Add(info)
          \/ flushUnschedulable
          \/ Tick
    \/ \E info \in SandboxInfos : Update(info)
    \/ \E info \in Retryable : AddUnschedulableIfNotPresent(info)
    \/ \E w \in activeQ : Pop(w)
    \/ \E k \in Keys : Delete(k)
    \/ flushBackoff

QueueSpec == QueueInit /\ [][QueueNext]_qvars

-----------------------------------------------------------------------------
(* Properties *)

InActive(key) == Item(activeQ, key) # {}

InUnschedulable(key) == Item(unschedulableQ, key) # {}

Queued(key) == InActive(key) \/ InUnschedulable(key)

\* The queue's fields keep their types: every wrapper, map entry, waiting item
\* and backoff is a value PriorityQueue can hold, and Attempts stays within the
\* limit handleSchedulingFailure tests.
QueueTypeOK ==
    /\ activeQ \subseteq Wrappers
    /\ itemMap \in [Keys -> Nat]
    /\ unschedulableQ \subseteq UnschedulableItems
    /\ backoffMap \in [Keys -> Nat]
    /\ clock \in Nat \ {0}

\* pq.itemMap never points at a wrapper that has left the heap (Delete and
\* Update would call heap.Remove or heap.Fix with index -1 and panic), and the
\* entry of a key is the wrapper pushed last: Update and Delete act on the newest
\* SandboxInfo even when informer events left older wrappers of the key behind.
MapSound ==
    /\ \A k \in Keys : Exists(k) => \E w \in activeQ :
          w.info.key = k /\ w.timestamp = itemMap[k]
    /\ \A w \in activeQ :
          /\ w.timestamp < clock
          /\ Exists(w.info.key) => w.timestamp <= itemMap[w.info.key]
    /\ \A w, v \in activeQ :
          w.info.key = v.info.key /\ w.timestamp = v.timestamp => w = v

\* A sandbox the active queue knows of is not at the same time waiting out a
\* backoff: what the Exists test of AddUnschedulableIfNotPresent and the
\* unschedulableQ.Delete of Add together guarantee.
KnownNotUnschedulable ==
    \A k \in Keys : Exists(k) => ~ InUnschedulable(k)

\* A waiting sandbox has its backoff recorded, at most one entry waits per key,
\* its retry time is never further away than that backoff, and no backoff is above
\* the cap: Add, Delete and the two flushes may not leave the two maps in
\* disagreement, and flushBackoff never forgets the backoff of a waiting sandbox.
BackoffRecorded ==
    /\ \A k \in Keys : backoffMap[k] <= maxBackoffDuration
    /\ \A u \in unschedulableQ :
          /\ backoffMap[u.info.key] # 0
          /\ u.retryAfter <= clock + backoffMap[u.info.key]
    /\ \A u, v \in unschedulableQ : u.info.key = v.info.key => u = v

\* Only Pop and Delete take a sandbox out of the queue: no Add, failed retry,
\* update or flush loses the last entry of a sandbox that waits for scheduling.
NothingLost ==
    [][\A k \in Keys : Queued(k) /\ ~ Queued(k)' =>
          (\E w \in activeQ : Pop(w)) \/ Delete(k)]_qvars

\* What PriorityQueue keeps between its calls, whatever order Pop, the informer's
\* handlers and the two flushes come in: its maps and its heaps agree.
QueueSafe == QueueTypeOK /\ MapSound /\ KnownNotUnschedulable /\ BackoffRecorded
=============================================================================
